------------------------------- MODULE MCSdk -------------------------------
(* Sdk instantiated for TLC: the sets the configurations choose from. *)
EXTENDS Sdk, TLC

AllOpsUsed == AllOps
RenewalOps == {"check", "activate", "deactivate"}
CheckOnly == {"check"}
CheckAndRenew == {"check", "renew"}
RenewAndDeactivate == {"renew", "deactivate"}

GoodOnly == {"good"}
GoodAndBad == {"good", "bad"}
GoodAndForeign == {"good", "foreign"}

OneExpiry == {50}

CallerSymmetry == Permutations(Callers)
=============================================================================
