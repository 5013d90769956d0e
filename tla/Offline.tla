------------------------------ MODULE Offline ------------------------------
(***************************************************************************)
(* One token and its chain, left alone as the clock advances: what a       *)
(* device that stays offline sees of Chain and Validate.                   *)
(***************************************************************************)
EXTENDS Chain

CONSTANTS
  Watched,      \* pairs of a chain and a token
  LastTime      \* bound on the clock

ASSUME OfflineAssumption ==
  /\ Watched \subseteq Chains \X ActivationTokens
  /\ ThisMachine \in STRING /\ LastTime \in Nat

VARIABLES chain, token, now
vars == <<chain, token, now>>

\* The clock starts before the certs' own dates.
Init == now = 0 /\ \E w \in Watched : chain = w[1] /\ token = w[2]

Next == now < LastTime /\ now' = now + 1 /\ UNCHANGED <<chain, token>>
Done == now = LastTime /\ UNCHANGED vars
Spec == Init /\ [][Next \/ Done]_vars

-----------------------------------------------------------------------------
(* Properties *)

\* Only the submaster and project certs end a token's verification.
Verifying == [][KeepsVerifying(chain, token, now, now')]_vars
\* A daily key authorises nothing MaxGrace past its day.
DailyBound == DailyKeyBound(chain, token, now)
\* The two token formats mean the same instants.
SameInstants == FormatsAgree(token, now)
\* A licence is accepted exactly inside the window of its three deadlines.
Accepted == AcceptedInWindow(LicenceOf(token), ThisMachine, now)
\* validate_at, is_valid and in_grace_period agree at every boundary.
Fresh == \A failed \in BOOLEAN :
  FreshnessAgrees(LicenceOf(token), ThisMachine, now, failed)
\* The verdict on one licence only worsens as the clock advances.
OnlyWorsens == [][NeverImproves(LicenceOf(token), ThisMachine, now, now')]_vars
\* The README's offline window.
OfflineWindow == [][GraceHonoured(chain, token, now, now')]_vars
=============================================================================
