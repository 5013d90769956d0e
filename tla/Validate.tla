------------------------------ MODULE Validate ------------------------------
(***************************************************************************)
(* The offline verdict on a verified licence: src/src/validate.rs, plus    *)
(* the three-way answer `Sdk::check` makes of it.                          *)
(*                                                                         *)
(* A licence is the part of domain.rs's License the verdict looks at: the  *)
(* machine it was issued to and three times.  Times are whole units since  *)
(* the Unix epoch, and may lie before it.                                  *)
(***************************************************************************)
EXTENDS Integers

CONSTANTS MaxAge,           \* MAX_AGE, the 365-day ceiling
          MaxRenewalTime    \* MAX_RENEWAL_TIME, 60 minutes

ASSUME ValidateAssumption == MaxAge \in Nat /\ MaxRenewalTime \in Nat

Epoch == 0

\* `License` as validate.rs sees it, over a set of machines.
Licences(Machines) ==
  [machine : Machines, issued : Int, expires : Int, grace : Nat]

Verdicts == {"Ok", "InvalidFields", "MachineIdMismatch", "HardExpired",
             "GraceExpired", "LicenseTooOld"}

\* `duration_since(..).unwrap_or(ZERO)`: an instant in the future is age 0.
Age(lic, now) == IF now >= lic.issued THEN now - lic.issued ELSE 0

FaultyDeadline(lic) == lic.issued + lic.grace - 1

OfflineDeadline(lic) == lic.issued + lic.grace

\* A definition named Faulty... is a bug the code could have had (README.md).
FaultyValidateAt(lic, machine, now) ==
  IF lic.issued = Epoch \/ lic.expires = Epoch \/ lic.grace = 0
    THEN "InvalidFields"
  ELSE IF lic.machine # machine THEN "MachineIdMismatch"
  ELSE IF lic.expires < lic.issued THEN "InvalidFields"
  ELSE IF now > OfflineDeadline(lic) THEN "GraceExpired"
  ELSE IF now > lic.expires THEN "HardExpired"
  ELSE IF Age(lic, now) > MaxAge THEN "LicenseTooOld"
  ELSE "Ok"

\* The checks of validate_at, in the order the code makes them.
ValidateAt(lic, machine, now) ==
  IF lic.issued = Epoch \/ lic.expires = Epoch \/ lic.grace = 0
    THEN "InvalidFields"
  ELSE IF lic.machine # machine THEN "MachineIdMismatch"
  ELSE IF lic.expires < lic.issued THEN "InvalidFields"
  ELSE IF now > lic.expires THEN "HardExpired"
  ELSE IF now > OfflineDeadline(lic) THEN "GraceExpired"
  ELSE IF Age(lic, now) > MaxAge THEN "LicenseTooOld"
  ELSE "Ok"

\* The advisory flag: strict at both ends, never before the issue date.
InGracePeriod(lic, now, renewalFailed) ==
  /\ renewalFailed
  /\ now >= lic.issued
  /\ now - lic.issued > MaxRenewalTime
  /\ now - lic.issued < lic.grace

FaultyIsValid(lic, now) == now >= lic.issued => now - lic.issued < lic.grace

\* The third freshness test: inclusive, and true before the issue date.
IsValid(lic, now) == now >= lic.issued => now - lic.issued <= lic.grace

-----------------------------------------------------------------------------
(* What the verdict promises, for one licence, machine and instant. *)

Window(lic) == {t \in Nat : t <= lic.expires /\ t <= lic.issued + lic.grace
                            /\ t <= lic.issued + MaxAge}

\* A licence is accepted exactly when it is complete, for this machine, and
\* every one of the three independent deadlines is still ahead or just reached.
AcceptedInWindow(lic, machine, now) ==
  ValidateAt(lic, machine, now) = "Ok" <=>
    /\ lic.issued # Epoch /\ lic.expires # Epoch /\ lic.grace # 0
    /\ lic.machine = machine /\ lic.issued <= lic.expires
    /\ now \in Window(lic)

\* The three freshness tests agree wherever their answers meet: an accepted
\* licence is_valid, one past its grace is not, and one reported in its grace
\* period is short of the offline deadline.
FreshnessAgrees(lic, machine, now, renewalFailed) ==
  /\ ValidateAt(lic, machine, now) = "Ok" => IsValid(lic, now)
  /\ ValidateAt(lic, machine, now) = "GraceExpired" => ~IsValid(lic, now)
  /\ InGracePeriod(lic, now, renewalFailed) =>
       IsValid(lic, now) /\ now < OfflineDeadline(lic)

\* How bad a verdict is; the first three do not depend on the time.
Badness(v) == CASE v = "Ok" -> 0
                [] v = "LicenseTooOld" -> 1
                [] v = "GraceExpired" -> 2
                [] OTHER -> 3

\* As time passes a licence that stopped being accepted never is again, and a
\* host that is told to renew is never told the milder thing later.
NeverImproves(lic, machine, now, later) ==
  now <= later => Badness(ValidateAt(lic, machine, now))
                    <= Badness(ValidateAt(lic, machine, later))
=============================================================================
