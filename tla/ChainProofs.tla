---------------------------- MODULE ChainProofs ----------------------------
(***************************************************************************)
(* What verification and the verdict promise of every chain, token and     *)
(* instant, and that Offline keeps those promises for any set of them.     *)
(***************************************************************************)
EXTENDS Offline, TLAPS

-----------------------------------------------------------------------------
(* The verdict *)

\* A licence is accepted exactly inside the window of its three deadlines.
THEOREM AcceptedExactlyInWindow ==
  ASSUME NEW M, NEW lic \in Licences(M), NEW machine \in M, NEW instant \in Nat
  PROVE  AcceptedInWindow(lic, machine, instant)
BY ValidateAssumption
   DEF AcceptedInWindow, ValidateAt, Window, Licences, OfflineDeadline, Age, Epoch

\* The three freshness tests agree at their boundaries.
THEOREM FreshnessTestsAgree ==
  ASSUME NEW M, NEW lic \in Licences(M), NEW machine \in M, NEW instant \in Nat,
         NEW failed \in BOOLEAN
  PROVE  FreshnessAgrees(lic, machine, instant, failed)
BY ValidateAssumption
   DEF FreshnessAgrees, ValidateAt, InGracePeriod, IsValid, Licences,
       OfflineDeadline, Age, Epoch

\* The verdict on one licence only worsens as time passes.
THEOREM VerdictNeverImproves ==
  ASSUME NEW M, NEW lic \in Licences(M), NEW machine \in M,
         NEW instant \in Nat, NEW later \in Nat
  PROVE  NeverImproves(lic, machine, instant, later)
<1>. SUFFICES ASSUME instant <= later
             PROVE  Badness(ValidateAt(lic, machine, instant))
                      <= Badness(ValidateAt(lic, machine, later))
  BY DEF NeverImproves
<1>1. CASE lic.issued = Epoch \/ lic.expires = Epoch \/ lic.grace = 0
           \/ lic.machine # machine \/ lic.expires < lic.issued
  <2>1. \A t \in Nat : Badness(ValidateAt(lic, machine, t)) = 3
    BY <1>1 DEF Badness, ValidateAt
  <2>2. QED
    BY <2>1
<1>2. CASE ~(lic.issued = Epoch \/ lic.expires = Epoch \/ lic.grace = 0
             \/ lic.machine # machine \/ lic.expires < lic.issued)
  <2>. DEFINE Bad(t) == IF t > lic.expires THEN 3
                        ELSE IF t > OfflineDeadline(lic) THEN 2
                        ELSE IF Age(lic, t) > MaxAge THEN 1 ELSE 0
  <2>1. \A t \in Nat : Badness(ValidateAt(lic, machine, t)) = Bad(t)
    BY <1>2 DEF Badness, ValidateAt
  <2>2. Bad(instant) <= Bad(later)
    BY ValidateAssumption DEF Licences, OfflineDeadline, Age
  <2>3. QED
    BY <2>1, <2>2
<1>3. QED
  BY <1>1, <1>2

-----------------------------------------------------------------------------
(* Chains, tokens and instants *)

LEMMA TimeClaimsLast ==
  ASSUME NEW cert \in Certs, NEW n \in Nat, NEW later \in Nat, n <= later,
         NEW checkExp \in BOOLEAN, TimeClaims(cert, n, checkExp),
         checkExp => ~Earlier(cert.exp, later)
  PROVE  TimeClaims(cert, later, checkExp)
<1>1. /\ cert.iat \in Claims /\ cert.nbf \in Claims /\ cert.exp \in Claims
  BY DEF Certs
<1>2. ~Later(cert.iat, later) /\ ~Later(cert.nbf, later)
  BY <1>1 DEF TimeClaims, Later, Claims
<1> QED BY <1>2 DEF TimeClaims

\* Once a token verifies offline, only the end of its submaster or project
\* cert stops it: not its daily cert's expiry, not its own exp.
THEOREM VerificationLasts ==
  ASSUME NEW c \in Chains, NEW t \in ActivationTokens,
         NEW n \in Nat, NEW later \in Nat
  PROVE  KeepsVerifying(c, t, n, later)
<1> SUFFICES ASSUME Verifies(c, t, n), n <= later,
                    ~Earlier(c.submaster.exp, later),
                    ~Earlier(c.project.exp, later)
             PROVE  Verifies(c, t, later)
  BY DEF KeepsVerifying
<1>1. /\ c.submaster \in Certs /\ c.project \in Certs
      /\ c.daily \in Certs
  BY DEF Chains
<1>2. CertVerifies(c.submaster, Masters, later, TRUE)
  BY <1>1, TimeClaimsLast DEF Verifies, CertVerifies
<1>3. CertVerifies(c.project, {c.submaster.key}, later, TRUE)
  BY <1>1, TimeClaimsLast DEF Verifies, CertVerifies
<1>4. CertVerifies(c.daily, {c.project.key}, later, FALSE)
  BY <1>1, TimeClaimsLast DEF Verifies, CertVerifies
<1> QED BY <1>2, <1>3, <1>4 DEF Verifies

\* And it is exactly those two ends that stop it: to a token that has verified
\* the certificates above it are one instant, the end of the earlier of the two.
THEOREM VerificationEndsWithCerts ==
  ASSUME NEW c \in Chains, NEW t \in ActivationTokens,
         NEW n \in Nat, NEW later \in Nat, n <= later, Verifies(c, t, n)
  PROVE  Verifies(c, t, later) <=> /\ ~Earlier(c.submaster.exp, later)
                                   /\ ~Earlier(c.project.exp, later)
<1>1. Verifies(c, t, later) => /\ ~Earlier(c.submaster.exp, later)
                               /\ ~Earlier(c.project.exp, later)
  BY DEF Verifies, CertVerifies, TimeClaims
<1> QED BY <1>1, VerificationLasts DEF KeepsVerifying

\* The documented offline window is kept but for the certs: whoever may use a
\* licence now may use it at any later instant short of its own three deadlines
\* at which the submaster and project certs still last.
THEOREM OnlyCertsCutTheWindow ==
  ASSUME NEW c \in Chains, NEW t \in ActivationTokens,
         NEW n \in Nat, NEW later \in Nat,
         ~Earlier(c.submaster.exp, later), ~Earlier(c.project.exp, later)
  PROVE  GraceHonoured(c, t, n, later)
BY VerificationLasts DEF GraceHonoured, Usable, KeepsVerifying

\* Whatever a daily key signed is refused once MaxGrace has passed since the
\* daily cert's expiry: a leaked daily key cannot authorise a machine for long.
THEOREM DailyKeyIsBounded ==
  ASSUME NEW c \in Chains, NEW t \in ActivationTokens, NEW n \in Nat
  PROVE  DailyKeyBound(c, t, n)
<1> SUFFICES ASSUME Usable(c, t, n)
             PROVE  n <= c.daily.exp + MaxGrace
  BY DEF DailyKeyBound
<1> DEFINE iat == ClaimOr(t.iat, 0)
<1>1. c.daily.exp \in Int
  BY DEF Usable, Verifies, InDailyWindow, Chains, Certs, Claims
<1>2. iat \in Int /\ iat <= c.daily.exp
  <2>1. t.iat \in Claims
    BY DEF ActivationTokens
  <2> QED BY <2>1 DEF Claims, ClaimOr, Usable, Verifies, InDailyWindow
<1>3. GraceOf(t) \in Int /\ GraceOf(t) <= MaxGrace
  <2>1. /\ t.iat \in Claims /\ t.exp \in Claims /\ t.grc \in Claims
    BY DEF ActivationTokens
  <2> QED BY <2>1 DEF Claims, ClaimOr, GraceOf, Usable, Verifies
<1>4. ~(n > iat + GraceOf(t))
  BY DEF Usable, ValidateAt, OfflineDeadline, LicenceOf
<1> QED BY <1>1, <1>2, <1>3, <1>4, ChainAssumption

\* The two token formats of one licence are accepted at the same instants, so
\* a server may move between them without shortening anyone's offline window.
THEOREM TokenFormatsAgree ==
  ASSUME NEW t \in ActivationTokens, NEW n \in Nat
  PROVE  FormatsAgree(t, n)
<1> SUFFICES ASSUME t.grc \in Nat, t.iat \in Nat, t.exp \in Nat,
                    t.iat < t.exp
             PROVE  ValidateAt(LicenceOf(t), ThisMachine, n) = "Ok" <=>
                    ValidateAt(LicenceOf(WithoutGrc(t)), ThisMachine, n) = "Ok"
  <2>1. FormatsAgree(t, n) <=>
          (/\ t.grc \in Nat /\ t.iat \in Nat
           /\ t.exp \in Nat /\ t.iat < t.exp
           => ((ValidateAt(LicenceOf(t), ThisMachine, n) = "Ok") =
               (ValidateAt(LicenceOf(WithoutGrc(t)), ThisMachine, n) = "Ok")))
    BY Zenon DEF FormatsAgree
  <2> QED BY <2>1
<1> DEFINE other == WithoutGrc(t)
           lic == LicenceOf(t)
           alt == LicenceOf(other)
<1>1. Absent \notin Int
  BY ChainAssumption
<1>2. /\ lic.machine = t.machine /\ lic.issued = t.iat
      /\ lic.expires = t.exp /\ lic.grace = t.grc
  BY <1>1 DEF LicenceOf, ExpiresOf, GraceOf, ClaimOr
<1>3. /\ other.machine = t.machine /\ other.iat = t.iat
      /\ other.grc = Absent /\ other.lex = t.exp
      /\ other.exp = IF t.iat + t.grc < t.exp
                     THEN t.iat + t.grc ELSE t.exp
  BY DEF WithoutGrc, ActivationTokens
<1> HIDE DEF other
<1>4. /\ alt.machine = t.machine /\ alt.issued = t.iat
      /\ alt.expires = t.exp
      /\ alt.grace = IF t.iat + t.grc < t.exp
                     THEN t.grc ELSE t.exp - t.iat
  BY <1>1, <1>3 DEF LicenceOf, ExpiresOf, GraceOf, ClaimOr
<1> HIDE DEF lic, alt
<1>5. ValidateAt(lic, ThisMachine, n) = "Ok" <=>
      ValidateAt(alt, ThisMachine, n) = "Ok"
  <2>1. CASE t.iat + t.grc < t.exp
    BY <1>2, <1>4, <2>1
       DEF ValidateAt, OfflineDeadline, Age, Epoch
  <2>2. CASE ~(t.iat + t.grc < t.exp)
    BY <1>2, <1>4, <2>2
       DEF ValidateAt, OfflineDeadline, Age, Epoch
  <2> QED BY <2>1, <2>2
<1> QED BY <1>5 DEF lic, alt, other

-----------------------------------------------------------------------------
(* A device that stays offline *)

\* The pair watched stays well typed, the clock a natural number that never
\* goes back.
Typing == chain \in Chains /\ token \in ActivationTokens /\ now \in Nat

LEMMA Watching == Spec => []Typing
<1>1. Init => Typing
  BY OfflineAssumption DEF Init, Typing
<1>2. Typing /\ [Next \/ Done]_vars => Typing'
  BY DEF Typing, Next, Done, vars
<1> QED BY <1>1, <1>2, PTL DEF Spec

LEMMA ClockAdvances ==
  ASSUME Typing, [Next \/ Done]_vars
  PROVE  now \in Nat /\ now' \in Nat
BY DEF Typing, Next, Done, vars

\* What the verdict is asked about is a licence of Validate, dates before the
\* epoch included.
LEMMA LicenceTyped ==
  ASSUME NEW t \in ActivationTokens
  PROVE  LicenceOf(t) \in Licences(STRING)
<1>1. /\ t.iat \in Claims /\ t.exp \in Claims /\ t.lex \in Claims
      /\ t.grc \in Claims /\ t.machine \in STRING
  BY DEF ActivationTokens
<1>2. ClaimOr(t.iat, 0) \in Int /\ ClaimOr(t.exp, 0) \in Int
      /\ ClaimOr(t.lex, NoLicenceEnd) \in Int
  BY <1>1, ChainAssumption DEF Claims, ClaimOr
<1>3. GraceOf(t) \in Nat
  BY <1>1, <1>2 DEF Claims, GraceOf
<1>4. ExpiresOf(t) \in Int
  BY <1>2 DEF ExpiresOf
<1> QED BY <1>1, <1>2, <1>3, <1>4 DEF LicenceOf, Licences

\* Watched for any length of time, a daily key authorises nothing past its bound.
THEOREM DailyKeysStayBounded == Spec => []DailyBound
<1>1. Typing => DailyBound
  BY DailyKeyIsBounded DEF Typing, DailyBound
<1> QED BY <1>1, Watching, PTL

\* At every instant the two formats of a token get the same answer.
THEOREM FormatsStayEqual == Spec => []SameInstants
<1>1. Typing => SameInstants
  BY TokenFormatsAgree DEF Typing, SameInstants
<1> QED BY <1>1, Watching, PTL

\* A token of any format and with any dates is accepted exactly in its window.
THEOREM AcceptedOnTime == Spec => []Accepted
<1>1. Typing => Accepted
  BY LicenceTyped, AcceptedExactlyInWindow, OfflineAssumption DEF Typing, Accepted
<1> QED BY <1>1, Watching, PTL

\* The three freshness tests agree of every token at every instant.
THEOREM FreshnessAgreed == Spec => []Fresh
<1>1. Typing => Fresh
  BY LicenceTyped, FreshnessTestsAgree, OfflineAssumption DEF Typing, Fresh
<1> QED BY <1>1, Watching, PTL

\* A token that verified keeps verifying as long as the two certs above last.
THEOREM VerifiedStaysVerified == Spec => Verifying
<1>1. Typing /\ [Next \/ Done]_vars
        => [KeepsVerifying(chain, token, now, now')]_vars
  BY ClockAdvances, VerificationLasts DEF Typing
<1> QED BY <1>1, Watching, PTL DEF Spec, Verifying

\* No host that is told to renew, or that its licence has ended, is told
\* anything milder later.
THEOREM VerdictOnlyWorsens == Spec => OnlyWorsens
<1>1. Typing /\ [Next \/ Done]_vars
        => [NeverImproves(LicenceOf(token), ThisMachine, now, now')]_vars
  BY ClockAdvances, LicenceTyped, VerdictNeverImproves, OfflineAssumption DEF Typing
<1> QED BY <1>1, Watching, PTL DEF Spec, OnlyWorsens
=============================================================================
