------------------------------- MODULE Chain -------------------------------
(***************************************************************************)
(* Verification of an activation token against its certificate chain       *)
(* (src/src/verify.rs, src/src/jwt.rs), composed with the offline verdict. *)
(*                                                                         *)
(* Signatures are abstracted to who made them: a JWT verifies against a    *)
(* public key exactly when that key's owner signed it.  `form` says what   *)
(* else can be wrong with one: its encoding, its issuer, or the key it     *)
(* should carry.  Absent is a claim that is not there.                     *)
(***************************************************************************)
EXTENDS Validate

CONSTANTS Keys,           \* key pairs
          Masters,        \* MASTER_PUBLIC_KEYS_HEX
          Absent,
          NoLicenceEnd,   \* NO_LICENCE_END
          MaxGrace,       \* MAX_GRACE_PERIOD
          ThisMachine

ASSUME ChainAssumption ==
  /\ Masters \subseteq Keys
  /\ Absent \notin Int
  /\ NoLicenceEnd \in Nat /\ MaxGrace \in Nat

Claims == Int \cup {Absent}
Forms == {"sound", "malformed", "wrong_issuer", "no_key"}

Certs == [signer : Keys, key : Keys, form : Forms,
          iat : Claims, nbf : Claims, exp : Claims, pid : Claims]
Chains == [submaster : Certs, project : Certs, daily : Certs]
ActivationTokens ==
  [signer : Keys, form : Forms, iat : Claims, exp : Claims, lex : Claims,
   grc : Claims, pid : Claims, machine : STRING]

ClaimOr(claim, default) == IF claim = Absent THEN default ELSE claim
Earlier(claim, t) == claim # Absent /\ claim < t
Later(claim, t) == claim # Absent /\ claim > t

\* Definitions named Faulty... are bugs the code could have had (README.md).
FaultyTimeClaims(jwt, now, checkExp) ==
  ~Later(jwt.iat, now) /\ ~Later(jwt.nbf, now) /\ ~Earlier(jwt.exp, now)

\* check_time_claims with zero leeway.
TimeClaims(jwt, now, checkExp) ==
  /\ ~Later(jwt.iat, now) /\ ~Later(jwt.nbf, now)
  /\ checkExp => ~Earlier(jwt.exp, now)

\* parse_and_verify_inner, for a cert: any one of `keys` may have signed it.
CertVerifies(cert, keys, now, checkExp) ==
  /\ cert.form \in {"sound", "no_key"}
  /\ cert.signer \in keys
  /\ TimeClaims(cert, now, checkExp)

\* pub_key_from_cert
CarriesKey(cert) == cert.form = "sound"

FaultyInDailyWindow(chain, token) ==
  /\ chain.daily.iat # Absent /\ chain.daily.exp # Absent
  /\ chain.daily.iat <= ClaimOr(token.iat, 0)

\* The token was issued while its daily cert was valid; both ends required.
InDailyWindow(chain, token) ==
  LET iat == ClaimOr(token.iat, 0) IN
  /\ chain.daily.iat # Absent /\ chain.daily.exp # Absent
  /\ chain.daily.iat <= iat /\ iat <= chain.daily.exp

FaultyGraceOf(token) ==
  LET grace == IF token.grc # Absent THEN token.grc ELSE ClaimOr(token.exp, 0)
  IN  IF grace > 0 THEN grace ELSE 0

\* The two token formats, told apart by grc alone.
GraceOf(token) ==
  LET grace == IF token.grc # Absent THEN token.grc
               ELSE ClaimOr(token.exp, 0) - ClaimOr(token.iat, 0)
  IN  IF grace > 0 THEN grace ELSE 0

ExpiresOf(token) ==
  IF token.grc # Absent THEN ClaimOr(token.exp, 0)
  ELSE ClaimOr(token.lex, NoLicenceEnd)

LicenceOf(token) ==
  [machine |-> token.machine, issued |-> ClaimOr(token.iat, 0),
   expires |-> ExpiresOf(token), grace |-> GraceOf(token)]

\* verify_activation_any_at, link by link in the order of the code.
Verifies(chain, token, now) ==
  /\ CertVerifies(chain.submaster, Masters, now, TRUE)
  /\ CarriesKey(chain.submaster)
  /\ CertVerifies(chain.project, {chain.submaster.key}, now, TRUE)
  /\ CarriesKey(chain.project)
  /\ CertVerifies(chain.daily, {chain.project.key}, now, FALSE)
  /\ CarriesKey(chain.daily)
  /\ token.form \in {"sound", "no_key"} /\ token.signer = chain.daily.key
  /\ chain.project.pid \in {Absent, token.pid}
  /\ InDailyWindow(chain, token)
  /\ GraceOf(token) <= MaxGrace

\* check_license_any_at: verification, then the offline verdict.
Usable(chain, token, now) ==
  /\ Verifies(chain, token, now)
  /\ ValidateAt(LicenceOf(token), ThisMachine, now) = "Ok"

-----------------------------------------------------------------------------
(* Properties of one chain and token. *)

\* A token that verified goes on verifying until a submaster or project cert
\* runs out: neither the daily cert's expiry nor the token's own stops it.
KeepsVerifying(chain, token, now, later) ==
  (/\ Verifies(chain, token, now) /\ now <= later
   /\ ~Earlier(chain.submaster.exp, later) /\ ~Earlier(chain.project.exp, later))
  => Verifies(chain, token, later)

\* Whatever a daily key signs is unusable MaxGrace after the key's own day.
DailyKeyBound(chain, token, now) ==
  Usable(chain, token, now) => now <= chain.daily.exp + MaxGrace

\* The token without grc that stands for a grc token: exp is the offline
\* deadline, capped at the licence's end, and lex is the licence's end.
WithoutGrc(token) ==
  LET deadline == token.iat + token.grc IN
  [token EXCEPT !.grc = Absent, !.lex = token.exp,
                !.exp = IF deadline < token.exp THEN deadline ELSE token.exp]

\* Both formats of one licence are accepted at the same instants.
FormatsAgree(token, now) ==
  LET accepted(t) == ValidateAt(LicenceOf(t), ThisMachine, now) = "Ok" IN
  (/\ token.grc \in Nat /\ token.iat \in Nat
   /\ token.exp \in Nat /\ token.iat < token.exp)
  => accepted(token) = accepted(WithoutGrc(token))

\* "While now <= issued_at + grace_period, the license is still usable": once
\* usable, a licence short of its three deadlines stays usable offline.
GraceHonoured(chain, token, now, later) ==
  (/\ Usable(chain, token, now) /\ now <= later
   /\ ValidateAt(LicenceOf(token), ThisMachine, later) = "Ok")
  => Usable(chain, token, later)
=============================================================================
