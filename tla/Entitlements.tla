---------------------------- MODULE Entitlements ----------------------------
(***************************************************************************)
(* The `ent` claim and what a host asks of it (src/src/entitlements.rs and *)
(* PublicLicense in src/src/lib.rs).                                       *)
(*                                                                         *)
(* A value as signed is a record with its kind.  A number is given in      *)
(* halves, so that 2 * n is whole and 2 * n + 1 is not; a float holds all  *)
(* numbers of up to MaxExact halves, and fewer and fewer above.  A claim   *)
(* is Absent, NotObject or a function from names to values.                *)
(***************************************************************************)
EXTENDS Integers

CONSTANTS
  Absent, NotObject,
  MaxInt,      \* i64::MAX; the least integer is -MaxInt - 1
  MaxExact     \* 2^53, a float's precision

\* The values of a claim; what is no number or boolean is a "text".
Values == [kind : {"int", "float", "bool", "text"}, n : Int]

InRange(n) == -MaxInt - 1 <= n /\ n <= MaxInt

-----------------------------------------------------------------------------
(* Definitions named Faulty... are bugs the code could have had (README.md). *)

Halves(value) == IF value.kind = "int" THEN 2 * value.n ELSE value.n

\* Numbers up to 2^64, which are all the integers JSON's reader holds; a float
\* further out is never within the range of an i64.
Signed == {v \in Values : /\ -4096 * MaxExact <= Halves(v)
                          /\ Halves(v) <= 4096 * MaxExact}

\* as_f64: beyond MaxExact halves, to the nearest of those a float holds, to an
\* even one if there are two.
Ulps == {1, 2, 4, 8, 16, 32, 64, 128, 256, 512, 1024, 2048, 4096}
Ulp(h) == CHOOSE u \in Ulps :
            /\ h <= MaxExact * u /\ -h <= MaxExact * u
            /\ u # 1 => h > MaxExact * (u \div 2) \/ -h > MaxExact * (u \div 2)

AsFloat(h) ==
  LET u == Ulp(h)  below == (h \div u) * u  rest == h - below
  IN IF 2 * rest > u \/ (2 * rest = u /\ (h \div u) % 2 = 1) THEN below + u ELSE below

FaultyNarrow(h) ==
  LET n == h \div 2
  IN IF n > MaxInt THEN [kind |-> "int", n |-> MaxInt]
     ELSE IF h % 2 = 0 /\ InRange(n) THEN [kind |-> "int", n |-> n] ELSE Absent

\* A whole float within the range of an i64 is an integer.
Narrow(h) == IF h % 2 = 0 /\ InRange(h \div 2)
             THEN [kind |-> "int", n |-> h \div 2] ELSE Absent

DecodeNumber(value) ==
  IF value.kind = "int" /\ InRange(value.n) THEN [kind |-> "int", n |-> value.n]
  ELSE Narrow(AsFloat(Halves(value)))

FaultyDecode(value) ==
  CASE value.kind = "bool" -> value
    [] value.kind \in {"int", "float"} -> DecodeNumber(value)
    [] OTHER -> [kind |-> "int", n |-> -1]

Decode(value) ==
  CASE value.kind = "bool" -> value
    [] value.kind \in {"int", "float"} -> DecodeNumber(value)
    [] OTHER -> Absent

FaultyDecodeEntitlements(claim) ==
  IF claim = Absent \/ claim = NotObject THEN Absent
  ELSE IF \E k \in DOMAIN claim : Decode(claim[k]) = Absent THEN Absent
  ELSE [k \in DOMAIN claim |-> Decode(claim[k])]

DecodeEntitlements(claim) ==
  IF claim = Absent \/ claim = NotObject THEN Absent
  ELSE [k \in {x \in DOMAIN claim : Decode(claim[x]) # Absent} |-> Decode(claim[k])]

Get(ent, k) == IF ent = Absent THEN Absent
               ELSE IF k \in DOMAIN ent THEN ent[k] ELSE Absent

AsBool(v) == IF v # Absent /\ v.kind = "bool" THEN v.n ELSE Absent
AsInt(v) == IF v # Absent /\ v.kind = "int" THEN v.n ELSE Absent

Can(ent, k) == AsBool(Get(ent, k)) = 1
Limit(ent, k) == AsInt(Get(ent, k))
IsUnlimited(v) == AsInt(v) = -1
HasEntitlements(ent) == ent # Absent

-----------------------------------------------------------------------------
(* Properties *)

\* A value that is neither a boolean nor a whole number an i64 holds: a text, a
\* fraction, a number out of range, provided a float that was signed is one a
\* float can hold, and but for the integers LimitsExact excepts.
Bad(value) ==
  \/ value.kind = "text"
  \/ /\ value.kind = "float" /\ AsFloat(value.n) = value.n
     /\ value.n % 2 = 1 \/ ~InRange(value.n \div 2)
  \/ /\ value.kind = "int" /\ ~InRange(value.n)
     /\ AsFloat(2 * value.n) # 2 * (-MaxInt - 1)

\* One bad value costs that value alone: what a host is told of a name depends
\* on the value signed for it and on no other, and a bad value reads as if it had
\* not been signed, never as a yes, a limit or as unlimited; the claim still
\* counts as there, so a host does not fall back to what it did before
\* entitlements.
EachAlone(claim, k) ==
  LET ent == DecodeEntitlements(claim)
      Only(names) == IF claim = Absent \/ claim = NotObject THEN claim
                     ELSE [x \in DOMAIN claim \cap names |-> claim[x]]
      alone == DecodeEntitlements(Only({k}))
      none == DecodeEntitlements(Only({}))
      Same(other) == Can(ent, k) = Can(other, k) /\ Limit(ent, k) = Limit(other, k)
  IN /\ Same(alone)
     /\ claim \notin {Absent, NotObject} /\ k \in DOMAIN claim /\ Bad(claim[k])
          => Same(none)
     /\ ~Can(none, k) /\ Limit(none, k) = Absent
     /\ HasEntitlements(ent) <=> claim \notin {Absent, NotObject}

\* Only a signed true is a yes.  A number is read as it was signed or not at
\* all: nothing at either end of the range makes another limit of it, or an
\* unlimited one, provided a float that was signed is one a float can hold.
\* There is one exception: an integer so little below the least that a float
\* cannot tell reads as the least.
LimitsExact(value) ==
  LET ent == DecodeEntitlements([x \in {"seats"} |-> value])
      n == Limit(ent, "seats")
      least == -MaxInt - 1
  IN /\ Can(ent, "seats") <=> value.kind = "bool" /\ value.n = 1
     /\ value.kind \in {"int", "float"} =>
       /\ IsUnlimited(Get(ent, "seats")) <=>
            value.n = IF value.kind = "int" THEN -1 ELSE -2
       /\ value.kind = "float" /\ AsFloat(value.n) = value.n =>
            IF value.n % 2 = 0 /\ InRange(value.n \div 2)
            THEN 2 * n = value.n ELSE n = Absent
       /\ value.kind = "int" =>
            IF InRange(value.n) THEN n = value.n
            ELSE IF AsFloat(2 * value.n) = 2 * least THEN n = least ELSE n = Absent
=============================================================================
