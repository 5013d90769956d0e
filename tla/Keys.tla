-------------------------------- MODULE Keys --------------------------------
(***************************************************************************)
(* Licence keys and project keys (src/src/key.rs): the checksum, and the   *)
(* spellings of a key that count as the same.                              *)
(*                                                                         *)
(* The checksum is of bytes.  A byte of the alphabet is its index there,   *)
(* -1 is any other that begins a character, and Rest a further byte of a   *)
(* longer character.  For the spellings a character is one of a few that   *)
(* stand for their kind; "sharp s" is upper-cased to two characters.       *)
(***************************************************************************)
EXTENDS Integers, Sequences, FiniteSets, SequencesExt

CONSTANT MaxKeyBytes     \* of a licence key as sent, 256 in the code

Base == 32      \* ALPHABET.len()
Indices == -1 .. Base - 1
Rest == -2
Longer == {<<-1, Rest>>, <<-1, Rest, Rest>>, <<-1, Rest, Rest, Rest>>}
TwoBytes == {"sharp s", "e acute", "E acute"}
Characters == STRING \ {"new key"}     \* no key is a character of another

-----------------------------------------------------------------------------
(* The checksum.  Definitions named Faulty... are bugs the code could have   *)
(* had (README.md).                                                          *)

FaultyWeight(i) == 1

\* Every other character counts twice, the first one included.
Weight(i) == IF i % 2 = 1 THEN 2 ELSE 1

\* The loop's sum, after every character.
Sums(data) ==
  LET sum[i \in 0 .. Len(data)] ==
        IF i = 0 THEN 0 ELSE sum[i - 1] + Weight(i) * data[i]
  IN sum

AlphabetIndex(b) == IF b \in 0 .. Base - 1 THEN b ELSE -1

CalculateChecksum(data, length) ==
  LET sum == Sums([i \in DOMAIN data |-> AlphabetIndex(data[i])])[Len(data)]
  IN [i \in 1 .. length |-> (sum + (i - 1) * 31) % Base]

IsCharBoundary(key, at) == at = Len(key) \/ key[at + 1] # Rest

\* split_at panics where it would split a character.
ValidateKey(key, checksumLen) ==
  LET splitAt == Len(key) - checksumLen
      provided == SubSeq(key, splitAt + 1, Len(key))
  IN IF Len(key) < checksumLen THEN "invalid"
     ELSE IF ~IsCharBoundary(key, splitAt) THEN "panic"
     ELSE IF CalculateChecksum(SubSeq(key, 1, splitAt), checksumLen) = provided
     THEN "valid" ELSE "invalid"

-----------------------------------------------------------------------------
(* Spellings *)

ToUpper(c) == CASE c = "a" -> <<"A">>
                [] c = "o" -> <<"O">>
                [] c = "l" -> <<"L">>
                [] c = "sharp s" -> <<"S", "S">>
                [] c = "e acute" -> <<"E acute">>
                [] OTHER -> <<c>>

NormalizeKey(input) ==
  FlattenSeq([i \in DOMAIN input |->
    IF input[i] \in {"-", " "} THEN <<>> ELSE ToUpper(input[i])])

Fold(c) == CASE c = "O" -> "0" [] c \in {"I", "L"} -> "1" [] OTHER -> c

SanitizeKey(input) ==
  LET upper == NormalizeKey(input) IN [i \in DOMAIN upper |-> Fold(upper[i])]

\* len() of a string, in bytes.
Size(key) == Len(key) + Cardinality({i \in DOMAIN key : key[i] \in TwoBytes})
ValidLicenceKey(normalized) ==
  normalized # <<>> /\ Size(normalized) <= MaxKeyBytes

FaultyHits(licence, input) ==
  \/ licence.key = SanitizeKey(input)
  \/ licence.alias # <<>> /\ licence.alias = SanitizeKey(input)

\* The fast path of activate, on a cached licence.
Hits(licence, input) ==
  \/ licence.key = SanitizeKey(input)
  \/ licence.alias # <<>> /\ licence.alias = NormalizeKey(input)

-----------------------------------------------------------------------------
(* Properties *)

Set(s, i, c) == [s EXCEPT ![i] = c]
Splice(s, i, c) == SubSeq(s, 1, i - 1) \o c \o SubSeq(s, i + 1, Len(s))
Swap(s, i) == [s EXCEPT ![i] = s[i + 1], ![i + 1] = s[i]]

\* "A hand-rolled typo-catching checksum": of a key in its alphabet, with its
\* checksum, it misses no swap of two neighbours, the checksum's own included.
\* It misses no single wrong byte but these: at a place that counts twice one 16
\* further on in the alphabet, and one outside the alphabet, which counts as the
\* one before the first: for the last, or where it counts twice for the sixteenth
\* as well.  A longer character is found when it is in the place of one of the
\* checksum, but not always reported: if the split falls within it the caller
\* panics.  Before the checksum it shifts the weights of all that follows, and may
\* be missed, but never panics.
TyposCaught(data, length) ==
  LET key == data \o CalculateChecksum(data, length)
      Result(typed) == ValidateKey(typed, length)
      Missed(i, c) ==
        /\ i <= Len(data)
        /\ \/ i % 2 = 1 /\ {c, key[i]} \in {{n, n + 16} : n \in -1 .. 15}
           \/ {c, key[i]} = {-1, 31}
  IN /\ Result(key) = "valid"
     /\ \A i \in DOMAIN key : \A c \in Indices \ {key[i]} :
          Result(Set(key, i, c)) = IF Missed(i, c) THEN "valid" ELSE "invalid"
     /\ \A i \in DOMAIN key : \A c \in Longer :
          /\ Result(Splice(key, i, c)) = "panic" <=> i - Len(data) \in 1 .. Len(c) - 1
          /\ Result(Splice(key, i, c)) = "valid" => i <= Len(data)
     /\ \A i \in 1 .. Len(key) - 1 :
          key[i] # key[i + 1] => Result(Swap(key, i)) = "invalid"

\* Whoever typed a key once and types it again, in other case, with other
\* hyphens and spaces, finds the licence it was activated as: under its own key,
\* where O, I and L may be 0 and 1 as well, or under its alias, where they may
\* not, because a key of another system may have both.
SpellingsFound(typed, again) ==
  LET native == [key |-> SanitizeKey(typed), alias |-> <<>>]
      legacy == [key |-> <<"new key">>, alias |-> NormalizeKey(typed)]
  IN /\ NormalizeKey(NormalizeKey(typed)) = NormalizeKey(typed)
     /\ SanitizeKey(NormalizeKey(typed)) = SanitizeKey(typed)
     /\ ValidLicenceKey(NormalizeKey(typed)) =>
          /\ Hits(native, typed) /\ Hits(legacy, typed)
          /\ NormalizeKey(again) = NormalizeKey(typed) =>
               Hits(native, again) /\ Hits(legacy, again)
          /\ Hits(legacy, again) => NormalizeKey(again) = NormalizeKey(typed)
=============================================================================
