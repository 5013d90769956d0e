----------------------------- MODULE KeyProofs -----------------------------
(***************************************************************************)
(* Proofs about license keys: what the checksum catches, for keys of any   *)
(* length, and that a key typed again finds the licence it was activated   *)
(* as.  Induction over a key goes through the least place that has not the *)
(* property.                                                               *)
(***************************************************************************)
EXTENDS PureProofs

-----------------------------------------------------------------------------
(* Induction over the places of a key *)

LEMMA PlaceByPlace ==
  ASSUME NEW top \in Nat, NEW Good, 0 \in Good,
         \A n \in 0 .. top - 1 : n \in Good => n + 1 \in Good
  PROVE  \A n \in 0 .. top : n \in Good
<1> DEFINE Bad == {n \in 0 .. top : n \notin Good}
<1>1. SUFFICES ASSUME Bad # {} PROVE FALSE
      OBVIOUS
<1>2. PICK n \in Bad : \A m \in Bad : n <= m
  <2>1. Bad \subseteq Nat
        OBVIOUS
  <2> HIDE DEF Bad
  <2> QED BY <2>1, <1>1, LeastNat
<1>3. n \in 1 .. top
      BY <1>2
<1>4. n - 1 \in 0 .. top - 1 /\ n - 1 + 1 = n
      BY <1>3
<1>5. n - 1 \in Good
      BY <1>2, <1>3, <1>4
<1> QED BY <1>2, <1>4, <1>5

-----------------------------------------------------------------------------
(* The checksum *)

\* The loop's sum is defined at every place.
LEMMA SumsStep ==
  ASSUME NEW d \in Seq(Int)
  PROVE  /\ K!Sums(d)[0] = 0
         /\ \A i \in 1 .. Len(d) : K!Sums(d)[i] = K!Sums(d)[i - 1] + K!Weight(i) * d[i]
         /\ \A i \in 0 .. Len(d) : K!Sums(d)[i] \in Int
<1> DEFINE Step(f, n) ==
             [i \in 0 .. n |-> IF i = 0 THEN 0 ELSE f[i - 1] + K!Weight(i) * d[i]]
           Defined == {n \in 0 .. Len(d) : \E f : f = Step(f, n)}
<1>1. Len(d) \in Nat
      OBVIOUS
<1>2. 0 \in Defined
  <2> DEFINE f == [i \in 0 .. 0 |-> 0]
  <2>1. f = Step(f, 0)
        OBVIOUS
  <2> HIDE DEF f
  <2>2. \E g : g = Step(g, 0)
        BY <2>1
  <2> QED BY <2>2, <1>1
<1>3. ASSUME NEW n \in 0 .. Len(d) - 1, n \in Defined
      PROVE  n + 1 \in Defined
  <2>1. PICK f : f = Step(f, n)
        BY <1>3
  <2> DEFINE g == [i \in 0 .. n + 1 |->
                     IF i = n + 1 THEN f[n] + K!Weight(n + 1) * d[n + 1] ELSE f[i]]
  <2>2. \A i \in 0 .. n : f[i] = IF i = 0 THEN 0 ELSE f[i - 1] + K!Weight(i) * d[i]
        BY <2>1
  <2>3. ASSUME NEW i \in 0 .. n + 1
        PROVE  g[i] = IF i = 0 THEN 0 ELSE g[i - 1] + K!Weight(i) * d[i]
        BY <2>2
  <2>4. g = Step(g, n + 1)
        BY <2>3
  <2> HIDE DEF g
  <2>5. n + 1 \in 0 .. Len(d)
        BY <1>1
  <2> QED BY <2>4, <2>5
<1>4. Len(d) \in Defined
  <2> HIDE DEF Defined
  <2>1. \A n \in 0 .. Len(d) : n \in Defined
        BY <1>1, <1>2, <1>3, PlaceByPlace
  <2> QED BY <2>1, <1>1
<1>5. K!Sums(d) = Step(K!Sums(d), Len(d))
  <2>1. \E f : f = Step(f, Len(d))
        BY <1>4
  <2> QED BY <2>1 DEF K!Sums
<1> DEFINE s == K!Sums(d)
<1>6. /\ s[0] = 0
      /\ \A i \in 1 .. Len(d) : s[i] = s[i - 1] + K!Weight(i) * d[i]
  <2> HIDE DEF s
  <2>1. \A i \in 0 .. Len(d) : s[i] = IF i = 0 THEN 0 ELSE s[i - 1] + K!Weight(i) * d[i]
        BY <1>5 DEF s
  <2> QED BY <2>1, <1>1
<1>7. \A i \in 0 .. Len(d) : s[i] \in Int
  <2> DEFINE Whole == {n \in 0 .. Len(d) : s[n] \in Int}
  <2>1. 0 \in Whole
        BY <1>1, <1>6
  <2>2. ASSUME NEW n \in 0 .. Len(d) - 1, n \in Whole
        PROVE  n + 1 \in Whole
    <3>1. n + 1 \in 1 .. Len(d) /\ n + 1 - 1 = n
          BY <1>1
    <3>2. K!Weight(n + 1) \in Int /\ d[n + 1] \in Int
          BY <3>1 DEF K!Weight
    <3> HIDE DEF s
    <3>3. s[n + 1] = s[n] + K!Weight(n + 1) * d[n + 1]
          BY <3>1, <1>6
    <3> QED BY <3>1, <3>2, <3>3, <2>2
  <2> HIDE DEF Whole
  <2>3. \A n \in 0 .. Len(d) : n \in Whole
        BY <1>1, <2>1, <2>2, PlaceByPlace
  <2> QED BY <2>3 DEF Whole
<1> QED BY <1>6, <1>7
\* A wrong character shifts the sum by its weight times how far it is off.
LEMMA SumsOfSet ==
  ASSUME NEW d \in Seq(Int), NEW p \in 1 .. Len(d), NEW c \in Int
  PROVE  /\ K!Set(d, p, c) \in Seq(Int) /\ Len(K!Set(d, p, c)) = Len(d)
         /\ K!Sums(K!Set(d, p, c))[Len(d)]
              = K!Sums(d)[Len(d)] + K!Weight(p) * (c - d[p])
<1> DEFINE other == K!Set(d, p, c)
           s == K!Sums(d)
           t == K!Sums(other)
           off == K!Weight(p) * (c - d[p])
           Shifted == {n \in 0 .. Len(d) : t[n] = s[n] + IF p <= n THEN off ELSE 0}
<1>1. /\ other \in Seq(Int) /\ Len(other) = Len(d) /\ other[p] = c /\ Len(d) \in Nat
      /\ \A i \in 1 .. Len(d) : i # p => other[i] = d[i]
      BY DEF K!Set
<1>2. off \in Int /\ d[p] \in Int /\ K!Weight(p) \in Int
      BY DEF K!Weight
<1> HIDE DEF other
<1>3. /\ s[0] = 0 /\ \A i \in 1 .. Len(d) : s[i] = s[i - 1] + K!Weight(i) * d[i]
      /\ \A i \in 0 .. Len(d) : s[i] \in Int
      BY SumsStep
<1>4. /\ t[0] = 0 /\ \A i \in 1 .. Len(d) : t[i] = t[i - 1] + K!Weight(i) * other[i]
      /\ \A i \in 0 .. Len(d) : t[i] \in Int
      BY <1>1, SumsStep
<1> HIDE DEF s, t, off
<1>5. 0 \in Shifted
      BY <1>1, <1>3, <1>4
<1>6. ASSUME NEW n \in 0 .. Len(d) - 1, n \in Shifted
      PROVE  n + 1 \in Shifted
  <2> DEFINE i == n + 1
  <2>1. i \in 1 .. Len(d) /\ i - 1 = n /\ i \in 0 .. Len(d)
        BY <1>1
  <2> HIDE DEF i
  <2>2. PICK w \in Int : w = K!Weight(i) * d[i]
        BY <2>1 DEF K!Weight
  <2>3. K!Weight(i) * other[i] = w + IF i = p THEN off ELSE 0
    <3>1. CASE i = p
      <4>1. K!Weight(p) * c = K!Weight(p) * d[p] + off
            BY <1>2, SMT DEF off
      <4> QED BY <4>1, <3>1, <2>2, <1>1
    <3>2. CASE i # p
          BY <3>2, <2>1, <2>2, <1>1
    <3> QED BY <3>1, <3>2
  <2>4. PICK x \in Int : x = s[n] /\ s[i] = x + w
    <3>1. s[i] = s[i - 1] + K!Weight(i) * d[i]
          BY <2>1, <1>3
    <3>2. s[n] \in Int
          BY <1>3
    <3>3. s[i] = s[n] + w
          BY <3>1, <2>1, <2>2, Zenon
    <3> QED BY <3>2, <3>3
  <2>5. t[n] = x + IF p <= n THEN off ELSE 0
        BY <2>4, <1>6
  <2>6. t[i] = t[n] + (w + IF i = p THEN off ELSE 0)
        BY <2>1, <2>3, <1>4
  <2>7. i = n + 1
        BY DEF i
  <2>8. t[i] = s[i] + IF p <= i THEN off ELSE 0
    <3>1. p \in Int /\ n \in Int
          BY <1>1
    <3>2. t[i] = x + (IF p <= n THEN off ELSE 0) + (w + IF i = p THEN off ELSE 0)
          BY <2>5, <2>6
    <3>3. (p <= i <=> p <= n \/ i = p) /\ ~(p <= n /\ i = p)
          BY <3>1, <2>7
    <3>4. off \in Int
          BY <1>2
    <3>5. CASE p <= n
          BY <3>2, <3>3, <3>4, <3>5, <2>4
    <3>6. CASE i = p
          BY <3>2, <3>3, <3>4, <3>6, <2>4
    <3>7. CASE ~(p <= n) /\ i # p
          BY <3>2, <3>3, <3>7, <2>4
    <3> QED BY <3>5, <3>6, <3>7
  <2> QED BY <2>1, <2>7, <2>8
<1> HIDE DEF Shifted
<1>7. \A n \in 0 .. Len(d) : n \in Shifted
      BY <1>1, <1>5, <1>6, PlaceByPlace
<1>8. t[Len(d)] = s[Len(d)] + off
  <2>1. Len(d) \in Shifted /\ p <= Len(d)
        BY <1>1, <1>7
  <2> QED BY <2>1 DEF Shifted
<1> QED BY <1>1, <1>8 DEF other, s, t, off

LEMMA IndicesInt == K!Indices = -1 .. 31 /\ K!Indices \subseteq Int
BY DEF K!Indices, K!Base

\* The bytes of a key as the checksum counts them: those of the alphabet, and those
\* that begin another character, as they are.
LEMMA BytesCounted ==
  ASSUME NEW d \in Seq(Int)
  PROVE  LET counted == [i \in DOMAIN d |-> K!AlphabetIndex(d[i])]
         IN /\ counted \in Seq(Int) /\ Len(counted) = Len(d)
            /\ d \in Seq(K!Indices) => counted = d
<1> DEFINE counted == [i \in DOMAIN d |-> K!AlphabetIndex(d[i])]
<1>1. DOMAIN d = 1 .. Len(d) /\ Len(d) \in Nat
      OBVIOUS
<1>2. \A i \in 1 .. Len(d) : K!AlphabetIndex(d[i]) \in Int
      BY DEF K!AlphabetIndex, K!Base
<1>3. counted \in Seq(Int) /\ Len(counted) = Len(d)
      BY <1>1, <1>2
<1>4. ASSUME d \in Seq(K!Indices) PROVE counted = d
  <2>1. \A i \in 1 .. Len(d) : K!AlphabetIndex(d[i]) = d[i]
    <3>1. \A i \in 1 .. Len(d) : d[i] \in -1 .. 31
          BY <1>4, IndicesInt, ElementOfSeq
    <3> QED BY <3>1 DEF K!AlphabetIndex, K!Base
  <2> QED BY <2>1, <1>1
<1> QED BY <1>3, <1>4

\* The checksum of any bytes is in the alphabet.
LEMMA ChecksumOf ==
  ASSUME NEW d \in Seq(Int)
  PROVE  \E sum \in Int :
           /\ K!CalculateChecksum(d, ChecksumLen)
                = [i \in 1 .. ChecksumLen |-> (sum + (i - 1) * 31) % 32]
           /\ d \in Seq(K!Indices) => sum = K!Sums(d)[Len(d)]
<1> DEFINE counted == [i \in DOMAIN d |-> K!AlphabetIndex(d[i])]
<1>1. /\ counted \in Seq(Int) /\ Len(counted) = Len(d)
      /\ d \in Seq(K!Indices) => counted = d
      BY BytesCounted
<1>2. K!CalculateChecksum(d, ChecksumLen)
        = [i \in 1 .. ChecksumLen |-> (K!Sums(counted)[Len(d)] + (i - 1) * 31) % 32]
      BY DEF K!CalculateChecksum, K!Base
<1> HIDE DEF counted
<1>3. K!Sums(counted)[Len(d)] \in Int
  <2>1. \A i \in 0 .. Len(counted) : K!Sums(counted)[i] \in Int
        BY <1>1, SumsStep
  <2>2. Len(d) \in 0 .. Len(counted)
        BY <1>1
  <2> QED BY <2>1, <2>2
<1> QED BY <1>1, <1>2, <1>3

\* validate_key panics where the split is within a character, and says no if any
\* of the bytes after the split is not of the alphabet.
LEMMA ResultOf ==
  ASSUME NEW key \in Seq(Int), NEW at \in Nat, Len(key) = at + ChecksumLen
  PROVE  /\ K!ValidateKey(key, ChecksumLen) \in {"valid", "invalid", "panic"}
         /\ K!ValidateKey(key, ChecksumLen) = "panic" <=> key[at + 1] = K!Rest
         /\ K!ValidateKey(key, ChecksumLen) = "valid" =>
              /\ SubSeq(key, at + 1, Len(key))
                   = K!CalculateChecksum(SubSeq(key, 1, at), ChecksumLen)
              /\ \A i \in at + 1 .. Len(key) : key[i] \in 0 .. 31
         /\ key[at + 1] # K!Rest /\ SubSeq(key, at + 1, Len(key))
                = K!CalculateChecksum(SubSeq(key, 1, at), ChecksumLen)
              => K!ValidateKey(key, ChecksumLen) = "valid"
<1> DEFINE data == SubSeq(key, 1, at)
           provided == SubSeq(key, at + 1, Len(key))
           checksum == K!CalculateChecksum(data, ChecksumLen)
<1>1. ChecksumLen \in Nat /\ ChecksumLen >= 2
      BY KeyAssumption
<1>2. /\ Len(key) - ChecksumLen = at /\ ~(Len(key) < ChecksumLen)
      /\ at # Len(key) /\ at + 1 \in 1 .. Len(key)
      BY <1>1
<1>3. K!ValidateKey(key, ChecksumLen)
        = IF key[at + 1] = K!Rest THEN "panic"
          ELSE IF checksum = provided THEN "valid" ELSE "invalid"
  <2> HIDE DEF data, provided, checksum
  <2> QED BY <1>2 DEF K!ValidateKey, K!IsCharBoundary, data, provided, checksum
<1>4. ASSUME checksum = provided, NEW i \in at + 1 .. Len(key)
      PROVE  key[i] \in 0 .. 31
  <2>1. data \in Seq(Int)
        BY <1>1, SubSeqProperties
  <2>2. PICK sum \in Int :
          checksum = [j \in 1 .. ChecksumLen |-> (sum + (j - 1) * 31) % 32]
    <3> HIDE DEF data
    <3> QED BY <2>1, ChecksumOf
  <2>3. i - at \in 1 .. ChecksumLen /\ at + 1 + (i - at) - 1 = i
        BY <1>1
  <2>4. provided[i - at] = key[i]
    <3>1. \A j \in at + 1 .. Len(key) : key[j] \in Int
          BY <1>1
    <3>2. \A j \in 1 .. Len(key) - (at + 1) + 1 : provided[j] = key[at + 1 + j - 1]
          BY <1>2, SubSeqProperties
    <3>3. i - at \in 1 .. Len(key) - (at + 1) + 1
          BY <1>1, <2>3
    <3> QED BY <3>2, <3>3, <2>3
  <2> HIDE DEF checksum, provided
  <2>5. checksum[i - at] \in 0 .. 31
        BY <2>2, <2>3
  <2> QED BY <2>4, <2>5, <1>4
<1> HIDE DEF data, provided, checksum
<1> QED BY <1>3, <1>4 DEF data, provided, checksum

\* A key is valid when each of the last bytes is the one the checksum of the
\* others has there.
LEMMA ValidIff ==
  ASSUME NEW d \in Seq(K!Indices), NEW c \in Seq(K!Indices), Len(c) = ChecksumLen
  PROVE  /\ K!ValidateKey(d \o c, ChecksumLen) \in {"valid", "invalid"}
         /\ K!ValidateKey(d \o c, ChecksumLen) = "valid" <=>
              \A i \in 1 .. ChecksumLen :
                c[i] = (K!Sums(d)[Len(d)] + (i - 1) * 31) % 32
<1> DEFINE key == d \o c
           n == Len(d)
           checksum == K!CalculateChecksum(d, ChecksumLen)
<1>1. /\ n \in Nat /\ ChecksumLen \in Nat /\ ChecksumLen >= 2
      /\ DOMAIN c = 1 .. ChecksumLen
      BY KeyAssumption
<1>2. d \in Seq(Int) /\ c \in Seq(Int)
      BY IndicesInt, SeqMonotonic
<1>3. /\ key \in Seq(Int) /\ Len(key) = n + ChecksumLen
      /\ SubSeq(key, 1, n) = d /\ SubSeq(key, n + 1, Len(key)) = c
      /\ key[n + 1] = c[1]
      BY <1>1, <1>2
<1>4. c[1] # K!Rest
  <2>1. c \in Seq(-1 .. 31) /\ Len(c) \in Nat /\ 1 \in 1 .. Len(c)
        BY <1>1, IndicesInt
  <2>2. \A i \in 1 .. Len(c) : c[i] \in -1 .. 31
        BY <2>1, ElementOfSeq
  <2>3. c[1] \in -1 .. 31
        BY <2>1, <2>2
  <2>4. K!Rest = -2 /\ -2 \notin -1 .. 31
        BY DEF K!Rest
  <2> QED BY <2>3, <2>4, Zenon
<1>5. PICK sum \in Int :
        /\ checksum = [i \in 1 .. ChecksumLen |-> (sum + (i - 1) * 31) % 32]
        /\ sum = K!Sums(d)[n]
      BY <1>2, ChecksumOf
<1> HIDE DEF key, n, checksum
<1>6. /\ K!ValidateKey(key, ChecksumLen) \in {"valid", "invalid"}
      /\ K!ValidateKey(key, ChecksumLen) = "valid" <=> checksum = c
      BY <1>1, <1>3, <1>4, ResultOf DEF checksum
<1>7. c = [i \in 1 .. ChecksumLen |-> c[i]]
      BY <1>1
<1>8. checksum = c <=> \A i \in 1 .. ChecksumLen : c[i] = (sum + (i - 1) * 31) % 32
      BY <1>5, <1>7
<1> QED BY <1>5, <1>6, <1>8 DEF key, n

LEMMA SetPlaces ==
  ASSUME NEW q \in Seq(Int), NEW i \in 1 .. Len(q), NEW x \in Int
  PROVE  /\ K!Set(q, i, x) \in Seq(Int) /\ Len(K!Set(q, i, x)) = Len(q)
         /\ \A j \in 1 .. Len(q) : K!Set(q, i, x)[j] = IF j = i THEN x ELSE q[j]
BY ExceptSeq DEF K!Set

LEMMA SetStays ==
  ASSUME NEW q \in Seq(K!Indices), NEW i \in 1 .. Len(q), NEW x \in -1 .. 31
  PROVE  K!Set(q, i, x) \in Seq(K!Indices)
<1>1. x \in K!Indices
      BY IndicesInt
<1> QED BY <1>1, ExceptSeq DEF K!Set

\* A wrong character of a key is in what the checksum is of, or in the checksum.
LEMMA SetSplit ==
  ASSUME NEW d \in Seq(Int), NEW c \in Seq(Int),
         NEW i \in 1 .. Len(d) + Len(c), NEW x \in Int
  PROVE  K!Set(d \o c, i, x) = IF i <= Len(d) THEN K!Set(d, i, x) \o c
                               ELSE d \o K!Set(c, i - Len(d), x)
<1> DEFINE left == K!Set(d \o c, i, x)
           inData == K!Set(d, i, x)
           inSum == K!Set(c, i - Len(d), x)
<1>1. Len(d) \in Nat /\ Len(c) \in Nat
      OBVIOUS
<1>2. /\ d \o c \in Seq(Int) /\ Len(d \o c) = Len(d) + Len(c)
      /\ \A j \in 1 .. Len(d) + Len(c) :
           (d \o c)[j] = IF j <= Len(d) THEN d[j] ELSE c[j - Len(d)]
      BY ConcatProperties
<1>3. /\ left \in Seq(Int) /\ Len(left) = Len(d) + Len(c)
      /\ \A j \in 1 .. Len(d) + Len(c) :
           left[j] = IF j = i THEN x ELSE (d \o c)[j]
  <2> DEFINE q == d \o c
  <2>1. q \in Seq(Int)
        BY <1>2
  <2>3. Len(q) = Len(d) + Len(c)
        BY <1>2
  <2> HIDE DEF q
  <2>2. /\ K!Set(q, i, x) \in Seq(Int) /\ Len(K!Set(q, i, x)) = Len(q)
        /\ \A j \in 1 .. Len(q) : K!Set(q, i, x)[j] = IF j = i THEN x ELSE q[j]
    <3>1. i \in 1 .. Len(q)
          BY <2>3
    <3> QED BY <2>1, <3>1, SetPlaces
  <2> QED BY <2>2, <2>3 DEF q
<1> HIDE DEF left
<1>4. CASE i <= Len(d)
  <2>1. /\ inData \in Seq(Int) /\ Len(inData) = Len(d)
        /\ \A j \in 1 .. Len(d) : inData[j] = IF j = i THEN x ELSE d[j]
    <3>1. i \in 1 .. Len(d)
          BY <1>4
    <3> QED BY <3>1, SetPlaces
  <2> HIDE DEF inData
  <2>2. /\ inData \o c \in Seq(Int) /\ Len(inData \o c) = Len(d) + Len(c)
        /\ \A j \in 1 .. Len(d) + Len(c) :
             (inData \o c)[j] = IF j <= Len(d) THEN inData[j] ELSE c[j - Len(d)]
    <3>1. /\ inData \o c \in Seq(Int) /\ Len(inData \o c) = Len(inData) + Len(c)
          /\ \A j \in 1 .. Len(inData) + Len(c) :
               (inData \o c)[j] = IF j <= Len(inData) THEN inData[j]
                                  ELSE c[j - Len(inData)]
          BY <2>1, ConcatProperties
    <3> QED BY <2>1, <3>1, Zenon
  <2>3. ASSUME NEW j \in 1 .. Len(d) + Len(c)
        PROVE  left[j] = (inData \o c)[j]
    <3>1. CASE j <= Len(d)
      <4>1. j \in 1 .. Len(d)
            BY <3>1
      <4> QED BY <4>1, <3>1, <1>2, <1>3, <2>1, <2>2
    <3>2. CASE ~(j <= Len(d))
      <4>1. j # i
            BY <3>2, <1>4
      <4> QED BY <4>1, <3>2, <1>2, <1>3, <2>2
    <3> QED BY <3>1, <3>2
  <2>4. left = inData \o c
        BY <1>3, <2>2, <2>3, SeqEqual
  <2> QED BY <2>4, <1>4 DEF left, inData
<1>5. CASE ~(i <= Len(d))
  <2>1. /\ inSum \in Seq(Int) /\ Len(inSum) = Len(c)
        /\ \A j \in 1 .. Len(c) : inSum[j] = IF j = i - Len(d) THEN x ELSE c[j]
    <3>1. i - Len(d) \in 1 .. Len(c)
          BY <1>1, <1>5
    <3> QED BY <3>1, SetPlaces
  <2> HIDE DEF inSum
  <2>2. /\ d \o inSum \in Seq(Int) /\ Len(d \o inSum) = Len(d) + Len(c)
        /\ \A j \in 1 .. Len(d) + Len(c) :
             (d \o inSum)[j] = IF j <= Len(d) THEN d[j] ELSE inSum[j - Len(d)]
    <3>1. /\ d \o inSum \in Seq(Int) /\ Len(d \o inSum) = Len(d) + Len(inSum)
          /\ \A j \in 1 .. Len(d) + Len(inSum) :
               (d \o inSum)[j] = IF j <= Len(d) THEN d[j] ELSE inSum[j - Len(d)]
      <4>1. inSum \in Seq(Int)
            BY <2>1
      <4> QED BY <4>1, ConcatProperties
    <3> QED BY <2>1, <3>1, Zenon
  <2>3. ASSUME NEW j \in 1 .. Len(d) + Len(c)
        PROVE  left[j] = (d \o inSum)[j]
    <3>1. CASE j <= Len(d)
      <4>1. j # i
            BY <3>1, <1>5
      <4> QED BY <4>1, <3>1, <1>2, <1>3, <2>2
    <3>2. CASE ~(j <= Len(d))
      <4>1. j - Len(d) \in 1 .. Len(c) /\ (j = i <=> j - Len(d) = i - Len(d))
            BY <3>2, <1>1
      <4> QED BY <4>1, <3>2, <1>2, <1>3, <2>1, <2>2
    <3> QED BY <3>1, <3>2
  <2>4. left = d \o inSum
        BY <1>3, <2>2, <2>3, SeqEqual
  <2> QED BY <2>4, <1>5 DEF left, inSum
<1> QED BY <1>4, <1>5

LEMMA SetInData ==
  ASSUME NEW d \in Seq(Int), NEW c \in Seq(Int), NEW i \in 1 .. Len(d), NEW x \in Int
  PROVE  K!Set(d \o c, i, x) = K!Set(d, i, x) \o c
<1>1. i \in 1 .. Len(d) + Len(c) /\ i <= Len(d)
      OBVIOUS
<1> QED BY <1>1, SetSplit

LEMMA SetInChecksum ==
  ASSUME NEW d \in Seq(Int), NEW c \in Seq(Int), NEW k \in 1 .. Len(c), NEW x \in Int
  PROVE  K!Set(d \o c, Len(d) + k, x) = d \o K!Set(c, k, x)
<1> DEFINE i == Len(d) + k
<1>1. /\ i \in 1 .. Len(d) + Len(c)
      /\ ~(i <= Len(d))
      /\ i - Len(d) = k
      OBVIOUS
<1> HIDE DEF i
<1>2. K!Set(d \o c, i, x) = IF i <= Len(d) THEN K!Set(d, i, x) \o c
                            ELSE d \o K!Set(c, i - Len(d), x)
      BY <1>1, SetSplit
<1>3. K!Set(d \o c, i, x) = d \o K!Set(c, k, x)
      BY <1>1, <1>2, Zenon
<1> QED BY <1>3 DEF i

\* Two sums give the same checksum when they differ by a multiple of the base.
LEMMA SameChecksum ==
  ASSUME NEW s \in Int, NEW t \in Int, NEW e \in Int
  PROVE  (s + e) % 32 = (t + e) % 32 <=> (t - s) % 32 = 0
BY SMT

\* The wrong characters whose weighted difference is a multiple of the base.
LEMMA Unseen ==
  ASSUME NEW a \in -1 .. 31, NEW x \in -1 .. 31, x # a, NEW w \in {1, 2}
  PROVE  (w * (x - a)) % 32 = 0 <=>
           \/ w = 2 /\ {x, a} \in {{n, n + 16} : n \in -1 .. 15}
           \/ {x, a} = {-1, 31}
<1>1. CASE w = 1
  <2>1. (x - a) % 32 = 0 <=> x - a = 32 \/ a - x = 32
        BY SMT
  <2>2. x - a = 32 \/ a - x = 32 <=> {x, a} = {-1, 31}
        OBVIOUS
  <2> QED BY <1>1, <2>1, <2>2
<1>2. CASE w = 2
  <2>1. (2 * (x - a)) % 32 = 0 <=>
          x - a = 32 \/ a - x = 32 \/ x - a = 16 \/ a - x = 16
        BY SMT
  <2>2. x - a = 32 \/ a - x = 32 <=> {x, a} = {-1, 31}
        OBVIOUS
  <2>3. x - a = 16 \/ a - x = 16 <=> {x, a} \in {{n, n + 16} : n \in -1 .. 15}
    <3>1. ASSUME x - a = 16 PROVE a \in -1 .. 15 /\ {x, a} = {a, a + 16}
          BY <3>1
    <3>2. ASSUME a - x = 16 PROVE x \in -1 .. 15 /\ {x, a} = {x, x + 16}
          BY <3>2
    <3>3. ASSUME NEW n \in -1 .. 15, {x, a} = {n, n + 16}
          PROVE  x - a = 16 \/ a - x = 16
          BY <3>3
    <3> QED BY <3>1, <3>2, <3>3
  <2> QED BY <1>2, <2>1, <2>2, <2>3
<1> QED BY <1>1, <1>2
\* A key altered in its data is valid when the sum is shifted by a multiple of
\* the base.
LEMMA AlteredData ==
  ASSUME NEW d \in Seq(K!Indices), NEW c \in Seq(K!Indices), Len(c) = ChecksumLen,
         NEW s \in Int, \A j \in 1 .. ChecksumLen : c[j] = (s + (j - 1) * 31) % 32,
         K!Sums(d)[Len(d)] \in Int
  PROVE  K!ValidateKey(d \o c, ChecksumLen)
           = IF (K!Sums(d)[Len(d)] - s) % 32 = 0 THEN "valid" ELSE "invalid"
<1> DEFINE t == K!Sums(d)[Len(d)]
<1>1. /\ K!ValidateKey(d \o c, ChecksumLen) \in {"valid", "invalid"}
      /\ K!ValidateKey(d \o c, ChecksumLen) = "valid" <=>
           \A j \in 1 .. ChecksumLen : c[j] = (t + (j - 1) * 31) % 32
      BY ValidIff
<1>2. t \in Int
      OBVIOUS
<1> HIDE DEF t
<1>3. \A j \in 1 .. ChecksumLen :
        c[j] = (t + (j - 1) * 31) % 32 <=> (t - s) % 32 = 0
  <2> SUFFICES ASSUME NEW j \in 1 .. ChecksumLen
               PROVE  c[j] = (t + (j - 1) * 31) % 32 <=> (t - s) % 32 = 0
      OBVIOUS
  <2>1. PICK e \in Int : e = (j - 1) * 31
        OBVIOUS
  <2>2. c[j] = (s + e) % 32
        BY <2>1
  <2>3. (s + e) % 32 = (t + e) % 32 <=> (t - s) % 32 = 0
        BY <1>2, SameChecksum
  <2> QED BY <2>1, <2>2, <2>3
<1>4. 1 \in 1 .. ChecksumLen
      BY KeyAssumption
<1> QED BY <1>1, <1>3, <1>4 DEF t

\* A key altered in its checksum alone is not valid.
LEMMA AlteredChecksum ==
  ASSUME NEW d \in Seq(K!Indices), NEW c \in Seq(K!Indices), Len(c) = ChecksumLen,
         NEW j \in 1 .. ChecksumLen,
         c[j] # (K!Sums(d)[Len(d)] + (j - 1) * 31) % 32
  PROVE  K!ValidateKey(d \o c, ChecksumLen) = "invalid"
BY ValidIff

\* Where the bytes of a key are after one became a longer character.
LEMMA Spliced ==
  ASSUME NEW key \in Seq(Int), NEW i \in 1 .. Len(key), NEW c \in Seq(Int)
  PROVE  LET typed == K!Splice(key, i, c)
         IN /\ typed \in Seq(Int) /\ Len(typed) = Len(key) - 1 + Len(c)
            /\ \A j \in 1 .. Len(typed) :
                 typed[j] = IF j < i THEN key[j]
                            ELSE IF j < i + Len(c) THEN c[j - i + 1]
                            ELSE key[j - Len(c) + 1]
<1> DEFINE left == SubSeq(key, 1, i - 1)
           right == SubSeq(key, i + 1, Len(key))
           most == left \o c
           typed == most \o right
<1>1. Len(key) \in Nat /\ Len(c) \in Nat
      OBVIOUS
<1>2. /\ left \in Seq(Int) /\ Len(left) = i - 1
      /\ \A j \in 1 .. i - 1 : left[j] = key[j]
      BY <1>1
<1>3. /\ right \in Seq(Int) /\ Len(right) = Len(key) - i
      /\ \A j \in 1 .. Len(key) - i : right[j] = key[i + j]
      BY <1>1
<1> HIDE DEF left, right
<1>4. /\ most \in Seq(Int) /\ Len(most) = i - 1 + Len(c)
      /\ \A j \in 1 .. i - 1 + Len(c) :
           most[j] = IF j <= i - 1 THEN left[j] ELSE c[j - (i - 1)]
  <2>1. /\ left \o c \in Seq(Int) /\ Len(left \o c) = Len(left) + Len(c)
        /\ \A j \in 1 .. Len(left) + Len(c) :
             (left \o c)[j] = IF j <= Len(left) THEN left[j] ELSE c[j - Len(left)]
        BY <1>2, ConcatProperties
  <2> QED BY <2>1, <1>2, Zenon
<1> HIDE DEF most
<1>5. /\ most \o right \in Seq(Int)
      /\ Len(most \o right) = i - 1 + Len(c) + (Len(key) - i)
      /\ \A j \in 1 .. i - 1 + Len(c) + (Len(key) - i) :
           (most \o right)[j] = IF j <= i - 1 + Len(c) THEN most[j]
                                ELSE right[j - (i - 1 + Len(c))]
  <2>1. /\ most \o right \in Seq(Int) /\ Len(most \o right) = Len(most) + Len(right)
        /\ \A j \in 1 .. Len(most) + Len(right) :
             (most \o right)[j] = IF j <= Len(most) THEN most[j]
                                  ELSE right[j - Len(most)]
        BY <1>3, <1>4, ConcatProperties
  <2> QED BY <2>1, <1>3, <1>4, Zenon
<1>6. typed = most \o right
      OBVIOUS
<1> HIDE DEF typed
<1>7. typed \in Seq(Int) /\ Len(typed) = Len(key) - 1 + Len(c)
  <2>1. i - 1 + Len(c) + (Len(key) - i) = Len(key) - 1 + Len(c)
        BY <1>1
  <2> QED BY <2>1, <1>5, <1>6, Zenon
<1>8. ASSUME NEW j \in 1 .. Len(typed)
      PROVE  typed[j] = IF j < i THEN key[j]
                        ELSE IF j < i + Len(c) THEN c[j - i + 1]
                        ELSE key[j - Len(c) + 1]
  <2>1. j \in 1 .. i - 1 + Len(c) + (Len(key) - i)
        BY <1>1, <1>7
  <2>2. PICK size \in Int : size = i - 1 + Len(c)
    <3>1. i - 1 + Len(c) \in Int
          BY <1>1
    <3> QED BY <3>1
  <2>3. typed[j] = IF j <= size THEN most[j] ELSE right[j - size]
        BY <2>1, <2>2, <1>5, <1>6, Zenon
  <2>4. CASE j < i
    <3>1. j <= size /\ j \in 1 .. i - 1 + Len(c) /\ j <= i - 1 /\ j \in 1 .. i - 1
          BY <2>1, <2>2, <2>4, <1>1
    <3>2. typed[j] = most[j]
          BY <3>1, <2>3, Zenon
    <3>3. most[j] = left[j] /\ left[j] = key[j]
          BY <3>1, <1>2, <1>4, Zenon
    <3> QED BY <3>2, <3>3, <2>4, Zenon
  <2>5. CASE ~(j < i) /\ j < i + Len(c)
    <3>1. /\ j <= size /\ j \in 1 .. i - 1 + Len(c) /\ ~(j <= i - 1)
          /\ j - (i - 1) = j - i + 1
          BY <2>1, <2>2, <2>5, <1>1
    <3>2. typed[j] = most[j]
          BY <3>1, <2>3, Zenon
    <3>3. most[j] = c[j - (i - 1)]
          BY <3>1, <1>4, Zenon
    <3> QED BY <3>1, <3>2, <3>3, <2>5, Zenon
  <2>6. CASE ~(j < i + Len(c))
    <3>1. /\ ~(j <= size) /\ j - size \in 1 .. Len(key) - i
          /\ i + (j - size) = j - Len(c) + 1 /\ ~(j < i)
          BY <2>1, <2>2, <2>6, <1>1
    <3>2. typed[j] = right[j - size]
          BY <3>1, <2>3, Zenon
    <3>3. right[j - size] = key[i + (j - size)]
          BY <3>1, <1>3, Zenon
    <3> QED BY <3>1, <3>2, <3>3, <2>6, Zenon
  <2> QED BY <2>4, <2>5, <2>6, <1>1
<1> QED BY <1>7, <1>8 DEF K!Splice, typed, most, left, right

\* The bytes of a longer character.
LEMMA LongerBytes ==
  ASSUME NEW c \in K!Longer
  PROVE  /\ c \in Seq(Int) /\ Len(c) \in 2 .. 4 /\ c[1] = -1 /\ K!Rest = -2
         /\ \A j \in 2 .. Len(c) : c[j] = K!Rest
<1>1. -1 \in Int /\ -2 \in Int /\ K!Rest = -2
      BY DEF K!Rest
<1>2. CASE c = <<-1, -2>>
      BY <1>1, <1>2
<1>3. CASE c = <<-1, -2, -2>>
      BY <1>1, <1>3
<1>4. CASE c = <<-1, -2, -2, -2>>
      BY <1>1, <1>4
<1> QED BY <1>1, <1>2, <1>3, <1>4 DEF K!Longer

LEMMA LongerSize ==
  ASSUME NEW c \in K!Longer
  PROVE  \E l \in Int : l = Len(c) /\ 2 <= l /\ l <= 4
<1>1. PICK l \in 2 .. 4 : l = Len(c)
      BY LongerBytes
<1>2. l \in Int /\ 2 <= l /\ l <= 4
      OBVIOUS
<1> QED BY <1>1, <1>2

LEMMA RestIsNoIndex == K!Rest \notin 0 .. 31 /\ -1 \notin 0 .. 31 /\ -1 # K!Rest
  BY DEF K!Rest

\* A longer character, in a key of bytes of the alphabet: the split falls within it,
\* or what it begins with is left of the split or is no byte of a checksum.
LEMMA LongerTyped ==
  ASSUME NEW key \in Seq(Int), NEW n \in Nat, Len(key) = n + ChecksumLen,
         \A j \in 1 .. n + ChecksumLen : key[j] \in 0 .. 31,
         NEW i \in Int, 1 <= i, i <= n + ChecksumLen, NEW x \in K!Longer
  PROVE  /\ K!ValidateKey(K!Splice(key, i, x), ChecksumLen) = "panic"
              <=> i - n \in 1 .. Len(x) - 1
         /\ K!ValidateKey(K!Splice(key, i, x), ChecksumLen) = "valid" => i <= n
<1> DEFINE typed == K!Splice(key, i, x)
<1>1. /\ x \in Seq(Int) /\ x[1] = -1 /\ \A j \in 2 .. Len(x) : x[j] = K!Rest
      BY LongerBytes
<1>2. PICK l \in Int : l = Len(x) /\ 2 <= l /\ l <= 4
      BY LongerSize
<1>3. ChecksumLen \in Int /\ 2 <= ChecksumLen
      BY KeyAssumption
<1>4. PICK split \in Int : split = n + l
      OBVIOUS
<1>5. /\ typed \in Seq(Int) /\ Len(typed) = Len(key) - 1 + Len(x)
      /\ \A j \in 1 .. Len(typed) :
           typed[j] = IF j < i THEN key[j]
                      ELSE IF j < i + Len(x) THEN x[j - i + 1]
                      ELSE key[j - Len(x) + 1]
  <2>1. i \in 1 .. Len(key)
        BY <1>3
  <2> QED BY <2>1, <1>1, Spliced
<1> HIDE DEF typed
<1>6. PICK m \in Int : m = n + ChecksumLen - 1 + l
      BY <1>3
<1>7. Len(typed) = m
      BY <1>2, <1>3, <1>5, <1>6
<1>8. ASSUME NEW j \in Int, 1 <= j, j <= m
      PROVE  typed[j] = IF j < i THEN key[j]
                        ELSE IF j < i + l THEN x[j - i + 1]
                        ELSE key[j - l + 1]
  <2>1. j \in 1 .. Len(typed)
        BY <1>7, <1>8
  <2> QED BY <2>1, <1>2, <1>5, Zenon
<1>9. m = split - 1 + ChecksumLen /\ split - 1 \in Nat /\ 1 <= split /\ split <= m
      BY <1>2, <1>3, <1>4, <1>6
<1>10. ASSUME i <= n PROVE typed[split] \in 0 .. 31
  <2>1. /\ ~(split < i) /\ ~(split < i + l)
        /\ split - l + 1 = n + 1 /\ n + 1 \in 1 .. n + ChecksumLen
        BY <1>2, <1>3, <1>4, <1>10
  <2>2. typed[split] = key[n + 1]
        BY <2>1, <1>8, <1>9, Zenon
  <2> QED BY <2>1, <2>2, Zenon
<1>11. ASSUME n < i, i < split PROVE typed[split] = K!Rest
  <2>1. /\ ~(split < i) /\ split < i + l /\ split - i + 1 \in 2 .. l
        BY <1>2, <1>4, <1>11
  <2>2. typed[split] = x[split - i + 1]
        BY <2>1, <1>8, <1>9, Zenon
  <2>3. split - i + 1 \in 2 .. Len(x)
        BY <2>1, <1>2, Zenon
  <2> QED BY <2>2, <2>3, <1>1, Zenon
<1>12. ASSUME split <= i
       PROVE  /\ typed[i] = -1 /\ i \in split .. split - 1 + ChecksumLen
              /\ typed[split] # K!Rest
  <2>1. i <= m /\ i \in split .. split - 1 + ChecksumLen
        BY <1>2, <1>3, <1>4, <1>6, <1>12
  <2>2. typed[i] = -1
    <3>1. ~(i < i) /\ i < i + l /\ i - i + 1 = 1
          BY <1>2
    <3>2. typed[i] = IF i < i THEN key[i] ELSE IF i < i + l THEN x[i - i + 1]
                     ELSE key[i - l + 1]
          BY <2>1, <1>8, Zenon
    <3> QED BY <3>1, <3>2, <1>1, Zenon
  <2>3. typed[split] # K!Rest
    <3>1. CASE i = split
          BY <3>1, <2>2, RestIsNoIndex, Zenon
    <3>2. CASE i # split
      <4>1. split < i /\ split \in 1 .. n + ChecksumLen
            BY <3>2, <1>9, <1>12
      <4>2. typed[split] = key[split]
            BY <4>1, <1>8, <1>9, Zenon
      <4>3. key[split] \in 0 .. 31
            BY <4>1, Zenon
      <4> QED BY <4>2, <4>3, RestIsNoIndex, Zenon
    <3> QED BY <3>1, <3>2
  <2> QED BY <2>1, <2>2, <2>3
<1>13. Len(typed) = split - 1 + ChecksumLen
      BY <1>7, <1>9
<1> DEFINE Panics == K!ValidateKey(typed, ChecksumLen) = "panic"
           Valid == K!ValidateKey(typed, ChecksumLen) = "valid"
<1>14. /\ Panics <=> typed[split] = K!Rest
       /\ Valid => \A j \in split .. split - 1 + ChecksumLen : typed[j] \in 0 .. 31
  <2>1. PICK at \in Nat : at = split - 1 /\ at + 1 = split
        BY <1>9
  <2>2. Len(typed) = at + ChecksumLen
        BY <2>1, <1>13
  <2>3. /\ Panics <=> typed[at + 1] = K!Rest
        /\ Valid => \A j \in at + 1 .. Len(typed) : typed[j] \in 0 .. 31
        BY <2>2, <1>5, ResultOf, Zenon
  <2> HIDE DEF Panics, Valid
  <2> QED BY <2>1, <2>3, <1>13, Zenon
<1>15. Valid => ~Panics
       OBVIOUS
<1> HIDE DEF Panics, Valid
<1>16. i - n \in 1 .. l - 1 <=> n < i /\ i < split
       BY <1>4
<1>17. Panics <=> i - n \in 1 .. l - 1
  <2>1. CASE i <= n
    <3>1. ~(n < i)
          BY <2>1
    <3> QED BY <3>1, <2>1, <1>10, <1>14, <1>16, RestIsNoIndex, Zenon
  <2>2. CASE n < i /\ i < split
        BY <2>2, <1>11, <1>14, <1>16, Zenon
  <2>3. CASE split <= i
    <3>1. ~(i < split)
          BY <2>3, <1>4
    <3> QED BY <3>1, <2>3, <1>12, <1>14, <1>16, Zenon
  <2> QED BY <2>1, <2>2, <2>3, <1>4
<1>18. Valid => i <= n
  <2>1. CASE n < i /\ i < split
        BY <2>1, <1>11, <1>14, <1>15, Zenon
  <2>2. CASE split <= i
        BY <2>2, <1>12, <1>14, RestIsNoIndex, Zenon
  <2> QED BY <2>1, <2>2, <1>4
<1> QED BY <1>2, <1>17, <1>18, Zenon DEF Panics, Valid, typed

\* Every typo in a key of any length is caught, but for those TyposCaught names.
THEOREM EveryTypo ==
  ASSUME NEW data \in Seq(0 .. 31)
  PROVE  K!TyposCaught(data, ChecksumLen)
<1> DEFINE c == K!CalculateChecksum(data, ChecksumLen)
           n == Len(data)
           key == data \o c
           Missed(i, x) ==
             /\ i <= n
             /\ \/ i % 2 = 1 /\ {x, key[i]} \in {{m, m + 16} : m \in -1 .. 15}
                \/ {x, key[i]} = {-1, 31}
<1>1. /\ data \in Seq(Int) /\ data \in Seq(K!Indices)
      /\ \A i \in 1 .. n : data[i] \in 0 .. 31
  <2>1. 0 .. 31 \subseteq K!Indices /\ 0 .. 31 \subseteq Int
        BY IndicesInt
  <2> QED BY <2>1, SeqMonotonic, ElementOfSeq
<1>2. n \in Nat /\ ChecksumLen \in Nat /\ ChecksumLen >= 2
      BY KeyAssumption
<1>3. PICK sum \in Int : sum = K!Sums(data)[n]
      BY <1>1, <1>2, SumsStep
<1>4. c = [j \in 1 .. ChecksumLen |-> (sum + (j - 1) * 31) % 32]
      BY <1>1, <1>3, ChecksumOf
<1> HIDE DEF c
<1>5. \A j \in 1 .. ChecksumLen : c[j] = (sum + (j - 1) * 31) % 32 /\ c[j] \in 0 .. 31
      BY <1>4
<1>6. c \in Seq(Int) /\ c \in Seq(K!Indices) /\ Len(c) = ChecksumLen
      BY <1>2, <1>4, <1>5, IndicesInt
<1>7. /\ Len(key) = n + ChecksumLen /\ DOMAIN key = 1 .. n + ChecksumLen
      /\ \A i \in 1 .. n + ChecksumLen :
           key[i] = IF i <= n THEN data[i] ELSE c[i - n]
  <2>1. /\ key \in Seq(Int) /\ Len(key) = n + Len(c)
        /\ \A i \in 1 .. n + Len(c) : key[i] = IF i <= n THEN data[i] ELSE c[i - n]
        BY <1>1, <1>6, ConcatProperties
  <2> HIDE DEF key, n
  <2> QED BY <2>1, <1>6
<1>8. K!ValidateKey(key, ChecksumLen) = "valid"
      BY <1>1, <1>3, <1>5, <1>6, ValidIff
<1>9. \A i \in 1 .. n + ChecksumLen : key[i] \in 0 .. 31
  <2> HIDE DEF key, n
  <2>1. ASSUME NEW i \in 1 .. n + ChecksumLen PROVE key[i] \in 0 .. 31
    <3>1. CASE i <= n
      <4>1. i \in 1 .. n
            BY <3>1, <1>2
      <4> QED BY <4>1, <3>1, <1>1, <1>7
    <3>2. CASE ~(i <= n)
      <4>1. i - n \in 1 .. ChecksumLen
            BY <3>2, <1>2
      <4>2. key[i] = c[i - n]
            BY <3>2, <1>7
      <4> QED BY <4>1, <4>2, <1>5
    <3> QED BY <3>1, <3>2
  <2> QED BY <2>1
\* One wrong character.
<1>10. ASSUME NEW i \in 1 .. n + ChecksumLen, NEW x \in -1 .. 31, x # key[i]
       PROVE  K!ValidateKey(K!Set(key, i, x), ChecksumLen)
                = IF Missed(i, x) THEN "valid" ELSE "invalid"
  <2>1. K!Set(key, i, x) = IF i <= n THEN K!Set(data, i, x) \o c
                           ELSE data \o K!Set(c, i - n, x)
    <3>1. i \in 1 .. Len(data) + Len(c)
          BY <1>6
    <3>2. data \in Seq(Int) /\ c \in Seq(Int) /\ x \in Int
          BY <1>1, <1>6
    <3> QED BY <3>1, <3>2, SetSplit
  <2> HIDE DEF key
  <2>2. CASE i <= n
    <3> DEFINE d == K!Set(data, i, x)
    <3>1. i \in 1 .. n /\ key[i] = data[i]
          BY <2>2, <1>2, <1>7
    <3>2. /\ d \in Seq(K!Indices) /\ Len(d) = n
          /\ K!Sums(d)[n] = sum + K!Weight(i) * (x - data[i])
      <4>1. d \in Seq(K!Indices)
            BY <3>1, <1>1, SetStays
      <4> QED BY <4>1, <3>1, <1>1, <1>3, SumsOfSet
    <3>3. PICK w \in {1, 2} : w = K!Weight(i) /\ (w = 2 <=> i % 2 = 1)
          BY <3>1 DEF K!Weight
    <3>4. PICK a \in -1 .. 31 : a = data[i]
          BY <3>1, <1>1
    <3> HIDE DEF d, n
    <3>5. PICK off \in Int : off = w * (x - a)
          OBVIOUS
    <3>6. K!Sums(d)[Len(d)] = sum + off
          BY <3>2, <3>3, <3>4, <3>5
    <3>7. sum + off \in Int /\ sum + off - sum = off
          OBVIOUS
    <3>8. K!ValidateKey(d \o c, ChecksumLen)
            = IF off % 32 = 0 THEN "valid" ELSE "invalid"
      <4>1. d \in Seq(K!Indices) /\ c \in Seq(K!Indices) /\ K!Sums(d)[Len(d)] \in Int
            BY <3>2, <3>6, <3>7, <1>6
      <4>2. Len(c) = ChecksumLen
            BY <1>6
      <4>3. \A j \in 1 .. ChecksumLen : c[j] = (sum + (j - 1) * 31) % 32
            BY <1>5
      <4>4. K!ValidateKey(d \o c, ChecksumLen)
              = IF (K!Sums(d)[Len(d)] - sum) % 32 = 0 THEN "valid" ELSE "invalid"
            BY <4>1, <4>2, <4>3, AlteredData
      <4> QED BY <4>4, <3>6, <3>7
    <3>9. off % 32 = 0 <=> \/ w = 2 /\ {x, a} \in {{m, m + 16} : m \in -1 .. 15}
                           \/ {x, a} = {-1, 31}
          BY <3>1, <3>4, <3>5, <1>10, Unseen
    <3> QED BY <2>1, <2>2, <3>1, <3>3, <3>4, <3>8, <3>9 DEF d
  <2>3. CASE ~(i <= n)
    <3> DEFINE k == i - n
               e == K!Set(c, k, x)
    <3>1. k \in 1 .. ChecksumLen
          BY <2>3, <1>2
    <3>2. e \in Seq(K!Indices) /\ Len(e) = ChecksumLen /\ e[k] = x
      <4> HIDE DEF k
      <4>1. e \in Seq(K!Indices)
            BY <3>1, <1>6, SetStays
      <4> QED BY <4>1, <3>1, <1>6, SetPlaces
    <3>3. key[i] = (sum + (k - 1) * 31) % 32
          BY <2>3, <3>1, <1>5, <1>7
    <3> HIDE DEF e, k
    <3>4. e[k] # (K!Sums(data)[n] + (k - 1) * 31) % 32
          BY <3>2, <3>3, <1>3, <1>10
    <3>5. K!ValidateKey(data \o e, ChecksumLen) = "invalid"
          BY <3>1, <3>2, <3>4, <1>1, AlteredChecksum
    <3> QED BY <2>1, <2>3, <3>5 DEF e, k
  <2> QED BY <2>2, <2>3
\* Two neighbours swapped: twice a wrong character.
<1>11. ASSUME NEW i \in 1 .. n + ChecksumLen - 1, key[i] # key[i + 1]
       PROVE  K!ValidateKey(K!Swap(key, i), ChecksumLen) = "invalid"
  <2>2. i \in 1 .. n + ChecksumLen /\ i + 1 \in 1 .. n + ChecksumLen
        BY <1>2
  <2>1. PICK a \in 0 .. 31 : a = key[i]
        BY <2>2, <1>9
  <2>3. PICK b \in 0 .. 31 : b = key[i + 1]
        BY <2>2, <1>9
  <2>4. a # b
        BY <2>1, <2>3, <1>11, Zenon
  <2>5. K!Swap(key, i) = K!Set(K!Set(key, i, b), i + 1, a)
        BY <2>1, <2>3 DEF K!Swap, K!Set
  <2>6. K!Set(key, i, b) = IF i <= n THEN K!Set(data, i, b) \o c
                           ELSE data \o K!Set(c, i - n, b)
    <3>1. i \in 1 .. Len(data) + Len(c)
          BY <1>2, <1>6
    <3>2. data \in Seq(Int) /\ c \in Seq(Int) /\ b \in Int
          BY <1>1, <1>6
    <3> QED BY <3>1, <3>2, SetSplit
  <2> HIDE DEF key
  <2>7. CASE i + 1 <= n
    <3> DEFINE d == K!Set(data, i, b)
               e == K!Set(d, i + 1, a)
    <3>1. i \in 1 .. n /\ i + 1 \in 1 .. n /\ data[i] = a /\ data[i + 1] = b /\ i <= n
          BY <2>1, <2>2, <2>3, <2>7, <1>2, <1>7
    <3>2. d \in Seq(Int) /\ d \in Seq(K!Indices) /\ Len(d) = n /\ d[i + 1] = b
      <4>0. b \in -1 .. 31 /\ i \in 1 .. Len(data) /\ data \in Seq(K!Indices)
            BY <3>1, <1>1
      <4>2. d \in Seq(K!Indices)
            BY <4>0, SetStays
      <4>1. /\ d \in Seq(Int) /\ Len(d) = Len(data)
            /\ \A j \in 1 .. Len(data) : d[j] = IF j = i THEN b ELSE data[j]
            BY <3>1, <1>1, SetPlaces
      <4> HIDE DEF d
      <4> QED BY <4>1, <4>2, <3>1, <2>4
    <3>3. K!Sums(d)[n] = sum + K!Weight(i) * (b - a)
      <4>1. K!Sums(d)[n] = K!Sums(data)[n] + K!Weight(i) * (b - data[i])
            BY <3>1, <1>1, SumsOfSet
      <4> QED BY <4>1, <3>1, <1>3
    <3> HIDE DEF d
    <3>4. /\ e \in Seq(K!Indices) /\ Len(e) = n
          /\ K!Sums(e)[n] = K!Sums(d)[n] + K!Weight(i + 1) * (a - b)
      <4>1. i + 1 \in 1 .. Len(d)
            BY <3>1, <3>2
      <4>2. d \in Seq(Int) /\ d \in Seq(K!Indices)
            BY <3>2
      <4>4. e \in Seq(K!Indices)
        <5>1. a \in -1 .. 31
              OBVIOUS
        <5> QED BY <5>1, <4>1, <4>2, SetStays
      <4>3. /\ e \in Seq(Int) /\ Len(e) = Len(d)
            /\ K!Sums(e)[Len(d)] = K!Sums(d)[Len(d)] + K!Weight(i + 1) * (a - d[i + 1])
            BY <4>1, <4>2, SumsOfSet
      <4> HIDE DEF e
      <4> QED BY <4>3, <4>4, <3>2
    <3>5. K!Swap(key, i) = e \o c
      <4>1. K!Set(d \o c, i + 1, a) = e \o c
        <5>1. i + 1 \in 1 .. Len(d)
              BY <3>1, <3>2
        <5>2. d \in Seq(Int) /\ c \in Seq(Int) /\ a \in Int
              BY <3>2, <1>6
        <5> QED BY <5>1, <5>2, SetInData, Zenon
      <4> QED BY <4>1, <2>5, <2>6, <3>1 DEF d
    <3> HIDE DEF e
    <3>6. PICK off \in {b - a, a - b} : K!Sums(e)[Len(e)] = sum + off
      <4>1. /\ K!Sums(d)[n] = sum + K!Weight(i) * (b - a)
            /\ K!Sums(e)[Len(e)] = K!Sums(d)[n] + K!Weight(i + 1) * (a - b)
            BY <3>3, <3>4
      <4>2. CASE i % 2 = 1
        <5>1. (i + 1) % 2 # 1
              BY <4>2, SMT
        <5>2. K!Weight(i) = 2 /\ K!Weight(i + 1) = 1
              BY <4>2, <5>1 DEF K!Weight
        <5> QED BY <4>1, <5>2
      <4>3. CASE i % 2 # 1
        <5>1. (i + 1) % 2 = 1
              BY <4>3, SMT
        <5>2. K!Weight(i) = 1 /\ K!Weight(i + 1) = 2
              BY <4>3, <5>1 DEF K!Weight
        <5> QED BY <4>1, <5>2
      <4> QED BY <4>2, <4>3
    <3>7. off \in Int /\ sum + off \in Int /\ sum + off - sum = off
          OBVIOUS
    <3>8. K!ValidateKey(e \o c, ChecksumLen)
            = IF off % 32 = 0 THEN "valid" ELSE "invalid"
      <4>1. e \in Seq(K!Indices) /\ c \in Seq(K!Indices) /\ K!Sums(e)[Len(e)] \in Int
            BY <3>4, <3>6, <3>7, <1>6
      <4>2. Len(c) = ChecksumLen
            BY <1>6
      <4>3. \A j \in 1 .. ChecksumLen : c[j] = (sum + (j - 1) * 31) % 32
            BY <1>5
      <4>4. K!ValidateKey(e \o c, ChecksumLen)
              = IF (K!Sums(e)[Len(e)] - sum) % 32 = 0 THEN "valid" ELSE "invalid"
            BY <4>1, <4>2, <4>3, AlteredData
      <4> QED BY <4>4, <3>6, <3>7
    <3>9. off % 32 # 0
      <4>1. off \in -31 .. 31 /\ off # 0
            BY <2>4
      <4> QED BY <4>1, SMT
    <3> QED BY <3>5, <3>8, <3>9
  <2>8. CASE i = n
    <3> DEFINE d == K!Set(data, n, b)
               e == K!Set(c, 1, a)
    <3>1. n \in 1 .. n /\ 1 \in 1 .. ChecksumLen /\ 2 \in 1 .. ChecksumLen
          BY <2>8, <1>2
    <3>2. d \in Seq(Int) /\ d \in Seq(K!Indices) /\ Len(d) = n
      <4>1. b \in -1 .. 31
            OBVIOUS
      <4>2. d \in Seq(K!Indices)
            BY <4>1, <3>1, <1>1, SetStays
      <4> QED BY <4>2, <3>1, <1>1, SetPlaces
    <3>3. e \in Seq(K!Indices) /\ Len(e) = ChecksumLen /\ e[1] = a /\ e[2] = c[2]
      <4>1. 1 \in 1 .. Len(c) /\ 2 \in 1 .. Len(c)
            BY <3>1, <1>6
      <4>2. /\ e \in Seq(Int) /\ Len(e) = Len(c)
            /\ \A j \in 1 .. Len(c) : e[j] = IF j = 1 THEN a ELSE c[j]
        <5>1. c \in Seq(Int) /\ a \in Int
              BY <1>6
        <5> QED BY <5>1, <4>1, SetPlaces
      <4>3. e \in Seq(K!Indices)
        <5>1. a \in -1 .. 31
              OBVIOUS
        <5> QED BY <5>1, <4>1, <1>6, SetStays
      <4> HIDE DEF e
      <4> QED BY <4>1, <4>2, <4>3, <1>6
    <3> HIDE DEF d
    <3>4. PICK t \in Int : t = K!Sums(d)[Len(d)]
      <4>1. Len(d) \in 0 .. Len(d)
            BY <3>2, <1>2
      <4> QED BY <4>1, <3>2, SumsStep
    <3>5. K!Swap(key, i) = d \o e
      <4>1. K!Set(d \o c, n + 1, a) = d \o e
        <5>1. 1 \in 1 .. Len(c) /\ n + 1 = Len(d) + 1
              BY <3>1, <3>2, <1>2, <1>6
        <5>2. d \in Seq(Int) /\ c \in Seq(Int) /\ a \in Int
              BY <3>2, <1>6
        <5>3. K!Set(d \o c, Len(d) + 1, a) = d \o K!Set(c, 1, a)
              BY <5>1, <5>2, SetInChecksum, Zenon
        <5> QED BY <5>1, <5>3, Zenon
      <4>2. K!Set(key, i, b) = d \o c
            BY <2>6, <2>8, <1>2 DEF d
      <4> QED BY <4>1, <4>2, <2>5, <2>8
    <3> HIDE DEF e
    <3>6. c[1] = b /\ c[1] = sum % 32 /\ c[2] = (sum + 31) % 32
      <4>1. c[1] = (sum + (1 - 1) * 31) % 32 /\ c[2] = (sum + (2 - 1) * 31) % 32
            BY <3>1, <1>5
      <4>2. key[n + 1] = c[1]
        <5>1. n + 1 \in 1 .. n + ChecksumLen /\ ~(n + 1 <= n) /\ n + 1 - n = 1
              BY <3>1, <1>2
        <5> QED BY <5>1, <1>7
      <4>3. sum + (1 - 1) * 31 = sum /\ sum + (2 - 1) * 31 = sum + 31
            OBVIOUS
      <4> QED BY <4>1, <4>2, <4>3, <2>3, <2>8
    <3>7. ASSUME K!ValidateKey(d \o e, ChecksumLen) = "valid" PROVE FALSE
      <4>1. \A j \in 1 .. ChecksumLen : e[j] = (t + (j - 1) * 31) % 32
            BY <3>2, <3>3, <3>4, <3>7, ValidIff
      <4>2. e[1] = (t + (1 - 1) * 31) % 32 /\ e[2] = (t + (2 - 1) * 31) % 32
            BY <4>1, <3>1
      <4>3. t + (1 - 1) * 31 = t /\ t + (2 - 1) * 31 = t + 31
            OBVIOUS
      <4>4. a = t % 32 /\ (sum + 31) % 32 = (t + 31) % 32
            BY <4>2, <4>3, <3>3, <3>6
      <4>5. (sum + 31) % 32 = (t + 31) % 32 => sum % 32 = t % 32
            BY SMT
      <4> QED BY <4>4, <4>5, <3>6, <2>4
    <3>8. K!ValidateKey(d \o e, ChecksumLen) \in {"valid", "invalid"}
          BY <3>2, <3>3, ValidIff
    <3> QED BY <3>5, <3>7, <3>8
  <2>9. CASE i > n
    <3> DEFINE k == i - n
               d == K!Set(c, k, b)
               e == K!Set(d, k + 1, a)
    <3>1. k \in 1 .. ChecksumLen /\ k + 1 \in 1 .. ChecksumLen /\ k # k + 1
          BY <2>9, <1>2
    <3> HIDE DEF k
    <3>2. /\ d \in Seq(Int) /\ d \in Seq(K!Indices)
          /\ Len(d) = ChecksumLen /\ d[k] = b
      <4>1. k \in 1 .. Len(c)
            BY <3>1, <1>6
      <4>2. c \in Seq(Int) /\ b \in Int
            BY <1>6
      <4>3. /\ d \in Seq(Int) /\ Len(d) = Len(c)
            /\ \A j \in 1 .. Len(c) : d[j] = IF j = k THEN b ELSE c[j]
            BY <4>1, <4>2, SetPlaces
      <4>4. d \in Seq(K!Indices)
        <5>1. b \in -1 .. 31
              OBVIOUS
        <5> QED BY <5>1, <4>1, <1>6, SetStays
      <4> HIDE DEF d
      <4> QED BY <4>1, <4>3, <4>4, <1>6
    <3> HIDE DEF d
    <3>3. /\ e \in Seq(K!Indices) /\ Len(e) = ChecksumLen /\ e[k] = b
      <4>1. k + 1 \in 1 .. Len(d) /\ k \in 1 .. Len(d)
            BY <3>1, <3>2
      <4>2. d \in Seq(Int) /\ a \in Int
            BY <3>2
      <4>3. /\ e \in Seq(Int) /\ Len(e) = Len(d)
            /\ \A j \in 1 .. Len(d) : e[j] = IF j = k + 1 THEN a ELSE d[j]
            BY <4>1, <4>2, SetPlaces, Zenon
      <4>4. e \in Seq(K!Indices)
        <5>1. a \in -1 .. 31
              OBVIOUS
        <5> QED BY <5>1, <4>1, <3>2, SetStays
      <4> HIDE DEF e
      <4> QED BY <4>1, <4>3, <4>4, <3>1, <3>2
    <3>4. K!Swap(key, i) = data \o e
      <4>1. K!Set(data \o d, i + 1, a) = data \o e
        <5>1. i + 1 = Len(data) + (k + 1)
              BY <1>2 DEF k
        <5>2. data \in Seq(Int) /\ d \in Seq(Int) /\ a \in Int
              BY <1>1, <3>2
        <5>3. k + 1 \in 1 .. Len(d)
              BY <3>1, <3>2
        <5>4. K!Set(data \o d, Len(data) + (k + 1), a) = data \o K!Set(d, k + 1, a)
              BY <5>2, <5>3, SetInChecksum, Zenon
        <5> QED BY <5>1, <5>4, Zenon
      <4>2. K!Set(key, i, b) = data \o d
        <5>1. ~(i <= n)
              BY <2>9, <1>2
        <5> QED BY <5>1, <2>6 DEF d, k
      <4> QED BY <4>1, <4>2, <2>5
    <3>5. c[k] = a /\ c[k] = (sum + (k - 1) * 31) % 32
      <4>1. ~(i <= n) /\ i \in 1 .. n + ChecksumLen
            BY <2>9, <1>2
      <4>2. key[i] = c[k]
            BY <4>1, <1>7 DEF k
      <4> QED BY <4>2, <3>1, <2>1, <1>5
    <3> HIDE DEF e
    <3>6. e[k] # (K!Sums(data)[n] + (k - 1) * 31) % 32
          BY <3>3, <3>5, <2>4, <1>3
    <3>7. K!ValidateKey(data \o e, ChecksumLen) = "invalid"
          BY <3>1, <3>3, <3>6, <1>1, AlteredChecksum
    <3> QED BY <3>4, <3>7
  <2> QED BY <2>7, <2>8, <2>9, <1>2
\* A longer character.
<1>12. ASSUME NEW i \in 1 .. n + ChecksumLen, NEW x \in K!Longer
       PROVE  /\ K!ValidateKey(K!Splice(key, i, x), ChecksumLen) = "panic"
                   <=> i - n \in 1 .. Len(x) - 1
              /\ K!ValidateKey(K!Splice(key, i, x), ChecksumLen) = "valid" => i <= n
  <2>1. /\ key \in Seq(Int) /\ Len(key) = n + ChecksumLen
        /\ \A j \in 1 .. n + ChecksumLen : key[j] \in 0 .. 31
        BY <1>1, <1>6, <1>7, <1>9
  <2>2. n \in Nat /\ i \in Int /\ 1 <= i /\ i <= n + ChecksumLen
        BY <1>2
  <2> HIDE DEF key, n
  <2> QED BY <2>1, <2>2, LongerTyped, Zenon
<1>13. K!TyposCaught(data, ChecksumLen)
  <2>0. n \in Int /\ ChecksumLen \in Int
        BY <1>2
  <2> HIDE DEF key, Missed, n
  <2>1. /\ DOMAIN key = 1 .. n + ChecksumLen
        /\ Len(key) - 1 = n + ChecksumLen - 1
    <3>1. Len(key) = n + ChecksumLen /\ DOMAIN key = 1 .. n + ChecksumLen
          BY <1>7
    <3>2. n + ChecksumLen - 1 = (n + ChecksumLen) - 1
          BY <2>0
    <3> QED BY <3>1, <3>2, Zenon
  <2>2. \A i \in DOMAIN key : \A x \in K!Indices \ {key[i]} :
          K!ValidateKey(K!Set(key, i, x), ChecksumLen)
            = IF Missed(i, x) THEN "valid" ELSE "invalid"
        BY <2>1, <1>10, IndicesInt
  <2>3. \A i \in DOMAIN key : \A x \in K!Longer :
          /\ K!ValidateKey(K!Splice(key, i, x), ChecksumLen) = "panic"
               <=> i - n \in 1 .. Len(x) - 1
          /\ K!ValidateKey(K!Splice(key, i, x), ChecksumLen) = "valid" => i <= n
        BY <2>1, <1>12
  <2>4. \A i \in 1 .. Len(key) - 1 :
          key[i] # key[i + 1]
            => K!ValidateKey(K!Swap(key, i), ChecksumLen) = "invalid"
        BY <2>1, <1>11
  <2> QED BY <1>8, <2>2, <2>3, <2>4, Zenon DEF K!TyposCaught, c, key, Missed, n
<1> QED BY <1>13

\* Every typo in a key of those given is caught, as long as keys are given.
THEOREM TyposAreCaught == PureSpec => []Typos
<1>1. Given => Typos
  <2>1. \A d \in KeyData : d \in Seq(0 .. 31)
        BY KeyAssumption DEF K!Base
  <2> QED BY <2>1, EveryTypo DEF Given, Typos
<1> QED BY <1>1, InputIsGiven, PTL
-----------------------------------------------------------------------------
(* Spellings *)

\* Sequences are put end to end one after another.
LEMMA FlattenStep ==
  ASSUME NEW Elems, NEW q \in Seq(Seq(Elems)), Len(q) > 0
  PROVE  \E f : /\ K!FlattenSeq(q) = f[Len(q)]
                /\ f[1] = q[1]
                /\ \A i \in 1 .. Len(q) - 1 : f[i + 1] = f[i] \o q[i + 1]
<1> DEFINE Step(f, n) == [i \in 1 .. n |-> IF i = 1 THEN q[i] ELSE f[i - 1] \o q[i]]
           Defined == {n \in 0 .. Len(q) : \E f : f = Step(f, n)}
<1>1. Len(q) \in Nat
      OBVIOUS
<1>2. 0 \in Defined
  <2> DEFINE f == [i \in 1 .. 0 |-> 0]
  <2>1. f = Step(f, 0)
        OBVIOUS
  <2> HIDE DEF f
  <2>2. \E g : g = Step(g, 0)
        BY <2>1
  <2>3. 0 \in 0 .. Len(q)
        BY <1>1
  <2> QED BY <2>2, <2>3, Zenon
<1>3. ASSUME NEW n \in 0 .. Len(q) - 1, n \in Defined
      PROVE  n + 1 \in Defined
  <2>1. PICK f : f = Step(f, n)
        BY <1>3
  <2> DEFINE g == [i \in 1 .. n + 1 |->
                     IF i = 1 THEN q[i]
                     ELSE IF i = n + 1 THEN f[n] \o q[i] ELSE f[i]]
  <2>2. \A i \in 1 .. n : f[i] = IF i = 1 THEN q[i] ELSE f[i - 1] \o q[i]
        BY <2>1, Zenon
  <2>3. ASSUME NEW i \in 1 .. n + 1
        PROVE  g[i] = IF i = 1 THEN q[i] ELSE g[i - 1] \o q[i]
    <3>1. CASE i = 1
          BY <3>1
    <3>2. CASE i # 1 /\ i # n + 1
      <4>1. i \in 1 .. n /\ i - 1 \in 1 .. n + 1 /\ i - 1 # n + 1
            BY <3>2
      <4>2. g[i] = f[i] /\ f[i] = f[i - 1] \o q[i]
            BY <3>2, <4>1, <2>2
      <4>3. g[i - 1] = f[i - 1]
        <5>1. CASE i - 1 = 1
          <6>1. f[1] = q[1] /\ g[1] = q[1]
                BY <4>1, <5>1, <2>2
          <6> QED BY <6>1, <5>1, Zenon
        <5>2. CASE i - 1 # 1
              BY <4>1, <5>2
        <5> QED BY <5>1, <5>2
      <4> HIDE DEF g
      <4> QED BY <4>2, <4>3, <3>2, Zenon
    <3>3. CASE i # 1 /\ i = n + 1
      <4>1. i - 1 = n /\ n \in 1 .. n /\ n \in 1 .. n + 1 /\ n # n + 1
            BY <3>3
      <4>2. g[i] = f[n] \o q[i]
            BY <3>3
      <4>3. g[n] = f[n]
        <5>1. CASE n = 1
          <6>1. f[1] = q[1] /\ g[1] = q[1]
                BY <4>1, <5>1, <2>2
          <6> QED BY <6>1, <5>1, Zenon
        <5>2. CASE n # 1
              BY <4>1, <5>2
        <5> QED BY <5>1, <5>2
      <4> HIDE DEF g
      <4> QED BY <4>1, <4>2, <4>3, <3>3, Zenon
    <3> QED BY <3>1, <3>2, <3>3
  <2>4. g = Step(g, n + 1)
    <3> DEFINE h == Step(g, n + 1)
    <3>1. \A i \in 1 .. n + 1 : g[i] = h[i]
          BY <2>3, Zenon
    <3>2. DOMAIN g = 1 .. n + 1 /\ g = [i \in DOMAIN g |-> g[i]]
          OBVIOUS
    <3>3. DOMAIN h = 1 .. n + 1 /\ h = [i \in DOMAIN h |-> h[i]]
          OBVIOUS
    <3> HIDE DEF g, h
    <3>4. g = h
          BY <3>1, <3>2, <3>3
    <3> QED BY <3>4 DEF h
  <2> HIDE DEF g
  <2>5. n + 1 \in 0 .. Len(q)
        BY <1>1
  <2> QED BY <2>4, <2>5
<1>4. Len(q) \in Defined
  <2> HIDE DEF Defined
  <2>1. \A n \in 0 .. Len(q) : n \in Defined
        BY <1>1, <1>2, <1>3, PlaceByPlace
  <2> QED BY <2>1, <1>1
<1> DEFINE flatten == CHOOSE f : f = Step(f, Len(q))
<1>5. flatten = Step(flatten, Len(q))
  <2>1. \E f : f = Step(f, Len(q))
        BY <1>4
  <2> QED BY <2>1
<1>6. K!FlattenSeq(q) = flatten[Len(q)]
      BY <1>1 DEF K!FlattenSeq
<1> HIDE DEF flatten
<1>7. \A i \in 1 .. Len(q) :
        flatten[i] = IF i = 1 THEN q[i] ELSE flatten[i - 1] \o q[i]
      BY <1>5, Zenon
<1>8. flatten[1] = q[1]
  <2>1. 1 \in 1 .. Len(q)
        BY <1>1
  <2> QED BY <2>1, <1>7
<1>9. ASSUME NEW i \in 1 .. Len(q) - 1
      PROVE  flatten[i + 1] = flatten[i] \o q[i + 1]
  <2> DEFINE next == i + 1
  <2>1. next \in 1 .. Len(q) /\ next # 1 /\ next - 1 = i
        BY <1>1
  <2> HIDE DEF next
  <2>2. flatten[next] = flatten[next - 1] \o q[next]
        BY <2>1, <1>7, Zenon
  <2>3. flatten[next] = flatten[i] \o q[next]
        BY <2>1, <2>2, Zenon
  <2> QED BY <2>3 DEF next
<1> QED BY <1>6, <1>8, <1>9, Zenon

LEMMA FlattenIn ==
  ASSUME NEW Elems, NEW q \in Seq(Seq(Elems))
  PROVE  K!FlattenSeq(q) \in Seq(Elems)
<1>1. CASE Len(q) = 0
  <2>1. q = <<>>
        BY <1>1
  <2> QED BY <1>1, <2>1 DEF K!FlattenSeq
<1>2. CASE Len(q) > 0
  <2>1. PICK f : /\ K!FlattenSeq(q) = f[Len(q)]
                 /\ f[1] = q[1]
                 /\ \A i \in 1 .. Len(q) - 1 : f[i + 1] = f[i] \o q[i + 1]
        BY <1>2, FlattenStep
  <2> DEFINE Whole == {n \in 0 .. Len(q) : n = 0 \/ f[n] \in Seq(Elems)}
  <2>2. 0 \in Whole
        OBVIOUS
  <2>3. ASSUME NEW n \in 0 .. Len(q) - 1, n \in Whole
        PROVE  n + 1 \in Whole
    <3>1. n + 1 \in 1 .. Len(q) /\ q[n + 1] \in Seq(Elems)
          BY ElementOfSeq
    <3>2. CASE n = 0
          BY <3>1, <3>2, <2>1
    <3>3. CASE n # 0
      <4>1. n \in 1 .. Len(q) - 1 /\ f[n] \in Seq(Elems)
            BY <3>3, <2>3
      <4>2. f[n + 1] = f[n] \o q[n + 1]
            BY <4>1, <2>1, Zenon
      <4>3. f[n] \o q[n + 1] \in Seq(Elems)
            BY <4>1, <3>1, ConcatProperties
      <4>4. n + 1 \in 0 .. Len(q)
            OBVIOUS
      <4> QED BY <4>2, <4>3, <4>4, Zenon
    <3> QED BY <3>2, <3>3
  <2> HIDE DEF Whole
  <2>4. \A n \in 0 .. Len(q) : n \in Whole
    <3>1. Len(q) \in Nat
          OBVIOUS
    <3> QED BY <2>2, <2>3, <3>1, PlaceByPlace
  <2>5. Len(q) \in Whole /\ Len(q) # 0
        BY <2>4, <1>2
  <2> QED BY <2>5, <2>1 DEF Whole
<1> QED BY <1>1, <1>2

LEMMA FlattenSingletons ==
  ASSUME NEW Elems, NEW u \in Seq(Elems)
  PROVE  K!FlattenSeq([i \in DOMAIN u |-> <<u[i]>>]) = u
<1> DEFINE q == [i \in DOMAIN u |-> <<u[i]>>]
<1>1. q \in Seq(Seq(Elems)) /\ Len(q) = Len(u) /\ \A i \in 1 .. Len(u) : q[i] = <<u[i]>>
  <2>1. DOMAIN u = 1 .. Len(u) /\ Len(u) \in Nat
        OBVIOUS
  <2>2. \A i \in 1 .. Len(u) : <<u[i]>> \in Seq(Elems)
        BY ElementOfSeq
  <2>3. q = [i \in 1 .. Len(u) |-> <<u[i]>>]
        BY <2>1
  <2> QED BY <2>1, <2>2, <2>3
<1> HIDE DEF q
<1>2. CASE Len(u) = 0
  <2>1. u = <<>> /\ q = <<>>
        BY <1>1, <1>2
  <2> QED BY <1>1, <1>2, <2>1 DEF K!FlattenSeq, q
<1>3. CASE Len(u) > 0
  <2>1. PICK f : /\ K!FlattenSeq(q) = f[Len(u)]
                 /\ f[1] = q[1]
                 /\ \A i \in 1 .. Len(u) - 1 : f[i + 1] = f[i] \o q[i + 1]
    <3>1. \E f : /\ K!FlattenSeq(q) = f[Len(q)]
                 /\ f[1] = q[1]
                 /\ \A i \in 1 .. Len(q) - 1 : f[i + 1] = f[i] \o q[i + 1]
          BY <1>1, <1>3, FlattenStep
    <3> QED BY <3>1, <1>1, Zenon
  <2> DEFINE Same == {n \in 0 .. Len(u) : n = 0 \/ f[n] = SubSeq(u, 1, n)}
  <2>2. 0 \in Same
        OBVIOUS
  <2>3. ASSUME NEW n \in 0 .. Len(u) - 1, n \in Same
        PROVE  n + 1 \in Same
    <3>1. n + 1 \in 1 .. Len(u) /\ q[n + 1] = <<u[n + 1]>>
          BY <1>1
    <3>2. CASE n = 0
      <4>1. SubSeq(u, 1, 1) = <<u[1]>>
        <5>1. u[1] \in Elems /\ 1 <= Len(u)
              BY <1>3
        <5>2. /\ SubSeq(u, 1, 1) \in Seq(Elems) /\ Len(SubSeq(u, 1, 1)) = 1
              /\ SubSeq(u, 1, 1)[1] = u[1]
              BY <5>1
        <5>3. <<u[1]>> \in Seq(Elems) /\ Len(<<u[1]>>) = 1 /\ <<u[1]>>[1] = u[1]
              BY <5>1
        <5> DEFINE v == SubSeq(u, 1, 1)
                   w == <<u[1]>>
        <5> HIDE DEF v, w
        <5>4. /\ v \in Seq(Elems) /\ w \in Seq(Elems)
              /\ Len(v) = Len(w) /\ \A i \in 1 .. Len(v) : v[i] = w[i]
              BY <5>2, <5>3 DEF v, w
        <5>5. v = w
              BY <5>4, SeqEqual
        <5> QED BY <5>5 DEF v, w
      <4> QED BY <4>1, <3>1, <3>2, <2>1
    <3>3. CASE n # 0
      <4>1. n \in 1 .. Len(u) - 1 /\ f[n] = SubSeq(u, 1, n)
            BY <3>3, <2>3
      <4>2. f[n + 1] = f[n] \o <<u[n + 1]>>
        <5>1. f[n + 1] = f[n] \o q[n + 1]
              BY <4>1, <2>1, Zenon
        <5> QED BY <5>1, <3>1, Zenon
      <4>3. SubSeq(u, 1, n) \o <<u[n + 1]>> = SubSeq(u, 1, n + 1)
            BY <4>1
      <4> QED BY <4>1, <4>2, <4>3, <3>1
    <3> QED BY <3>2, <3>3
  <2> HIDE DEF Same
  <2>4. \A n \in 0 .. Len(u) : n \in Same
        BY <2>2, <2>3, PlaceByPlace
  <2>5. Len(u) \in Same /\ Len(u) # 0
        BY <2>4, <1>3
  <2>6. f[Len(u)] = SubSeq(u, 1, Len(u))
        BY <2>5 DEF Same
  <2>7. SubSeq(u, 1, Len(u)) = u
        OBVIOUS
  <2> QED BY <2>1, <2>6, <2>7 DEF q
<1> QED BY <1>2, <1>3

\* Characters that normalizing leaves as they are, those it turns others into
\* among them.
Upper == (K!Characters \cup {"A", "O", "L", "S", "E acute"})
           \ {"a", "o", "l", "sharp s", "e acute", "-", " "}

LEMMA UpperIsNormal ==
  ASSUME NEW u \in Seq(Upper)
  PROVE  K!NormalizeKey(u) = u
<1> DEFINE part(c) == IF c \in {"-", " "} THEN <<>> ELSE K!ToUpper(c)
<1>1. ASSUME NEW c \in Upper PROVE part(c) = <<c>>
      BY DEF K!ToUpper, Upper
<1>2. \A i \in DOMAIN u : u[i] \in Upper
      OBVIOUS
<1> HIDE DEF part
<1>3. [i \in DOMAIN u |-> part(u[i])] = [i \in DOMAIN u |-> <<u[i]>>]
      BY <1>1, <1>2
<1>4. K!FlattenSeq([i \in DOMAIN u |-> <<u[i]>>]) = u
      BY FlattenSingletons
<1> QED BY <1>3, <1>4 DEF K!NormalizeKey, part

LEMMA NormalIsUpper ==
  ASSUME NEW t \in Seq(K!Characters)
  PROVE  K!NormalizeKey(t) \in Seq(Upper)
<1> DEFINE part(c) == IF c \in {"-", " "} THEN <<>> ELSE K!ToUpper(c)
           parts == [i \in DOMAIN t |-> part(t[i])]
<1>1. ASSUME NEW c \in K!Characters PROVE part(c) \in Seq(Upper)
  <2>1. /\ "A" \in Upper /\ "O" \in Upper /\ "L" \in Upper /\ "S" \in Upper
        /\ "E acute" \in Upper
        BY DEF Upper
  <2>2. CASE c \in {"-", " ", "a", "o", "l", "sharp s", "e acute"}
    <3>1. part(c) \in {<<>>, <<"A">>, <<"O">>, <<"L">>, <<"S", "S">>, <<"E acute">>}
          BY <2>2 DEF K!ToUpper
    <3>2. /\ <<>> \in Seq(Upper)
          /\ \A a \in Upper : <<a>> \in Seq(Upper)
          /\ \A a, b \in Upper : <<a, b>> \in Seq(Upper)
          OBVIOUS
    <3>3. part(c) \in {<<>>} \cup {<<a>> : a \in Upper} \cup {<<a, a>> : a \in Upper}
          BY <3>1, <2>1
    <3> HIDE DEF part
    <3> QED BY <3>2, <3>3
  <2>3. CASE c \notin {"-", " ", "a", "o", "l", "sharp s", "e acute"}
    <3>1. c \in Upper
          BY <2>3 DEF Upper
    <3>2. part(c) = <<c>>
          BY <2>3 DEF K!ToUpper
    <3> HIDE DEF part
    <3>3. <<c>> \in Seq(Upper)
          BY <3>1
    <3> QED BY <3>2, <3>3, Zenon
  <2> QED BY <2>2, <2>3
<1> HIDE DEF part
<1>2. parts \in Seq(Seq(Upper))
  <2>1. DOMAIN t = 1 .. Len(t) /\ Len(t) \in Nat
        OBVIOUS
  <2>2. \A i \in 1 .. Len(t) : part(t[i]) \in Seq(Upper)
        BY <1>1, ElementOfSeq
  <2> QED BY <2>1, <2>2
<1>3. K!FlattenSeq(parts) \in Seq(Upper)
      BY <1>2, FlattenIn
<1> QED BY <1>3 DEF K!NormalizeKey, part

\* However the key is spelled, and whatever it is typed as again, the licence it was
\* activated as is found, and under an alias no other key is.
THEOREM EverySpelling ==
  ASSUME NEW typed \in Seq(K!Characters), NEW again \in Seq(K!Characters)
  PROVE  K!SpellingsFound(typed, again)
<1> DEFINE t == K!NormalizeKey(typed)
           u == K!NormalizeKey(again)
           native == [key |-> K!SanitizeKey(typed), alias |-> <<>>]
           legacy == [key |-> <<"new key">>, alias |-> t]
<1>1. t \in Seq(Upper) /\ u \in Seq(Upper)
      BY NormalIsUpper
<1>2. K!NormalizeKey(t) = t
      BY <1>1, UpperIsNormal
<1>3. K!SanitizeKey(t) = K!SanitizeKey(typed)
      BY <1>2 DEF K!SanitizeKey
<1>4. K!SanitizeKey(again) # <<"new key">>
  <2>1. K!SanitizeKey(again) = [i \in 1 .. Len(u) |-> K!Fold(u[i])]
        BY <1>1 DEF K!SanitizeKey
  <2> HIDE DEF u
  <2>2. CASE Len(u) = 1
    <3>1. u[1] \in Upper
          BY <1>1, <2>2
    <3>2. K!Fold(u[1]) # "new key"
          BY <3>1 DEF K!Fold, Upper, K!Characters
    <3>3. K!SanitizeKey(again)[1] = K!Fold(u[1])
          BY <2>1, <2>2
    <3>4. <<"new key">>[1] = "new key"
          OBVIOUS
    <3> QED BY <3>2, <3>3, <3>4, Zenon
  <2>3. CASE Len(u) # 1
    <3>1. Len(K!SanitizeKey(again)) = Len(u)
          BY <2>1, <1>1
    <3> QED BY <3>1, <2>3
  <2> QED BY <2>2, <2>3
<1>5. K!ValidLicenceKey(t) => t # <<>>
      BY DEF K!ValidLicenceKey
<1>6. K!Hits(native, typed)
      BY DEF K!Hits
<1>7. K!ValidLicenceKey(t) => K!Hits(legacy, typed)
      BY <1>5 DEF K!Hits
<1>8. ASSUME u = t
      PROVE  /\ K!Hits(native, again)
             /\ K!ValidLicenceKey(t) => K!Hits(legacy, again)
  <2>1. K!SanitizeKey(again) = K!SanitizeKey(typed)
        BY <1>8 DEF K!SanitizeKey
  <2> QED BY <2>1, <1>5, <1>8 DEF K!Hits
<1>9. K!Hits(legacy, again) => u = t
      BY <1>4 DEF K!Hits
<1> QED BY <1>2, <1>3, <1>6, <1>7, <1>8, <1>9 DEF K!SpellingsFound

\* A key of those given finds its licence whichever of them it is typed as again, as
\* long as keys are given.
THEOREM SpellingsAreFound == PureSpec => []Spellings
<1>1. Given => Spellings
  <2>1. \A t \in Typings : t \in Seq(K!Characters)
        BY KeyAssumption
  <2> QED BY <2>1, EverySpelling DEF Given, Spellings
<1> QED BY <1>1, InputIsGiven, PTL

=============================================================================
