----------------------------- MODULE PureProofs -----------------------------
(***************************************************************************)
(* Proofs about the pure parts of the SDK other than keys (KeyProofs), for *)
(* every set of inputs: what Pure says of one input holds of all.          *)
(***************************************************************************)
EXTENDS Pure, FiniteSetTheorems, SequenceTheorems, TLAPS

-----------------------------------------------------------------------------
(* The input rests *)

Given ==
  /\ Of("key") => input[2] \in KeyData
  /\ Of("spelling") => input[2] \in Typings
  /\ Of("number") => input[2] \in Numbers
  /\ Of("claim") => input[2] \in EntClaims
  /\ Of("date") => input[2] \in Dates
  /\ Of("time") => input[2] \in Stamps
  /\ Of("setup") => input[2] \in Setups

\* The input of a behaviour is one of those given, at every step of it.
LEMMA InputIsGiven == PureSpec => []Given
<1>1. PureInit => Given
  <2>1. Inputs => Given
        BY DEF Inputs, Given, Of
  <2>2. input = <<"chain">> => Given
        BY DEF Given, Of
  <2> QED BY <2>1, <2>2 DEF PureInit
<1>2. Given /\ [PureNext]_pureVars => Given'
      BY DEF Given, Of, PureNext, pureVars
<1> QED BY <1>1, <1>2, PTL DEF PureSpec

\* The clock's part of Pure is Offline: what ChainProofs says of a device that
\* stays offline holds of it too.
THEOREM PureIsOffline == PureSpec => Spec
<1>1. PureInit => Init
      BY DEF PureInit
<1>2. [PureNext]_pureVars => [Next \/ Done]_vars
      BY DEF PureNext, pureVars, vars
<1> QED BY <1>1, <1>2, PTL DEF PureSpec, Spec

-----------------------------------------------------------------------------
(* Timestamps *)

\* The calendar is followed in every month of every year, far beyond the four
\* digits a timestamp has.
THEOREM EveryMonth ==
  ASSUME NEW y \in Nat, NEW mo \in 1 .. 12
  PROVE  T!CalendarFollowed(y, mo)
<1> USE DEF T!Days, T!Length, T!Leap
<1> DEFINE nextY == IF mo = 12 THEN y + 1 ELSE y
           nextMo == IF mo = 12 THEN 1 ELSE mo + 1
<1>1. T!Days(1970, 1, 1) = 0 /\ T!Days(2000, 3, 1) = 11017
      BY SMT
<1>2. ASSUME NEW d \in 1 .. 31
      PROVE  T!Days(y, mo, d) = T!Days(y, mo, 1) + d - 1
      BY <1>2, SMT
<1>3. T!Days(nextY, nextMo, 1) = T!Days(y, mo, 1) + T!Length(y, mo)
  <2>1. CASE mo = 1
        BY <2>1, SMT
  <2>2. CASE mo = 2
        BY <2>2, SMTT(60)
  <2>3. CASE mo = 12
        BY <2>3, SMT
  <2>4. CASE mo \in 3 .. 11
        BY <2>4, SMT
  <2> QED BY <2>1, <2>2, <2>3, <2>4
<1> QED BY <1>1, <1>2, <1>3 DEF T!CalendarFollowed

\* parse_rfc3339 counts the days of a timestamp as the calendar does, whatever
\* months and years are given.
THEOREM CalendarHolds == PureSpec => []Calendar
<1>1. Given => Calendar
      BY EveryMonth, StampAssumption DEF Given, Calendar
<1> QED BY <1>1, InputIsGiven, PTL

LEMMA InstantShifts ==
  ASSUME NEW days \in Int, NEW secs \in Int, NEW q \in Int
  PROVE  T!Instant(days + q, secs) = T!Instant(days, secs + 86400 * q)
<1>1. (secs + 86400 * q) \div 86400 = secs \div 86400 + q
      OBVIOUS
<1>2. (secs + 86400 * q) % 86400 = secs % 86400
      OBVIOUS
<1> QED BY <1>1, <1>2 DEF T!Instant

LEMMA DaysLinear ==
  ASSUME NEW y \in Nat, NEW mo \in 1 .. 12, NEW d \in Nat, NEW e \in Nat
  PROVE  /\ T!Days(y, mo, d) \in Int /\ T!Days(y, mo, e) \in Int
         /\ T!Days(y, mo, e) - T!Days(y, mo, d) = e - d
<1> DEFINE first == T!Days(y, mo, 1)
<1>1. first \in Int
      BY DEF T!Days
<1>2. \A x \in Int : T!Days(y, mo, x) = first + x - 1
      BY DEF T!Days
<1> HIDE DEF first
<1> QED BY <1>1, <1>2

LEMMA MinutesOfDay ==
  ASSUME NEW x \in Int
  PROVE  /\ x \div 1440 \in Int /\ x % 1440 \in 0 .. 1439
         /\ x = 1440 * (x \div 1440) + (x % 1440)
         /\ x % 60 = (x % 1440) % 60
<1>1. x \div 1440 \in Int /\ x % 1440 \in 0 .. 1439
      OBVIOUS
<1>2. x = 1440 * (x \div 1440) + (x % 1440)
      OBVIOUS
<1>3. x % 60 = (x % 1440) % 60
      OBVIOUS
<1> QED BY <1>1, <1>2, <1>3

LEMMA HoursAndMinutes ==
  ASSUME NEW x \in Nat
  PROVE  /\ x \div 60 \in Nat /\ x % 60 \in 0 .. 59
         /\ x = 60 * (x \div 60) + (x % 60)
         /\ x <= 1439 => x \div 60 <= 23
<1>1. x \div 60 \in Nat /\ x % 60 \in 0 .. 59
      OBVIOUS
<1>2. x = 60 * (x \div 60) + (x % 60)
      OBVIOUS
<1>3. x <= 1439 => x \div 60 <= 23
      OBVIOUS
<1> QED BY <1>1, <1>2, <1>3

\* A clock up to a day away is on the same day or a neighbouring one.
LEMMA DayAway ==
  ASSUME NEW h \in Nat, NEW mi \in Nat, h <= 23, mi <= 59,
         NEW m \in Int, -1440 <= m, m <= 1440,
         NEW q \in Int, NEW r \in Int, 0 <= r, r <= 1439,
         h * 60 + mi + m = 1440 * q + r
  PROVE  q \in -1 .. 1
<1>1. q <= 1 /\ q >= -1
      OBVIOUS
<1> QED BY <1>1

\* The seconds of a day in the two zones.
LEMMA MovedSeconds ==
  ASSUME NEW h \in Nat, NEW mi \in Nat, NEW sec \in Nat, NEW z \in Int, NEW m \in Int,
         NEW q \in Int, NEW hour \in Nat, NEW minute \in Nat,
         h * 60 + mi + m = 1440 * q + (60 * hour + minute)
  PROVE  60 * (60 * h + mi - (z - m)) + sec
           = (60 * (60 * hour + minute - z) + sec) + 86400 * q
OBVIOUS

LEMMA ParseOfSound ==
  ASSUME NEW t \in T!Fields, T!InCalendar(t), NEW z \in Int, T!Offset(t) = 60 * z
  PROVE  T!ParseRfc3339(t) =
           T!Instant(T!Days(t.y, t.mo, t.d), 60 * (60 * t.h + t.mi - z) + t.sec)
<1>1. t # Malformed
      BY StampAssumption
<1>2. /\ t.h \in Nat /\ t.mi \in Nat /\ t.sec \in Nat
      BY DEF T!Fields
<1>3. t.h * 3600 + t.mi * 60 + t.sec - 60 * z = 60 * (60 * t.h + t.mi - z) + t.sec
      BY <1>2
<1> QED BY <1>1, <1>3 DEF T!ParseRfc3339

LEMMA LengthOfMonth ==
  ASSUME NEW y, NEW mo
  PROVE  T!Length(y, mo) \in 28 .. 31
BY DEF T!Length

\* The month after a month begins as many days later as the month is long.
LEMMA NextMonth ==
  ASSUME NEW y \in Nat, NEW mo \in 1 .. 12
  PROVE  /\ mo = 12 => T!Days(y + 1, 1, 1) = T!Days(y, mo, 1) + T!Length(y, mo)
         /\ mo # 12 => T!Days(y, mo + 1, 1) = T!Days(y, mo, 1) + T!Length(y, mo)
<1>1. T!CalendarFollowed(y, mo)
      BY EveryMonth
<1> QED BY <1>1 DEF T!CalendarFollowed

\* The date before a date or after it is a date, and one day from it.
LEMMA NeighbourIsNear ==
  ASSUME NEW y, NEW mo, NEW d, T!IsDate(y, mo, d), NEW n \in -1 .. 1,
         T!Neighbour(y, mo, d, n).y \in Nat
  PROVE  LET date == T!Neighbour(y, mo, d, n)
         IN /\ T!IsDate(date.y, date.mo, date.d)
            /\ T!Days(date.y, date.mo, date.d) = T!Days(y, mo, d) + n
<1> DEFINE date == T!Neighbour(y, mo, d, n)
           length == T!Length(y, mo)
<1>1. y \in Nat /\ mo \in 1 .. 12 /\ d \in 1 .. length
      BY DEF T!IsDate
<1>2. length \in 28 .. 31
      BY LengthOfMonth
<1>3. d \in Nat /\ T!Days(y, mo, d) \in Int
  <2>1. d \in Nat
        BY <1>1, <1>2
  <2> QED BY <2>1, <1>1, DaysLinear
<1>4. T!Days(y, mo, 1) \in Int /\ T!Days(y, mo, d) - T!Days(y, mo, 1) = d - 1
  <2>1. 1 \in Nat
        OBVIOUS
  <2> QED BY <2>1, <1>1, <1>3, DaysLinear, Zenon
<1>5. CASE d + n \in 1 .. length
  <2>1. d + n # 0 /\ ~(d + n > length) /\ d + n \in Nat
        BY <1>2, <1>5
  <2>2. date = [y |-> y, mo |-> mo, d |-> d + n]
        BY <2>1 DEF T!Neighbour
  <2>3. date.y = y /\ date.mo = mo /\ date.d = d + n
        BY <2>2
  <2>4. T!Days(y, mo, d + n) = T!Days(y, mo, d) + n
    <3>1. PICK e \in Nat : e = d + n
          BY <2>1
    <3>2. T!Days(y, mo, e) \in Int /\ T!Days(y, mo, e) - T!Days(y, mo, d) = e - d
          BY <1>1, <1>3, DaysLinear
    <3> QED BY <3>1, <3>2, <1>3
  <2> HIDE DEF date
  <2> QED BY <1>1, <1>5, <2>3, <2>4 DEF T!IsDate, date
<1>6. CASE d + n = 0
  <2>1. PICK lastY, lastMo : lastY = (IF mo = 1 THEN y - 1 ELSE y)
                             /\ lastMo = (IF mo = 1 THEN 12 ELSE mo - 1)
        OBVIOUS
  <2>2. date = [y |-> lastY, mo |-> lastMo, d |-> T!Length(lastY, lastMo)]
        BY <1>6, <2>1 DEF T!Neighbour
  <2>3. date.y = lastY /\ date.mo = lastMo /\ date.d = T!Length(lastY, lastMo)
        BY <2>2
  <2>4. lastY \in Nat /\ lastMo \in 1 .. 12
        BY <1>1, <2>1, <2>3
  <2>5. PICK last \in 28 .. 31 : last = T!Length(lastY, lastMo)
        BY LengthOfMonth
  <2>6. T!Days(y, mo, 1) = T!Days(lastY, lastMo, 1) + last
    <3>1. CASE mo = 1
      <4>1. lastMo = 12 /\ lastY + 1 = y
            BY <1>1, <2>1, <3>1
      <4> QED BY <4>1, <3>1, <2>4, <2>5, NextMonth
    <3>2. CASE mo # 1
      <4>1. lastMo # 12 /\ lastMo + 1 = mo /\ lastY = y
            BY <1>1, <2>1, <3>2
      <4> QED BY <4>1, <2>4, <2>5, NextMonth
    <3> QED BY <3>1, <3>2
  <2>7. /\ T!Days(lastY, lastMo, last) \in Int /\ T!Days(lastY, lastMo, 1) \in Int
        /\ T!Days(lastY, lastMo, last) - T!Days(lastY, lastMo, 1) = last - 1
    <3>1. last \in Nat /\ 1 \in Nat
          OBVIOUS
    <3> QED BY <3>1, <2>4, DaysLinear, Zenon
  <2>8. d = 1 /\ n = -1
        BY <1>1, <1>2, <1>6
  <2>9. T!Days(lastY, lastMo, last) = T!Days(y, mo, d) + n
        BY <2>6, <2>7, <2>8
  <2> HIDE DEF date
  <2> QED BY <2>3, <2>4, <2>5, <2>9 DEF T!IsDate, date
<1>7. CASE d + n > length
  <2>1. PICK nextY, nextMo : nextY = (IF mo = 12 THEN y + 1 ELSE y)
                             /\ nextMo = (IF mo = 12 THEN 1 ELSE mo + 1)
        OBVIOUS
  <2>2. d + n # 0
        BY <1>2, <1>7
  <2>3. date = [y |-> nextY, mo |-> nextMo, d |-> 1]
        BY <1>7, <2>1, <2>2 DEF T!Neighbour
  <2>4. date.y = nextY /\ date.mo = nextMo /\ date.d = 1
        BY <2>3
  <2>5. nextY \in Nat /\ nextMo \in 1 .. 12
        BY <1>1, <2>1
  <2>6. 1 \in 1 .. T!Length(nextY, nextMo)
    <3>1. T!Length(nextY, nextMo) \in 28 .. 31
          BY LengthOfMonth
    <3> QED BY <3>1
  <2>7. T!Days(nextY, nextMo, 1) = T!Days(y, mo, 1) + length
    <3>1. CASE mo = 12
          BY <1>1, <2>1, <3>1, NextMonth
    <3>2. CASE mo # 12
          BY <1>1, <2>1, <3>2, NextMonth
    <3> QED BY <3>1, <3>2
  <2>8. d = length /\ n = 1
        BY <1>1, <1>2, <1>7
  <2>9. T!Days(nextY, nextMo, 1) = T!Days(y, mo, d) + n
        BY <2>7, <2>8, <1>2, <1>3, <1>4
  <2> HIDE DEF date
  <2> QED BY <2>4, <2>5, <2>6, <2>9 DEF T!IsDate, date
<1>8. d + n \in 1 .. length \/ d + n = 0 \/ d + n > length
      BY <1>1, <1>2
<1> QED BY <1>5, <1>6, <1>7, <1>8

\* A timestamp moved to any zone up to a day away parses to the same instant, on
\* whichever side of a month's or a year's end it is there.
THEOREM OneInstantInAllZones ==
  ASSUME NEW t \in T!Fields, NEW m \in Int, -1440 <= m, m <= 1440
  PROVE  T!ZonesAgree(t, m)
<1> DEFINE Moved(date, h, mi, sign, oh, om) ==
             [y |-> date.y, mo |-> date.mo, d |-> date.d, h |-> h, mi |-> mi,
              sec |-> t.sec, sign |-> sign, oh |-> oh, om |-> om]
           Sign(z) == IF z < 0 THEN -1 ELSE 1
           Far(z) == IF z < 0 THEN -z ELSE z
<1>1. PICK local : local = t.h * 60 + t.mi + m
      OBVIOUS
<1>2. PICK z : z = t.sign * (t.oh * 60 + t.om) + m
      OBVIOUS
<1> DEFINE date == T!Neighbour(t.y, t.mo, t.d, local \div 1440)
           moved == Moved(date, (local % 1440) \div 60, local % 60, Sign(z),
                          Far(z) \div 60, Far(z) % 60)
<1>3. SUFFICES ASSUME T!ParseRfc3339(t) # Absent, T!IsDate(t.y, t.mo, t.d),
                      date.y \in Nat
               PROVE  T!ParseRfc3339(moved) = T!ParseRfc3339(t)
      BY <1>1, <1>2 DEF T!ZonesAgree
<1>4. T!InCalendar(t)
      BY <1>3 DEF T!ParseRfc3339
<1>5. /\ t.y \in Nat /\ t.mo \in 1 .. 12 /\ t.d \in Nat /\ t.h \in Nat
      /\ t.mi \in Nat /\ t.sec \in Nat /\ t.sign \in {-1, 1}
      /\ t.oh \in Nat /\ t.om \in Nat
      BY <1>4 DEF T!InCalendar, T!Fields
<1> HIDE DEF date
<1>7. local \in Int /\ z \in Int /\ z - m \in Int /\ T!Offset(t) = 60 * (z - m)
      BY <1>1, <1>2, <1>5 DEF T!Offset
<1>8. PICK q \in Int : q = local \div 1440
      BY <1>7
<1>9. PICK r \in 0 .. 1439 : r = local % 1440
      BY <1>7
<1>10. local = 1440 * q + r /\ local % 60 = r % 60
      BY <1>7, <1>8, <1>9, MinutesOfDay
<1>11. PICK h \in 0 .. 23 : h = r \div 60
       BY HoursAndMinutes
<1>12. PICK mi \in 0 .. 59 : mi = r % 60
       BY HoursAndMinutes
<1>13. r = 60 * h + mi
       BY <1>11, <1>12, HoursAndMinutes
<1>14. PICK far \in Nat : far = Far(z)
       BY <1>7
<1>15. PICK oh \in Nat : oh = far \div 60
       BY HoursAndMinutes
<1>16. PICK om \in Nat : om = far % 60
       BY HoursAndMinutes
<1>17. far = 60 * oh + om
       BY <1>15, <1>16, HoursAndMinutes
<1>18. PICK sign \in {-1, 1} : sign = Sign(z)
       OBVIOUS
<1>19. /\ T!IsDate(date.y, date.mo, date.d)
       /\ T!Days(date.y, date.mo, date.d) = T!Days(t.y, t.mo, t.d) + q
  <2>1. q \in -1 .. 1
    <3>1. t.h <= 23 /\ t.mi <= 59
          BY <1>4 DEF T!InCalendar
    <3>2. t.h * 60 + t.mi + m = 1440 * q + r
          BY <1>1, <1>10
    <3>3. m \in Int /\ -1440 <= m /\ m <= 1440 /\ r \in Int /\ 0 <= r /\ r <= 1439
          OBVIOUS
    <3>4. t.h \in Nat /\ t.mi \in Nat
          BY <1>5
    <3> QED BY <3>1, <3>2, <3>3, <3>4, DayAway
  <2>2. date = T!Neighbour(t.y, t.mo, t.d, q)
        BY <1>8 DEF date
  <2>3. T!Neighbour(t.y, t.mo, t.d, q).y \in Nat
        BY <2>2, <1>3
  <2> QED BY <2>1, <2>2, <2>3, <1>3, NeighbourIsNear
<1>20. moved = Moved(date, h, mi, sign, oh, om)
  <2>1. local % 60 = mi /\ (local % 1440) \div 60 = h
        BY <1>9, <1>10, <1>11, <1>12
  <2> HIDE DEF Moved, Sign, Far
  <2> QED BY <2>1, <1>14, <1>15, <1>16, <1>18
<1> HIDE DEF moved
<1>21. /\ moved.y = date.y /\ moved.mo = date.mo /\ moved.d = date.d
       /\ moved.h = h /\ moved.mi = mi /\ moved.sec = t.sec
       /\ moved.sign = sign /\ moved.oh = oh /\ moved.om = om
       BY <1>20
<1>22. moved \in T!Fields /\ T!InCalendar(moved)
  <2>1. date.y \in Nat /\ date.mo \in 1 .. 12 /\ date.d \in 1 .. 31
    <3>1. T!Length(date.y, date.mo) \in 28 .. 31
          BY LengthOfMonth
    <3> QED BY <3>1, <1>19 DEF T!IsDate
  <2>2. moved \in T!Fields
        BY <2>1, <1>5, <1>20 DEF T!Fields
  <2>3. t.sec <= 60
        BY <1>4 DEF T!InCalendar
  <2> QED BY <2>1, <2>2, <2>3, <1>21 DEF T!InCalendar
<1>24. T!Offset(moved) = 60 * z
  <2>1. sign * (oh * 3600 + om * 60) = 60 * z
        BY <1>7, <1>14, <1>17, <1>18
  <2> QED BY <2>1, <1>21 DEF T!Offset
<1>25. PICK days \in Int : /\ T!Days(t.y, t.mo, t.d) = days
                           /\ T!Days(date.y, date.mo, date.d) = days + q
  <2>1. PICK y \in Nat, mo \in 1 .. 12, d \in Nat : y = t.y /\ mo = t.mo /\ d = t.d
        BY <1>5
  <2>2. T!Days(y, mo, d) \in Int
        BY DEF T!Days
  <2> QED BY <2>1, <2>2, <1>19
<1>26. PICK secs \in Int : secs = 60 * (60 * h + mi - z) + t.sec
       BY <1>5, <1>7
<1>27. T!ParseRfc3339(moved) = T!Instant(days + q, secs)
       BY <1>7, <1>21, <1>22, <1>24, <1>25, <1>26, ParseOfSound
<1>28. T!ParseRfc3339(t) = T!Instant(days, secs + 86400 * q)
  <2>1. T!ParseRfc3339(t) = T!Instant(days, 60 * (60 * t.h + t.mi - (z - m)) + t.sec)
        BY <1>4, <1>7, <1>25, ParseOfSound
  <2>2. t.h * 60 + t.mi + m = 1440 * q + (60 * h + mi)
        BY <1>1, <1>10, <1>13
  <2>3. 60 * (60 * t.h + t.mi - (z - m)) + t.sec = secs + 86400 * q
        BY <2>2, <1>5, <1>7, <1>26, MovedSeconds
  <2> QED BY <2>1, <2>3
<1>29. T!Instant(days + q, secs) = T!Instant(days, secs + 86400 * q)
       BY InstantShifts
<1>30. T!ParseRfc3339(moved) = T!Instant(days, secs + 86400 * q)
       BY <1>27, <1>29
<1>31. T!ParseRfc3339(moved) = T!ParseRfc3339(t)
       BY <1>28, <1>30
<1> QED BY <1>31

\* Every timestamp given has one instant in every zone given.
THEOREM ZonesHold == PureSpec => []Zones
<1>1. Given => Zones
  <2> SUFFICES ASSUME Given, Of("time"), NEW m \in Shifts
               PROVE  T!ZonesAgree(input[2], m)
      BY DEF Zones
  <2>1. input[2] \in T!Fields
        BY StampAssumption DEF Given
  <2>2. m \in Int /\ -1440 <= m /\ m <= 1440
        BY StampAssumption
  <2> QED BY <2>1, <2>2, OneInstantInAllZones
<1> QED BY <1>1, InputIsGiven, PTL

-----------------------------------------------------------------------------
(* Entitlements *)

LEMMA ProductsOrdered ==
  ASSUME NEW a \in Int, NEW b \in Int, NEW u \in Nat
  PROVE  /\ a <= b => a * u <= b * u
         /\ a * u < b * u => a < b
BY SMT

LEMMA Quotient ==
  ASSUME NEW h \in Int, NEW u \in Nat \ {0}
  PROVE  /\ h \div u \in Int /\ (h \div u) * u \in Int
         /\ (h \div u) * u <= h /\ h < (h \div u) * u + u
BY SMT

\* There is a spacing of floats for every number within the range of Signed.
LEMMA UlpExists ==
  ASSUME NEW h \in Int, NEW m \in Nat, -8192 * m <= h, h <= 8192 * m
  PROVE  \E u \in E!Ulps :
           /\ h <= (2 * m) * u /\ -h <= (2 * m) * u
           /\ u # 1 => h > (2 * m) * (u \div 2) \/ -h > (2 * m) * (u \div 2)
BY SMT DEF E!Ulps

\* A float of some size is as large as what it stands for, up to the power of two
\* below: rounding passes none, in either direction.
LEMMA Rounding ==
  ASSUME NEW h \in Int, -4096 * MaxExact <= h, h <= 4096 * MaxExact
  PROVE  \E u \in E!Ulps :
           /\ h <= MaxExact * u /\ -h <= MaxExact * u /\ E!AsFloat(h) \in Int
           /\ u = 1 \/ h = MaxExact * u => E!AsFloat(h) = h
           /\ u # 1 => \/ /\ h > MaxExact * (u \div 2)
                          /\ E!AsFloat(h) >= MaxExact * (u \div 2)
                       \/ /\ -h > MaxExact * (u \div 2)
                          /\ E!AsFloat(h) <= -(MaxExact * (u \div 2))
<1>1. PICK m \in Nat : MaxExact = 2 * m
  <2>1. MaxExact \in Nat /\ MaxExact % 2 = 0
        BY EntitlementAssumption
  <2>2. MaxExact \div 2 \in Nat /\ MaxExact = 2 * (MaxExact \div 2)
        BY <2>1, SMT
  <2> QED BY <2>2
<1> DEFINE P(v) == /\ h <= MaxExact * v /\ -h <= MaxExact * v
                   /\ v # 1 => h > MaxExact * (v \div 2) \/ -h > MaxExact * (v \div 2)
<1>2. \E v \in E!Ulps : P(v)
  <2>1. -8192 * m <= h /\ h <= 8192 * m
        BY <1>1
  <2> QED BY <2>1, <1>1, UlpExists
<1>3. PICK u \in E!Ulps : u = E!Ulp(h) /\ P(u)
      BY <1>2 DEF E!Ulp
<1>4. u \in Nat \ {0} /\ (u # 1 => 2 * (u \div 2) = u)
      BY SMT DEF E!Ulps
<1>5. PICK k \in Int : k = h \div u
      BY <1>4, Quotient
<1>6. PICK below \in Int : below = k * u /\ below <= h /\ h < below + u
      BY <1>4, <1>5, Quotient
<1>7. E!AsFloat(h) \in {below, below + u}
      BY <1>3, <1>5, <1>6 DEF E!AsFloat
<1>8. CASE u = 1
  <2>1. below = h
        BY <1>6, <1>8
  <2>2. E!AsFloat(h) = h
        BY <1>3, <1>5, <1>6, <1>8, <2>1 DEF E!AsFloat
  <2> QED BY <1>3, <1>8, <2>2
<1>9. ASSUME h = MaxExact * u PROVE E!AsFloat(h) = h
  <2>1. k * u <= (2 * m) * u /\ (2 * m) * u < (k + 1) * u
        BY <1>1, <1>4, <1>6, <1>9, SMT
  <2>2. 2 * m < k + 1
        BY <2>1, <1>4, ProductsOrdered
  <2>3. (2 * m) * u <= k * u
        BY <2>2, <1>4, ProductsOrdered
  <2>4. below = h
        BY <2>1, <2>3, <1>1, <1>4, <1>6, <1>9, SMT
  <2> QED BY <2>4, <1>3, <1>4, <1>5, <1>6 DEF E!AsFloat
<1>10. CASE u # 1
  <2>1. MaxExact * (u \div 2) = m * u
        BY <1>1, <1>4, <1>10, SMT
  <2>2. CASE h > MaxExact * (u \div 2)
    <3>1. m * u < (k + 1) * u
          BY <1>4, <1>6, <2>1, <2>2, SMT
    <3>2. m <= k
          BY <3>1, <1>4, ProductsOrdered
    <3>3. m * u <= below
          BY <3>2, <1>4, <1>6, ProductsOrdered
    <3>4. E!AsFloat(h) \in Int /\ E!AsFloat(h) >= m * u
          BY <3>3, <1>4, <1>7
    <3> QED BY <3>4, <2>1, <2>2, <1>3, <1>10, <1>9
  <2>3. CASE -h > MaxExact * (u \div 2)
    <3>1. k * u < (-m) * u
          BY <1>4, <1>6, <2>1, <2>3, SMT
    <3>2. k + 1 <= -m
          BY <3>1, <1>4, ProductsOrdered
    <3>3. below + u <= -(m * u)
      <4>1. (k + 1) * u <= (-m) * u
            BY <3>2, <1>4, ProductsOrdered
      <4>2. (k + 1) * u = below + u /\ (-m) * u = -(m * u)
            BY <1>4, <1>6, SMT
      <4> QED BY <4>1, <4>2
    <3>4. E!AsFloat(h) \in Int /\ E!AsFloat(h) <= -(m * u)
          BY <3>3, <1>4, <1>7
    <3> QED BY <3>4, <2>1, <2>3, <1>3, <1>10, <1>9
  <2> QED BY <2>2, <2>3, <1>3, <1>10
<1> QED BY <1>8, <1>10

\* Whatever was signed reads as a value or as nothing.
LEMMA DecodeTyped ==
  ASSUME NEW v \in E!Signed
  PROVE  E!Decode(v) \in E!Values \cup {Absent}
<1>1. /\ v \in E!Values /\ E!Halves(v) \in Int
      /\ -4096 * MaxExact <= E!Halves(v) /\ E!Halves(v) <= 4096 * MaxExact
      BY DEF E!Signed, E!Values, E!Halves
<1>2. E!AsFloat(E!Halves(v)) \in Int
      BY <1>1, Rounding
<1>3. \A h \in Int : E!Narrow(h) \in E!Values \cup {Absent}
      BY DEF E!Narrow, E!Values
<1>4. E!DecodeNumber(v) \in E!Values \cup {Absent}
      BY <1>1, <1>2, <1>3 DEF E!DecodeNumber, E!Values
<1> QED BY <1>1, <1>4 DEF E!Decode

\* What a claim of signed values reads as: each value by itself, and never one of
\* the marks for "no such thing".
LEMMA ClaimRead ==
  ASSUME NEW D \in SUBSET Names, NEW claim \in [D -> E!Signed]
  PROVE  LET ent == E!DecodeEntitlements(claim)
         IN /\ claim # Absent /\ claim # NotObject /\ ent # Absent /\ ent # NotObject
            /\ \A k : E!Get(ent, k) = IF k \in D THEN E!Decode(claim[k]) ELSE Absent
<1> DEFINE Kept == {x \in D : E!Decode(claim[x]) # Absent}
           read == [x \in Kept |-> E!Decode(claim[x])]
<1>1. \A C \in SUBSET Names :
        Absent \notin [C -> E!Values] /\ NotObject \notin [C -> E!Values]
      BY EntitlementAssumption
<1>2. claim \in [D -> E!Values]
      BY DEF E!Signed
<1>3. claim # Absent /\ claim # NotObject
      BY <1>1, <1>2
<1>4. Kept \in SUBSET Names /\ read \in [Kept -> E!Values]
      BY DecodeTyped
<1>5. DOMAIN claim = D /\ E!DecodeEntitlements(claim) = read
      BY <1>3 DEF E!DecodeEntitlements
<1>6. read # Absent /\ read # NotObject
  <2> HIDE DEF read, Kept
  <2> QED BY <1>1, <1>4
<1>7. \A k : E!Get(read, k) = IF k \in D THEN E!Decode(claim[k]) ELSE Absent
      BY <1>6 DEF E!Get
<1> HIDE DEF read
<1> QED BY <1>3, <1>5, <1>6, <1>7

\* Rounding takes no number into the range of an i64 from outside, but for those
\* it takes to the least integer, and no other number to minus one.
LEMMA RoundedOutside ==
  ASSUME NEW h \in Int, -4096 * MaxExact <= h, h <= 4096 * MaxExact
  PROVE  /\ E!AsFloat(h) \in Int
         /\ h >= 2 * (MaxInt + 1) => E!AsFloat(h) >= 2 * (MaxInt + 1)
         /\ h < -2 * (MaxInt + 1) => E!AsFloat(h) <= -2 * (MaxInt + 1)
         /\ E!AsFloat(h) = -2 <=> h = -2
<1>1. /\ MaxInt \in Nat /\ MaxExact \in Nat /\ MaxExact > 2
      BY EntitlementAssumption
<1>2. PICK bound \in E!Ulps : 2 * (MaxInt + 1) = MaxExact * bound
  <2>1. PICK u \in E!Ulps : 2 * (MaxInt + 1) = u * MaxExact
        BY EntitlementAssumption
  <2>2. u \in Nat
        BY DEF E!Ulps
  <2> QED BY <2>1, <2>2, <1>1, SMT
<1>3. PICK u \in E!Ulps :
        /\ h <= MaxExact * u /\ -h <= MaxExact * u /\ E!AsFloat(h) \in Int
        /\ u = 1 \/ h = MaxExact * u => E!AsFloat(h) = h
        /\ u # 1 => \/ /\ h > MaxExact * (u \div 2)
                       /\ E!AsFloat(h) >= MaxExact * (u \div 2)
                    \/ /\ -h > MaxExact * (u \div 2)
                       /\ E!AsFloat(h) <= -(MaxExact * (u \div 2))
      BY Rounding
<1>4. PICK half \in Nat : /\ half = u \div 2 /\ (u # 1 => half >= 1)
                          /\ (bound < u => bound <= half)
      BY SMT DEF E!Ulps
<1>5. u \in Nat /\ bound \in Nat
      BY DEF E!Ulps
<1>6. PICK top \in Nat : top = MaxExact * half
      BY <1>1, SMT
<1>7. /\ bound < u => MaxExact * bound <= top
      /\ u # 1 => MaxExact <= top
      /\ MaxExact * bound > MaxExact * u => u < bound
      /\ MaxExact * u < MaxExact * bound \/ u >= bound
      BY <1>1, <1>4, <1>5, <1>6, SMT
<1>8. ASSUME h >= 2 * (MaxInt + 1) PROVE E!AsFloat(h) >= 2 * (MaxInt + 1)
  <2>1. u >= bound
        BY <1>1, <1>2, <1>3, <1>5, <1>7, <1>8, SMT
  <2>2. CASE u = bound
        BY <2>2, <1>1, <1>2, <1>3, <1>8, SMT
  <2>3. CASE bound < u
        BY <2>3, <1>1, <1>2, <1>3, <1>4, <1>5, <1>6, <1>7, <1>8, SMT
  <2> QED BY <2>1, <2>2, <2>3, <1>5
<1>9. ASSUME h < -2 * (MaxInt + 1) PROVE E!AsFloat(h) <= -2 * (MaxInt + 1)
  <2>1. bound < u
        BY <1>1, <1>2, <1>3, <1>5, <1>7, <1>9, SMT
  <2> QED BY <2>1, <1>1, <1>2, <1>3, <1>4, <1>5, <1>6, <1>7, <1>9, SMT
<1>10. E!AsFloat(h) = -2 <=> h = -2
  <2>1. CASE u = 1
        BY <2>1, <1>3
  <2>2. CASE u # 1
        BY <2>2, <1>1, <1>3, <1>4, <1>6, <1>7, SMT
  <2> QED BY <2>1, <2>2
<1> QED BY <1>3, <1>8, <1>9, <1>10

\* What decoding makes of a number, or of anything else.
LEMMA DecodedNumber ==
  ASSUME NEW v \in E!Signed
  PROVE  LET whole(n) == [kind |-> "int", n |-> n]
             least == -MaxInt - 1
         IN /\ v.kind = "bool" => E!Decode(v) = v
            /\ v.kind = "text" => E!Decode(v) = Absent
            /\ v.kind = "int" =>
                 E!Decode(v) = IF E!InRange(v.n) THEN whole(v.n)
                               ELSE IF E!AsFloat(2 * v.n) = 2 * least THEN whole(least)
                               ELSE Absent
            /\ v.kind = "float" =>
                 /\ E!AsFloat(v.n) = v.n =>
                      E!Decode(v) = IF v.n % 2 = 0 /\ E!InRange(v.n \div 2)
                                    THEN whole(v.n \div 2) ELSE Absent
                 /\ E!Decode(v) = whole(-1) <=> v.n = -2
                 /\ E!Decode(v) = Absent \/ \E n \in Int : E!Decode(v) = whole(n)
<1>1. /\ v.kind \in {"int", "float", "bool", "text"} /\ v.n \in Int
      /\ E!Halves(v) \in Int
      /\ -4096 * MaxExact <= E!Halves(v) /\ E!Halves(v) <= 4096 * MaxExact
      BY DEF E!Signed, E!Values, E!Halves
<1>2. MaxInt \in Nat \ {0} /\ Absent \notin E!Values
      BY EntitlementAssumption
<1>3. \A n \in Int : [kind |-> "int", n |-> n] # Absent
      BY <1>2 DEF E!Values
<1>4. PICK h \in Int : h = E!Halves(v)
      BY <1>1
<1>5. PICK f \in Int :
        /\ f = E!AsFloat(h) /\ (f = -2 <=> h = -2)
        /\ h >= 2 * (MaxInt + 1) => f >= 2 * (MaxInt + 1)
        /\ h < -2 * (MaxInt + 1) => f <= -2 * (MaxInt + 1)
      BY <1>1, <1>4, RoundedOutside
<1>6. CASE v.kind \in {"bool", "text"}
      BY <1>6 DEF E!Decode
<1>7. CASE v.kind = "int"
  <2>1. h = 2 * v.n
        BY <1>4, <1>7 DEF E!Halves
  <2>2. CASE E!InRange(v.n)
        BY <2>2, <1>7 DEF E!Decode, E!DecodeNumber
  <2>3. CASE ~E!InRange(v.n)
    <3>1. E!Decode(v) = E!Narrow(f)
          BY <2>3, <1>4, <1>5, <1>7 DEF E!Decode, E!DecodeNumber
    <3>2. f >= 2 * (MaxInt + 1) \/ f <= -2 * (MaxInt + 1)
          BY <2>1, <2>3, <1>1, <1>2, <1>5 DEF E!InRange
    <3>3. f % 2 = 0 /\ E!InRange(f \div 2) <=> f = 2 * (-MaxInt - 1)
          BY <3>2, <1>2, SMT DEF E!InRange
    <3>4. f = 2 * (-MaxInt - 1) => f \div 2 = -MaxInt - 1
          BY <1>2, SMT
    <3>5. E!Narrow(f) = IF f = 2 * (-MaxInt - 1) THEN [kind |-> "int", n |-> -MaxInt - 1]
                        ELSE Absent
          BY <3>3, <3>4 DEF E!Narrow
    <3> QED BY <3>1, <3>5, <2>1, <2>3, <1>5, <1>7
  <2> QED BY <2>2, <2>3
<1>8. CASE v.kind = "float"
  <2>1. h = v.n /\ E!Decode(v) = E!Narrow(f)
        BY <1>4, <1>5, <1>8 DEF E!Decode, E!DecodeNumber, E!Halves
  <2>2. f \div 2 \in Int /\ (f % 2 = 0 /\ f \div 2 = -1 <=> f = -2)
        BY SMT
  <2>3. E!Narrow(f) = [kind |-> "int", n |-> -1] <=> f = -2
    <3>1. E!InRange(-1)
          BY <1>2 DEF E!InRange
    <3>2. \A n \in Int : [kind |-> "int", n |-> n] = [kind |-> "int", n |-> -1] <=> n = -1
          OBVIOUS
    <3> QED BY <3>1, <3>2, <2>2, <1>3 DEF E!Narrow
  <2>4. E!Narrow(f) = Absent \/ \E n \in Int : E!Narrow(f) = [kind |-> "int", n |-> n]
        BY <2>2 DEF E!Narrow
  <2>5. E!AsFloat(v.n) = v.n => f = v.n
        BY <2>1, <1>5
  <2> QED BY <2>1, <2>3, <2>4, <2>5, <1>5, <1>8 DEF E!Narrow
<1> QED BY <1>1, <1>6, <1>7, <1>8

\* A bad value reads as nothing.
LEMMA BadReadsAsNothing ==
  ASSUME NEW v \in E!Signed, E!Bad(v)
  PROVE  E!Decode(v) = Absent
<1>1. CASE v.kind = "text"
      BY <1>1, DecodedNumber
<1>2. CASE v.kind = "float"
      BY <1>2, DecodedNumber DEF E!Bad
<1>3. CASE v.kind = "int"
      BY <1>3, DecodedNumber DEF E!Bad
<1> QED BY <1>1, <1>2, <1>3 DEF E!Bad

\* What a host is told of a name that is not signed, or reads as nothing.
LEMMA NothingIsNoGrant ==
  ASSUME NEW ent, NEW k, E!Get(ent, k) = Absent
  PROVE  ~E!Can(ent, k) /\ E!Limit(ent, k) = Absent
<1>1. Absent # 1
      BY ChainAssumption
<1> QED BY <1>1 DEF E!Can, E!Limit, E!AsBool, E!AsInt

\* One bad value costs that value alone and reads as none, in every claim of any
\* number of names.
THEOREM BadValueAlone ==
  ASSUME NEW claim,
         claim \in {Absent, NotObject}
           \/ \E D \in SUBSET Names : claim \in [D -> E!Signed],
         NEW k \in Names
  PROVE  E!EachAlone(claim, k)
<1>1. CASE claim \in {Absent, NotObject}
  <2>1. E!DecodeEntitlements(claim) = Absent
        BY <1>1 DEF E!DecodeEntitlements
  <2>2. E!Get(Absent, k) = Absent
        BY DEF E!Get
  <2>3. ~E!Can(Absent, k) /\ E!Limit(Absent, k) = Absent
        BY <2>2, NothingIsNoGrant
  <2> QED BY <2>1, <2>3, <1>1 DEF E!EachAlone, E!HasEntitlements
<1>2. CASE claim \notin {Absent, NotObject}
  <2>1. PICK D \in SUBSET Names : claim \in [D -> E!Signed]
        BY <1>2
  <2> DEFINE Only(names) == [x \in D \cap names |-> claim[x]]
             Read(names) == E!Get(E!DecodeEntitlements(Only(names)), k)
             ent == E!DecodeEntitlements(claim)
             alone == E!DecodeEntitlements(Only({k}))
             none == E!DecodeEntitlements(Only({}))
  <2>2. ASSUME NEW names
        PROVE  Read(names) = IF k \in D \cap names THEN E!Decode(claim[k]) ELSE Absent
    <3> DEFINE part == Only(names)
    <3>1. D \cap names \in SUBSET Names /\ part \in [D \cap names -> E!Signed]
          BY <2>1
    <3>2. k \in D \cap names => part[k] = claim[k]
          OBVIOUS
    <3> HIDE DEF part
    <3>3. E!Get(E!DecodeEntitlements(part), k)
            = IF k \in D \cap names THEN E!Decode(part[k]) ELSE Absent
          BY <3>1, ClaimRead
    <3> QED BY <3>2, <3>3 DEF part
  <2>3. /\ ent # Absent
        /\ E!Get(ent, k) = IF k \in D THEN E!Decode(claim[k]) ELSE Absent
        BY <2>1, ClaimRead
  <2>4. E!Get(ent, k) = E!Get(alone, k)
        BY <2>2, <2>3
  <2>5. E!Get(none, k) = Absent
        BY <2>2
  <2>6. k \in D /\ E!Bad(claim[k]) => E!Get(ent, k) = E!Get(none, k)
    <3>1. k \in D => claim[k] \in E!Signed
          BY <2>1
    <3> QED BY <3>1, <2>3, <2>5, BadReadsAsNothing
  <2>7. DOMAIN claim = D
        BY <2>1
  <2> HIDE DEF ent, alone, none
  <2> DEFINE Same(other) == /\ E!Can(ent, k) = E!Can(other, k)
                            /\ E!Limit(ent, k) = E!Limit(other, k)
  <2>8. Same(alone) /\ (k \in D /\ E!Bad(claim[k]) => Same(none))
        BY <2>4, <2>6 DEF E!Can, E!Limit
  <2>9. ~E!Can(none, k) /\ E!Limit(none, k) = Absent
        BY <2>5, NothingIsNoGrant
  <2>10. E!HasEntitlements(ent) <=> claim \notin {Absent, NotObject}
        BY <1>2, <2>3 DEF E!HasEntitlements
  <2> QED BY <1>2, <2>7, <2>8, <2>9, <2>10 DEF E!EachAlone, ent, alone, none
<1> QED BY <1>1, <1>2

\* Of the given claims, none costs a host more than its own bad values.
THEOREM BadValuesStayAlone == PureSpec => []BadValues
<1>1. Given => BadValues
  <2> SUFFICES ASSUME Given, Of("claim"), NEW k \in Names
               PROVE  E!EachAlone(input[2], k)
      BY DEF BadValues
  <2>1. input[2] \in EntClaims
        BY DEF Given
  <2>2. \/ input[2] \in {Absent, NotObject}
        \/ \E D \in SUBSET Names : input[2] \in [D -> E!Signed]
        BY <2>1, EntitlementAssumption
  <2> QED BY <2>2, BadValueAlone
<1> QED BY <1>1, InputIsGiven, PTL

\* A limit is the number that was signed, or nothing, at every size of an i64 and
\* of a float: no value becomes another limit, or an unlimited one.
THEOREM LimitIsAsSigned ==
  ASSUME NEW v \in E!Signed
  PROVE  E!LimitsExact(v)
<1> DEFINE ent == E!DecodeEntitlements([x \in {"seats"} |-> v])
           n == E!Limit(ent, "seats")
           read == E!Decode(v)
<1>1. E!Get(ent, "seats") = read
  <2>1. {"seats"} \in SUBSET Names /\ [x \in {"seats"} |-> v] \in [{"seats"} -> E!Signed]
        BY EntitlementAssumption
  <2> DEFINE claim == [x \in {"seats"} |-> v]
  <2>2. claim["seats"] = v
        OBVIOUS
  <2> HIDE DEF claim
  <2>3. E!Get(E!DecodeEntitlements(claim), "seats") = E!Decode(claim["seats"])
        BY <2>1, ClaimRead DEF claim
  <2> QED BY <2>2, <2>3 DEF claim
<1>2. /\ v.kind \in {"int", "float", "bool", "text"} /\ v.n \in Int
      BY DEF E!Signed, E!Values
<1>3. Absent \notin E!Values /\ Absent \notin Int
      BY EntitlementAssumption, ChainAssumption
<1>4. v # Absent /\ \A i \in Int : [kind |-> "int", n |-> i] # Absent
      BY <1>3 DEF E!Values, E!Signed
<1> HIDE DEF ent
<1>5. /\ n = E!AsInt(read)
      /\ E!IsUnlimited(E!Get(ent, "seats")) <=> E!AsInt(read) = -1
      BY <1>1 DEF E!Limit, E!IsUnlimited
<1>6. E!Can(ent, "seats") <=> E!AsBool(read) = 1
      BY <1>1 DEF E!Can
<1>7. v.kind \in {"int", "float"}
        => read = Absent \/ \E i \in Int : read = [kind |-> "int", n |-> i]
  <2>1. -MaxInt - 1 \in Int
        BY EntitlementAssumption
  <2> QED BY <2>1, <1>2, DecodedNumber
<1>8. E!AsBool(read) = 1 <=> v.kind = "bool" /\ v.n = 1
  <2>1. CASE v.kind = "bool"
    <3>1. read = v
          BY <2>1, DecodedNumber
    <3> QED BY <3>1, <2>1, <1>3, <1>4 DEF E!AsBool
  <2>2. CASE v.kind # "bool"
    <3>1. read = Absent \/ \E i \in Int : read = [kind |-> "int", n |-> i]
          BY <2>2, <1>2, <1>7, DecodedNumber
    <3>2. E!AsBool(read) = Absent
          BY <3>1 DEF E!AsBool
    <3> QED BY <3>2, <2>2, <1>3
  <2> QED BY <2>1, <2>2
<1>9. ASSUME v.kind = "int"
      PROVE  /\ E!AsInt(read) = -1 <=> v.n = -1
             /\ IF E!InRange(v.n) THEN n = v.n
                ELSE IF E!AsFloat(2 * v.n) = 2 * (-MaxInt - 1) THEN n = -MaxInt - 1
                ELSE n = Absent
  <2>1. MaxInt \in Nat \ {0}
        BY EntitlementAssumption
  <2>2. read = IF E!InRange(v.n) THEN [kind |-> "int", n |-> v.n]
               ELSE IF E!AsFloat(2 * v.n) = 2 * (-MaxInt - 1)
               THEN [kind |-> "int", n |-> -MaxInt - 1] ELSE Absent
        BY <1>9, DecodedNumber
  <2>3. \A i \in Int : E!AsInt([kind |-> "int", n |-> i]) = i
        BY <1>4 DEF E!AsInt
  <2>4. E!AsInt(Absent) = Absent
        BY DEF E!AsInt
  <2> HIDE DEF read, n
  <2>5. n = IF E!InRange(v.n) THEN v.n
            ELSE IF E!AsFloat(2 * v.n) = 2 * (-MaxInt - 1) THEN -MaxInt - 1 ELSE Absent
        BY <2>1, <2>2, <2>3, <2>4, <1>2, <1>5
  <2>6. n = -1 <=> v.n = -1
    <3>1. E!InRange(-1) /\ -MaxInt - 1 # -1 /\ Absent # -1
          BY <2>1, <1>3 DEF E!InRange
    <3> QED BY <3>1, <2>5
  <2> QED BY <2>5, <2>6, <1>5
<1>10. ASSUME v.kind = "float"
       PROVE  /\ E!AsInt(read) = -1 <=> v.n = -2
              /\ E!AsFloat(v.n) = v.n =>
                   IF v.n % 2 = 0 /\ E!InRange(v.n \div 2)
                   THEN 2 * n = v.n ELSE n = Absent
  <2>1. /\ E!AsFloat(v.n) = v.n =>
             read = IF v.n % 2 = 0 /\ E!InRange(v.n \div 2)
                    THEN [kind |-> "int", n |-> v.n \div 2] ELSE Absent
        /\ read = [kind |-> "int", n |-> -1] <=> v.n = -2
        BY <1>10, DecodedNumber
  <2>2. \A i \in Int : E!AsInt([kind |-> "int", n |-> i]) = i
        BY <1>4 DEF E!AsInt
  <2>3. E!AsInt(Absent) = Absent /\ Absent # -1
        BY <1>3 DEF E!AsInt
  <2>4. read = Absent \/ \E i \in Int : read = [kind |-> "int", n |-> i]
        BY <1>7, <1>10
  <2>5. v.n \div 2 \in Int /\ (v.n % 2 = 0 => 2 * (v.n \div 2) = v.n)
        BY <1>2
  <2> HIDE DEF read, n
  <2>6. E!AsInt(read) = -1 <=> v.n = -2
    <3>1. E!AsInt(read) = -1 <=> read = [kind |-> "int", n |-> -1]
          BY <2>2, <2>3, <2>4
    <3> QED BY <3>1, <2>1
  <2>7. ASSUME E!AsFloat(v.n) = v.n
        PROVE  IF v.n % 2 = 0 /\ E!InRange(v.n \div 2) THEN 2 * n = v.n ELSE n = Absent
        BY <2>1, <2>2, <2>3, <2>5, <2>7, <1>5
  <2> QED BY <2>6, <2>7
<1> HIDE DEF n, read
<1>11. E!LimitsExact(v)
       BY <1>5, <1>6, <1>8, <1>9, <1>10 DEF E!LimitsExact, ent, n
<1> QED BY <1>11

\* Whatever numbers are given, a limit is what was signed, or nothing.
THEOREM LimitsAreAsSigned == PureSpec => []Limits
<1>1. Given => Limits
      BY LimitIsAsSigned, EntitlementAssumption DEF Given, Limits
<1> QED BY <1>1, InputIsGiven, PTL

-----------------------------------------------------------------------------
(* Setup *)

\* No two AppIDs ever share a machine ID, whatever the machines read, so a token
\* another AppID left in a shared cache file is refused.
THEOREM SharedFileSafe ==
  ASSUME NEW c1, NEW m1, NEW d1, NEW c2, NEW m2, NEW d2
  PROVE  S!SharedFileTellsApart(
           [config |-> c1, machine |-> m1, new |-> S!New(c1, m1, d1)],
           [config |-> c2, machine |-> m2, new |-> S!New(c2, m2, d2)])
<1>1. ASSUME NEW c, NEW m, NEW d, S!New(c, m, d).error = "none"
      PROVE  S!New(c, m, d).machineId.message = c.appId
      BY <1>1 DEF S!New, S!Derive, S!Protect, S!ParseAppId
<1> QED BY <1>1 DEF S!SharedFileTellsApart

LEMMA LeastNat ==
  ASSUME NEW N, N \subseteq Nat, N # {}
  PROVE  \E n \in N : \A m \in N : n <= m
<1> DEFINE R == StrictSubsetOrdering(Nat)
           I == {0 .. n : n \in N}
<1>1. IsWellFoundedOn(R, FiniteSubsetsOf(Nat))
      BY FS_StrictSubsetOrderingWellFounded
<1>2. I \subseteq FiniteSubsetsOf(Nat) /\ I # {}
  <2>1. ASSUME NEW n \in Nat PROVE 0 .. n \in FiniteSubsetsOf(Nat)
    <3>1. IsFiniteSet(0 .. n) /\ 0 .. n \subseteq Nat
          BY FS_Interval
    <3> QED BY <3>1 DEF FiniteSubsetsOf
  <2> QED BY <2>1
<1>3. \E x \in I : \A y \in I : <<y, x>> \notin R
  <2> HIDE DEF R, I
  <2> QED BY <1>1, <1>2, WFMin
<1>4. PICK n \in N : \A m \in N : <<0 .. m, 0 .. n>> \notin R
      BY <1>3
<1>5. ASSUME NEW m \in N, ~(n <= m) PROVE FALSE
  <2>1. 0 .. m \subseteq 0 .. n /\ n \in 0 .. n /\ n \notin 0 .. m
        BY <1>5
  <2>2. 0 .. m \in FiniteSubsetsOf(Nat) /\ 0 .. n \in FiniteSubsetsOf(Nat)
        BY <1>2
  <2>3. <<0 .. m, 0 .. n>> \in R
        BY <2>1, <2>2 DEF StrictSubsetOrdering
  <2> QED BY <2>3, <1>4
<1> QED BY <1>5

LEMMA GreatestNat ==
  ASSUME NEW N, NEW top \in Nat, N \subseteq 0 .. top, N # {}
  PROVE  \E n \in N : \A m \in N : m <= n
<1> DEFINE B == {top - n : n \in N}
<1>1. B \subseteq Nat /\ B # {}
  <2>1. ASSUME NEW n \in N PROVE top - n \in Nat
        BY n \in 0 .. top
  <2> QED BY <2>1
<1>2. PICK b \in B : \A m \in B : b <= m
  <2> HIDE DEF B
  <2> QED BY <1>1, LeastNat
<1>3. PICK n \in N : b = top - n
      OBVIOUS
<1>4. ASSUME NEW m \in N PROVE m <= n
  <2>1. b <= top - m
        BY <1>2
  <2> QED BY <2>1, <1>3
<1> QED BY <1>4

\* What trimming leaves of a raw ID is a raw ID that is not blank, or nothing.
LEMMA TrimmedIsSolid ==
  ASSUME NEW s \in Seq(STRING), S!NonEmpty(s) # Absent
  PROVE  S!NonEmpty(s) \in Seq(STRING) /\ ~S!Blank(S!NonEmpty(s))
<1> DEFINE solid == {i \in DOMAIN s : s[i] # " "}
           First == CHOOSE i \in solid : \A j \in solid : i <= j
           Last == CHOOSE i \in solid : \A j \in solid : j <= i
<1>1. ~S!Blank(s)
      BY DEF S!NonEmpty
<1>2. solid \subseteq 1 .. Len(s) /\ solid # {} /\ Len(s) \in Nat
  <2>1. DOMAIN s = 1 .. Len(s) /\ Len(s) \in Nat
        OBVIOUS
  <2>2. solid # {}
        BY <1>1 DEF S!Blank
  <2> QED BY <2>1, <2>2
<1>3. S!NonEmpty(s) = SubSeq(s, First, Last)
      BY <1>1 DEF S!NonEmpty
<1>4. First \in solid /\ \A j \in solid : First <= j
  <2>1. \E i \in solid : \A j \in solid : i <= j
    <3> HIDE DEF solid
    <3>1. solid \subseteq Nat
          BY <1>2
    <3> QED BY <3>1, <1>2, LeastNat
  <2> HIDE DEF solid
  <2> QED BY <2>1
<1>5. Last \in solid
  <2>1. \E i \in solid : \A j \in solid : j <= i
    <3> HIDE DEF solid
    <3>1. solid \subseteq 0 .. Len(s)
          BY <1>2
    <3> QED BY <3>1, <1>2, GreatestNat
  <2> HIDE DEF solid
  <2> QED BY <2>1
<1>6. s[First] # " "
      BY <1>4
<1> HIDE DEF solid, First, Last
<1>7. PICK f \in 1 .. Len(s) : f = First /\ f \in solid /\ \A j \in solid : f <= j
      BY <1>2, <1>4
<1>8. PICK l \in 1 .. Len(s) : l = Last /\ f <= l
      BY <1>2, <1>5, <1>7
<1>9. S!NonEmpty(s) = SubSeq(s, f, l) /\ s[f] # " "
      BY <1>3, <1>6, <1>7, <1>8
<1>10. /\ SubSeq(s, f, l) \in Seq(STRING)
       /\ 1 \in DOMAIN SubSeq(s, f, l) /\ SubSeq(s, f, l)[1] = s[f]
  <2>1. \A i \in f .. l : s[i] \in STRING
    <3>1. f .. l \subseteq 1 .. Len(s)
          BY <1>2
    <3> QED BY <3>1, ElementOfSeq
  <2>2. /\ SubSeq(s, f, l) \in Seq(STRING)
        /\ Len(SubSeq(s, f, l)) = l - f + 1
        /\ \A i \in 1 .. l - f + 1 : SubSeq(s, f, l)[i] = s[f + i - 1]
        BY <2>1, <1>8, SubSeqProperties
  <2>3. 1 \in 1 .. l - f + 1 /\ f + 1 - 1 = f
        BY <1>8
  <2>4. DOMAIN SubSeq(s, f, l) = 1 .. l - f + 1
        BY <2>2
  <2> QED BY <2>2, <2>3, <2>4
<1> QED BY <1>9, <1>10 DEF S!Blank

\* Of several sources the first that has a value is taken.
LEMMA SourceIsSolid ==
  ASSUME NEW lines \in S!Sources, S!ReadSource(lines) # Absent
  PROVE  S!ReadSource(lines) \in Seq(STRING) /\ ~S!Blank(S!ReadSource(lines))
<1> DEFINE good == IF lines = Absent THEN {}
                   ELSE {i \in DOMAIN lines : /\ lines[i].mine
                                              /\ S!NonEmpty(lines[i].value) # Absent}
           at == CHOOSE i \in good : \A j \in good : i <= j
<1>1. good # {}
      BY DEF S!ReadSource
<1>2. lines # Absent
      BY <1>1
<1>3. lines \in Seq([mine : BOOLEAN, value : Seq(STRING)])
      BY <1>2 DEF S!Sources
<1>4. good \subseteq Nat
      BY <1>2, <1>3
<1>5. at \in good
  <2> HIDE DEF good
  <2>1. \E i \in good : \A j \in good : i <= j
        BY <1>1, <1>4, LeastNat
  <2> QED BY <2>1
<1>6. S!ReadSource(lines) = S!NonEmpty(lines[at].value)
      BY <1>1 DEF S!ReadSource
<1>7. lines[at].value \in Seq(STRING) /\ S!NonEmpty(lines[at].value) # Absent
  <2> HIDE DEF at
  <2>1. at \in DOMAIN lines /\ S!NonEmpty(lines[at].value) # Absent
        BY <1>2, <1>5
  <2>2. lines[at] \in [mine : BOOLEAN, value : Seq(STRING)]
    <3>1. DOMAIN lines = 1 .. Len(lines)
          BY <1>3
    <3> QED BY <3>1, <1>3, <2>1, ElementOfSeq
  <2> QED BY <2>1, <2>2
<1> HIDE DEF at
<1> QED BY <1>6, <1>7, TrimmedIsSolid

LEMMA PlatformIsSolid ==
  ASSUME NEW machine \in Seq(S!Sources), S!PlatformId(machine) # Absent
  PROVE  S!PlatformId(machine) \in Seq(STRING) /\ ~S!Blank(S!PlatformId(machine))
<1> DEFINE good == {i \in DOMAIN machine : S!ReadSource(machine[i]) # Absent}
           at == CHOOSE i \in good : \A j \in good : i <= j
<1>1. good # {} /\ good \subseteq Nat
      BY DEF S!PlatformId
<1>2. at \in good
  <2> HIDE DEF good
  <2>1. \E i \in good : \A j \in good : i <= j
        BY <1>1, LeastNat
  <2> QED BY <2>1
<1>3. S!PlatformId(machine) = S!ReadSource(machine[at])
      BY <1>1 DEF S!PlatformId
<1>4. machine[at] \in S!Sources /\ S!ReadSource(machine[at]) # Absent
  <2> HIDE DEF at
  <2> QED BY <1>2
<1> HIDE DEF at
<1> QED BY <1>3, <1>4, SourceIsSolid
\* A handle that was made has an ID derived from a raw one: what the caller gave,
\* or the platform's, which is then not blank.
LEMMA HandleHasRawId ==
  ASSUME NEW config, NEW machine \in Seq(S!Sources), NEW dir,
         config.machineId \in {Absent} \cup Seq(STRING),
         S!New(config, machine, dir).error = "none"
  PROVE  LET x == S!RawId(config.machineId, machine)
         IN /\ x \in Seq(STRING)
            /\ S!New(config, machine, dir).machineId = S!Protect(x, config.appId)
            /\ config.machineId \in {Absent, <<>>} => ~S!Blank(x)
<1> DEFINE x == S!RawId(config.machineId, machine)
<1>1. x # Absent /\ S!New(config, machine, dir).machineId = S!Protect(x, config.appId)
      BY DEF S!New, S!Derive, S!ParseAppId
<1>2. CASE config.machineId \notin {Absent, <<>>}
      BY <1>1, <1>2 DEF S!RawId
<1>3. CASE config.machineId \in {Absent, <<>>}
  <2>1. x = S!PlatformId(machine)
        BY <1>3 DEF S!RawId
  <2> HIDE DEF x
  <2>2. x \in Seq(STRING) /\ ~S!Blank(x)
        BY <1>1, <2>1, PlatformIsSolid
  <2> USE DEF x
  <2> QED BY <1>1, <2>2
<1> QED BY <1>2, <1>3

\* The keys of HMAC tell two raw IDs apart but for zero bytes at the end.
LEMMA HmacKeysTellApart ==
  ASSUME NEW x \in Seq(STRING), NEW y \in Seq(STRING), S!HmacKey(x) = S!HmacKey(y),
         NEW i \in DOMAIN x, x[i] # "0"
  PROVE  i \in DOMAIN y /\ y[i] = x[i]
<1> DEFINE Pad(s) == [j \in 1 .. Block |-> IF j <= Len(s) THEN s[j] ELSE "0"]
<1>1. /\ Len(x) \in Nat /\ DOMAIN x = 1 .. Len(x)
      /\ Len(y) \in Nat /\ DOMAIN y = 1 .. Len(y) /\ Block \in Nat
      BY HostAssumption
<1>2. CASE Len(x) > Block
  <2>1. S!HmacKey(x).hashed = TRUE /\ S!HmacKey(x).bytes = x
        BY <1>2 DEF S!HmacKey
  <2>2. Len(y) > Block
        BY <2>1 DEF S!HmacKey
  <2>3. S!HmacKey(y).bytes = y
        BY <2>2 DEF S!HmacKey
  <2> QED BY <2>1, <2>3
<1>3. CASE ~(Len(x) > Block)
  <2>1. S!HmacKey(x).hashed = FALSE /\ S!HmacKey(x).bytes = Pad(x)
        BY <1>3 DEF S!HmacKey
  <2>2. ~(Len(y) > Block)
        BY <2>1 DEF S!HmacKey
  <2>3. S!HmacKey(y).bytes = Pad(y)
        BY <2>2 DEF S!HmacKey
  <2>4. Pad(x) = Pad(y)
        BY <2>1, <2>3
  <2>5. i \in 1 .. Block /\ i <= Len(x)
        BY <1>1, <1>3
  <2>6. Pad(x)[i] = x[i] /\ Pad(y)[i] = IF i <= Len(y) THEN y[i] ELSE "0"
        BY <2>5
  <2> HIDE DEF Pad
  <2>7. x[i] = IF i <= Len(y) THEN y[i] ELSE "0"
        BY <2>4, <2>6
  <2>8. i <= Len(y)
        BY <2>7
  <2> QED BY <1>1, <2>5, <2>7, <2>8
<1> QED BY <1>2, <1>3

\* Two machines share a machine ID only if what they read, or were told, is the
\* same but for zero bytes at the end, and none that read nothing has one.
THEOREM MachinesDiffer ==
  ASSUME NEW c1, NEW m1 \in Seq(S!Sources), NEW c2, NEW m2 \in Seq(S!Sources),
         c1.machineId \in {Absent} \cup Seq(STRING),
         c2.machineId \in {Absent} \cup Seq(STRING)
  PROVE  S!MachinesTellApart(SetupOf(c1, m1), SetupOf(c2, m2))
<1> DEFINE x == S!RawId(c1.machineId, m1)
           y == S!RawId(c2.machineId, m2)
           n1 == S!New(c1, m1, "config")
           n2 == S!New(c2, m2, "config")
           Solid(raw) == {i \in DOMAIN raw : raw[i] # "0"}
<1>1. SUFFICES ASSUME n1.error = "none", n2.error = "none", n1.machineId = n2.machineId
               PROVE  /\ Solid(x) = Solid(y) /\ \A i \in Solid(x) : x[i] = y[i]
                      /\ c1.machineId \in {Absent, <<>>} => ~S!Blank(x)
      BY DEF S!MachinesTellApart, SetupOf
<1>2. /\ x \in Seq(STRING) /\ n1.machineId = S!Protect(x, c1.appId)
      /\ c1.machineId \in {Absent, <<>>} => ~S!Blank(x)
      BY <1>1, HandleHasRawId
<1>3. y \in Seq(STRING) /\ n2.machineId = S!Protect(y, c2.appId)
      BY <1>1, HandleHasRawId
<1> HIDE DEF x, y, n1, n2
<1>4. S!HmacKey(x) = S!HmacKey(y)
  <2>1. S!Protect(x, c1.appId) = S!Protect(y, c2.appId)
        BY <1>1, <1>2, <1>3
  <2>2. \A raw, appId : S!Protect(raw, appId).key = S!HmacKey(raw)
        BY DEF S!Protect
  <2> QED BY <2>1, <2>2
<1>5. \A i \in Solid(x) : i \in Solid(y) /\ x[i] = y[i]
      BY <1>2, <1>3, <1>4, HmacKeysTellApart
<1>6. \A i \in Solid(y) : i \in Solid(x)
      BY <1>2, <1>3, <1>4, HmacKeysTellApart
<1> QED BY <1>2, <1>5, <1>6

\* Of the given hosts, no two AppIDs share a machine ID, and no two raw IDs that
\* differ otherwise than in zero bytes at the end.
THEOREM InstallsStayApart == PureSpec => []InstallsApart
<1>1. Given => InstallsApart
  <2> SUFFICES ASSUME Given, Of("setup"), NEW other \in Setups
               PROVE  /\ S!SharedFileTellsApart(input[2], other)
                      /\ S!MachinesTellApart(input[2], other)
      BY DEF InstallsApart
  <2>1. PICK a \in Hosts : input[2] = SetupOf(a[1], a[2])
        BY DEF Given, Setups
  <2>2. PICK b \in Hosts : other = SetupOf(b[1], b[2])
        BY DEF Setups
  <2>3. /\ a[1].machineId \in {Absent} \cup Seq(STRING) /\ a[2] \in Seq(S!Sources)
        /\ b[1].machineId \in {Absent} \cup Seq(STRING) /\ b[2] \in Seq(S!Sources)
        BY HostAssumption
  <2>4. S!SharedFileTellsApart(SetupOf(a[1], a[2]), SetupOf(b[1], b[2]))
        BY SharedFileSafe DEF SetupOf
  <2>5. S!MachinesTellApart(SetupOf(a[1], a[2]), SetupOf(b[1], b[2]))
        BY <2>3, MachinesDiffer
  <2> QED BY <2>1, <2>2, <2>4, <2>5
<1> QED BY <1>1, InputIsGiven, PTL
=============================================================================
