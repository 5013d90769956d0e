----------------------------- MODULE Timestamps -----------------------------
(***************************************************************************)
(* parse_rfc3339 (src/src/http.rs), which reads the timestamps in answers. *)
(*                                                                         *)
(* A timestamp has its fields as numbers; a text whose fields are not      *)
(* digits in their places is Malformed.  An instant is the days and the    *)
(* seconds since 1970, the seconds of a day in 0 .. 86399.                 *)
(***************************************************************************)
EXTENDS Integers

CONSTANTS Absent, Malformed

Fields == [y : Nat, mo : Nat, d : Nat, h : Nat, mi : Nat, sec : Nat,
           sign : {-1, 1}, oh : Nat, om : Nat]

Instant(days, secs) == [day |-> days + secs \div 86400, sec |-> secs % 86400]

-----------------------------------------------------------------------------
(* Definitions named Faulty... are bugs the code could have had (README.md). *)

FaultyDays(year, mo, d) ==
  LET y == IF mo <= 2 THEN year - 1 ELSE year
      doy == (153 * ((mo + 9) % 12) + 2) \div 5 + d - 1
  IN y * 365 + y \div 4 - y \div 100 + doy - 719468

\* Days since 1970-01-01 in the proleptic Gregorian calendar.
Days(year, mo, d) ==
  LET y == IF mo <= 2 THEN year - 1 ELSE year
      era == y \div 400
      yoe == y - era * 400
      doy == (153 * ((mo + 9) % 12) + 2) \div 5 + d - 1
  IN era * 146097 + yoe * 365 + yoe \div 4 - yoe \div 100 + doy - 719468

InCalendar(t) == /\ t.mo \in 1 .. 12 /\ t.d \in 1 .. 31
                 /\ t.h <= 23 /\ t.mi <= 59 /\ t.sec <= 60

FaultyOffset(t) == t.sign * t.oh * 3600 + t.om * 60

Offset(t) == t.sign * (t.oh * 3600 + t.om * 60)

ParseRfc3339(t) ==
  IF t = Malformed THEN Absent
  ELSE IF ~InCalendar(t) THEN Absent
  ELSE Instant(Days(t.y, t.mo, t.d), t.h * 3600 + t.mi * 60 + t.sec - Offset(t))

-----------------------------------------------------------------------------
(* Properties *)

Leap(y) == y % 4 = 0 /\ (y % 100 # 0 \/ y % 400 = 0)
Length(y, mo) == IF mo = 2 THEN IF Leap(y) THEN 29 ELSE 28
                 ELSE IF mo \in {4, 6, 9, 11} THEN 30 ELSE 31

\* The closed formula counts as a calendar does: from a known day, every month is
\* as long as it is in that year, the years before 1970 and the century years
\* included, and a day the month does not have is one of the next month's.
CalendarFollowed(y, mo) ==
  LET nextY == IF mo = 12 THEN y + 1 ELSE y
      nextMo == IF mo = 12 THEN 1 ELSE mo + 1
  IN /\ Days(1970, 1, 1) = 0 /\ Days(2000, 3, 1) = 11017
     /\ Days(nextY, nextMo, 1) = Days(y, mo, 1) + Length(y, mo)
     /\ \A d \in 1 .. 31 : Days(y, mo, d) = Days(y, mo, 1) + d - 1

IsDate(y, mo, d) == y \in Nat /\ mo \in 1 .. 12 /\ d \in 1 .. Length(y, mo)

\* The date n days after a date, where n is -1, 0 or 1.
Neighbour(y, mo, d, n) ==
  IF d + n = 0
  THEN LET lastMo == IF mo = 1 THEN 12 ELSE mo - 1
           lastY == IF mo = 1 THEN y - 1 ELSE y
       IN [y |-> lastY, mo |-> lastMo, d |-> Length(lastY, lastMo)]
  ELSE IF d + n > Length(y, mo)
  THEN [y |-> IF mo = 12 THEN y + 1 ELSE y, mo |-> IF mo = 12 THEN 1 ELSE mo + 1,
        d |-> 1]
  ELSE [y |-> y, mo |-> mo, d |-> d + n]

\* One instant has one reading: written in a zone up to a day away, on the day
\* before or after where the clocks there say so, across the end of a month or a
\* year and a leap day, a timestamp parses to the same instant.
ZonesAgree(t, minutes) ==
  LET local == t.h * 60 + t.mi + minutes
      date == Neighbour(t.y, t.mo, t.d, local \div 1440)
      offset == t.sign * (t.oh * 60 + t.om) + minutes
      Far == IF offset < 0 THEN -offset ELSE offset
      moved == [y |-> date.y, mo |-> date.mo, d |-> date.d,
                h |-> (local % 1440) \div 60, mi |-> local % 60, sec |-> t.sec,
                sign |-> IF offset < 0 THEN -1 ELSE 1,
                oh |-> Far \div 60, om |-> Far % 60]
  IN IsDate(t.y, t.mo, t.d) /\ ParseRfc3339(t) # Absent /\ date.y \in Nat
     => ParseRfc3339(moved) = ParseRfc3339(t)
=============================================================================
