--------------------------- MODULE ScheduleProofs ---------------------------
(***************************************************************************)
(* When Sdk starts renewals and what they may do to the cache: for every   *)
(* host, and what more it promises to those that leave renewing to         *)
(* `check`.  For any number of threads, activations, calls and restarts.   *)
(***************************************************************************)
EXTENDS SdkProofs

\* The methods a caller's place in the code belongs to.
HostShape ==
  \A c \in Callers :
    /\ call[c].op \in Ops \cup {"none"}
    /\ pc[c] \in {"load", "fast"} => call[c].op \in {"check", "activate"}
    /\ pc[c] \in {"clock", "stamp", "note"} => call[c].op = "renew"
    /\ pc[c] \in {"accept", "save", "saving"} => call[c].op \in {"activate", "renew"}

-----------------------------------------------------------------------------
(* What a step of one thread leaves alone *)

\* A step of a caller other than the start of a renewal.
LEMMA CallerFrame ==
  ASSUME TypeOK, NEW c \in Callers, CallerStep(c), ~CheckStart(c)
  PROVE  /\ UNCHANGED <<clock, attempt, inFlight>>
         /\ pc[c] # "stamp" => lastAttempt' = lastAttempt
         /\ pc[c] # "idle"
         /\ call'[c] = call[c] \/ (call'[c] = NoCall /\ pc'[c] = "idle")
         /\ \A t \in Threads \ {c} : /\ pc'[t] = pc[t] /\ call'[t] = call[t]
                                     /\ tok'[t] = tok[t] /\ seen'[t] = seen[t]
<1>. USE ThreadKinds DEF TypeOK, Goto, Return, mutex
<1>1. CASE \/ Load(c) \/ Fast(c) \/ CheckVerdict(c)
           \/ CheckDue(c) \/ CheckSkip(c) \/ CheckFlag(c)
  BY <1>1 DEF Load, Fast, CheckVerdict, CheckDue, CheckSkip, CheckFlag
<1>2. CASE RenewClock(c) \/ RenewStamp(c) \/ RenewNote(c) \/ Accept(c)
  BY <1>2 DEF RenewClock, RenewStamp, RenewNote, Accept
<1>3. CASE Answer(c) \/ Abandon(c)
  BY <1>3 DEF Answer, AnswerOk, AnswerGarbled, AnswerRejected, AnswerError, Abandon
<1>4. CASE Receive(c) \/ ClearBegin(c) \/ ClearEnd(c) \/ SaveBegin(c) \/ SaveEnd(c)
  BY <1>4 DEF Receive, ClearBegin, ClearEnd, SaveBegin, SaveEnd
<1>5. QED
  BY <1>1, <1>2, <1>3, <1>4 DEF CallerStep

\* A step of a background renewal: only its end touches the running mark, and a
\* token it did not have comes from the server, now.
LEMMA RenewalFrame ==
  ASSUME TypeOK, NEW n \in Attempts, RenewalStep(n) \/ BackgroundPanic(n)
  PROVE  /\ UNCHANGED <<clock, attempt, lastAttempt, seen>>
         /\ pc[n] # "idle"
         /\ \A t \in Threads \ {n} : /\ pc'[t] = pc[t] /\ call'[t] = call[t]
                                     /\ tok'[t] = tok[t]
         /\ inFlight' = inFlight \/ (attempt = n /\ pc'[n] = "idle")
         /\ pc'[n] = "idle" => tok'[n] = NoToken
         /\ \/ tok'[n] = NoToken
            \/ /\ call'[n] = call[n]
               /\ tok'[n] = tok[n] \/ (tok'[n].aid = call[n].aid /\ tok'[n].iat = clock)
<1>. USE ThreadKinds DEF TypeOK, Goto, mutex
<1>1. CASE Answer(n)
  <2>1. /\ UNCHANGED <<clock, attempt, lastAttempt, seen, inFlight, call>>
        /\ pc[n] = "post" /\ pc' = [pc EXCEPT ![n] = "reply"]
    BY <1>1 DEF Answer
  <2>2. \/ tok' = tok
        \/ \E e \in Expiries, s \in Seals :
             tok' = [tok EXCEPT ![n] = [aid |-> call[n].aid, iat |-> clock,
                                        exp |-> e, seal |-> s]]
    BY <1>1 DEF Answer, AnswerOk, AnswerGarbled, AnswerRejected, AnswerError
  <2>3. /\ \A t \in Threads \ {n} : tok'[t] = tok[t]
        /\ tok'[n] = tok[n] \/ (tok'[n].aid = call[n].aid /\ tok'[n].iat = clock)
    BY <2>2
  <2>4. QED
    BY <2>1, <2>3
<1>2. CASE Abandon(n) \/ BackgroundVerify(n) \/ BackgroundStale(n)
  BY <1>2 DEF Abandon, BackgroundVerify, BackgroundStale
<1>3. CASE BackgroundRecord(n)
  BY <1>3 DEF BackgroundRecord
<1>4. CASE BackgroundWrite(n) \/ BackgroundPanic(n)
  BY <1>4 DEF BackgroundWrite, BackgroundPanic
<1>5. CASE BackgroundDrop(n)
  BY <1>5 DEF BackgroundDrop, Latest
<1>6. QED
  BY <1>1, <1>2, <1>3, <1>4, <1>5 DEF RenewalStep

\* A caller starts a renewal, or fails to.
LEMMA StartFrame ==
  ASSUME TypeInv, NEW c \in Callers, CheckStart(c)
  PROVE  LET n == attempt + 1 IN
         /\ n \in Attempts /\ c \notin Attempts /\ pc[n] = "idle"
         /\ attempt' = n /\ lastAttempt' = seen[c]
         /\ lock = Free /\ ~Running(seen[c]) /\ ~RetriedRecently(seen[c])
         /\ seen' = [seen EXCEPT ![n] = seen[c]]
         /\ UNCHANGED <<clock, cache, tok, gone>>
         /\ pc[c] = "try" /\ pc'[c] = "flag"
         /\ \A t \in Threads \ {c, n} : pc'[t] = pc[t]
         /\ \A t \in Threads \ {n} : call'[t] = call[t]
         /\ \/ inFlight' = seen[c] /\ pc'[n] = "post"
            \/ inFlight' = Never /\ pc'[n] = "idle"
<1>1. attempt + 1 \in Attempts /\ c \notin Attempts /\ pc[attempt + 1] = "idle"
  BY ThreadKinds, ConstantsAssumption DEF TypeInv, TypeOK, Shape, CheckStart, Attempts
<1>2. QED
  BY <1>1, ThreadKinds DEF TypeInv, TypeOK, CheckStart, Goto

\* Steps of no thread but those that begin a call or end the process.
LEMMA WorldFrame ==
  ASSUME LateArrival \/ Revoke \/ Tick \/ Quiescent \/ UNCHANGED vars,
         TypeOK
  PROVE  UNCHANGED <<cache, attempt, inFlight, lastAttempt, pc, call, tok, seen, gone>>
         /\ clock <= clock'
<1>. USE DEF mutex, thread, TypeOK
<1>1. CASE LateArrival
  BY <1>1 DEF LateArrival
<1>2. CASE Revoke
  BY <1>2 DEF Revoke
<1>3. CASE Tick
  BY <1>3 DEF Tick
<1>4. CASE Quiescent \/ UNCHANGED vars
  BY <1>4 DEF Quiescent, vars
<1>5. QED
  BY <1>1, <1>2, <1>3, <1>4

-----------------------------------------------------------------------------
LEMMA HostShapeInit == Init => HostShape
<1>1. ASSUME Init, NEW c \in Callers PROVE pc[c] = "idle" /\ call[c].op = "none"
  BY <1>1, ThreadKinds DEF Init, All, NoCall
<1>2. QED
  BY <1>1 DEF HostShape

LEMMA HostShapeStep == TypeInv /\ HostShape /\ [Next]_vars => HostShape'
<1>. SUFFICES ASSUME TypeInv, TypeOK, Shape, HostShape, [Next]_vars PROVE HostShape'
  BY DEF TypeInv
<1>. USE ThreadKinds
<1>1. ASSUME NEW c \in Callers, NEW op \in Ops, NEW a \in Arguments(op), Begin(c, op, a)
      PROVE  HostShape'
  BY <1>1 DEF Begin, Goto, Entry, HostShape, TypeOK
<1>2. ASSUME NEW c \in Callers, CallerStep(c), ~CheckStart(c) PROVE HostShape'
  <2>1. /\ pc'[c] \in {"load", "fast"} => call[c].op \in {"check", "activate"}
        /\ pc'[c] \in {"clock", "stamp", "note"} => call[c].op = "renew"
        /\ pc'[c] \in {"accept", "save", "saving"} => call[c].op \in {"activate", "renew"}
    <3>. USE DEF TypeOK, HostShape, Goto, Return
    <3>1. CASE Load(c) \/ Fast(c) \/ CheckVerdict(c) \/ CheckDue(c) \/ CheckSkip(c)
                 \/ CheckFlag(c)
      BY <3>1 DEF Load, Fast, CheckVerdict, CheckDue, CheckSkip, CheckFlag
    <3>2. CASE RenewClock(c) \/ RenewStamp(c) \/ RenewNote(c) \/ Accept(c)
      BY <3>2 DEF RenewClock, RenewStamp, RenewNote, Accept
    <3>3. CASE Answer(c) \/ Abandon(c)
      BY <3>3 DEF Answer, Abandon
    <3>4. CASE Receive(c)
      BY <3>4 DEF Receive
    <3>5. CASE ClearBegin(c) \/ ClearEnd(c) \/ SaveBegin(c) \/ SaveEnd(c)
      BY <3>5 DEF ClearBegin, ClearEnd, SaveBegin, SaveEnd
    <3>6. QED
      BY <1>2, <3>1, <3>2, <3>3, <3>4, <3>5 DEF CallerStep
  <2>2. /\ call'[c] = call[c] \/ (call'[c].op = "none" /\ pc'[c] = "idle")
        /\ \A d \in Callers \ {c} : call'[d] = call[d] /\ pc'[d] = pc[d]
    BY <1>2, CallerFrame DEF NoCall
  <2>3. QED
    BY <2>1, <2>2 DEF HostShape
<1>3. ASSUME NEW c \in Callers, CheckStart(c) PROVE HostShape'
  <2>1. /\ \A u \in Callers : call'[u] = call[u]
        /\ \A u \in Callers \ {c} : pc'[u] = pc[u]
        /\ pc'[c] = "flag"
    BY <1>3, StartFrame DEF TypeInv
  <2>2. QED
    BY <2>1 DEF HostShape
<1>4. ASSUME NEW n \in Attempts, RenewalStep(n) \/ BackgroundPanic(n) PROVE HostShape'
  BY <1>4, RenewalFrame DEF HostShape
<1>5. CASE Crash
  BY <1>5 DEF Crash, All, HostShape, NoCall
<1>6. CASE LateArrival \/ Revoke \/ Tick \/ Quiescent \/ UNCHANGED vars
  BY <1>6, WorldFrame DEF HostShape
<1>7. QED
  BY <1>1, <1>2, <1>3, <1>4, <1>5, <1>6 DEF Next, HostCall

-----------------------------------------------------------------------------
(* When renewals start *)

\* last_attempt is never set back: no call to `renew` stamps it with a time it
\* read before the attempt that is recorded there.
StampsInOrder ==
  [][lastAttempt # Never /\ lastAttempt' # Never => lastAttempt <= lastAttempt']_vars

\* The last attempt is no earlier than the start of the latest renewal, whose mark
\* is that start, starts are apart, and what was overtaken was overtaken late.
Schedule ==
  /\ attempt >= 1 => /\ lastAttempt \in Nat /\ seen[attempt] <= lastAttempt
                     /\ pc[attempt] # "idle" => inFlight = seen[attempt]
  /\ \A m, n \in 1 .. attempt : m < n =>
       /\ seen[n] - seen[m] >= RenewRetry
       /\ pc[m] # "idle" => seen[n] - seen[m] > 2 * RenewRetry

\* A step that starts no renewal keeps the schedule.
LEMMA QuietKeepsSchedule ==
  ASSUME TypeOK, Schedule, attempt' = attempt,
         lastAttempt # Never => lastAttempt' \in Nat /\ lastAttempt <= lastAttempt',
         \A n \in Attempts : /\ seen'[n] = seen[n]
                             /\ pc'[n] # "idle" => pc[n] # "idle",
         attempt >= 1 /\ pc'[attempt] # "idle" => inFlight' = inFlight
  PROVE  Schedule'
<1>. USE ThreadKinds
<1>1. /\ attempt \in Nat /\ 1 .. attempt \subseteq Attempts
      /\ \A n \in 1 .. attempt : seen[n] \in Nat
  BY ConstantsAssumption DEF TypeOK, Attempts
<1>2. attempt >= 1 => lastAttempt' \in Nat /\ seen'[attempt] <= lastAttempt'
  BY <1>1 DEF Schedule, Never
<1>3. QED
  BY <1>1, <1>2 DEF Schedule

\* A new renewal starts apart from all earlier ones.
LEMMA StartKeepsSchedule ==
  ASSUME TypeInv, Schedule, RenewRetry > 0, NEW c \in Callers, CheckStart(c)
  PROVE  Schedule'
<1>. DEFINE new == attempt + 1
<1>1. /\ attempt \in Nat /\ new \in Attempts /\ 1 .. attempt \subseteq Attempts
      /\ RenewRetry \in Nat /\ seen[c] \in Nat /\ c \notin Attempts
      /\ \A m \in 1 .. attempt : seen[m] \in Nat
      /\ seen \in [Threads -> Nat] /\ new \in Threads
  BY StartFrame, ThreadKinds, ConstantsAssumption DEF TypeInv, TypeOK, Attempts
<1>2. /\ attempt' = new /\ lastAttempt' = seen[c]
      /\ seen'[new] = seen[c] /\ \A m \in 1 .. attempt : seen'[m] = seen[m]
      /\ \A m \in 1 .. attempt : pc'[m] = pc[m]
      /\ pc'[new] # "idle" => inFlight' = seen[c]
  BY <1>1, StartFrame, ThreadKinds
<1>3. /\ attempt >= 1 => seen[c] - seen[attempt] >= RenewRetry
      /\ attempt >= 1 /\ pc[attempt] # "idle" => seen[c] - seen[attempt] > 2 * RenewRetry
  BY <1>1, StartFrame DEF Schedule, Running, RetriedRecently, Since, Never
<1>4. ASSUME NEW m \in 1 .. attempt
      PROVE  /\ seen[c] - seen[m] >= RenewRetry
             /\ pc[m] # "idle" => seen[c] - seen[m] > 2 * RenewRetry
  <2>1. CASE m = attempt
    BY <1>1, <1>3, <2>1
  <2>2. CASE m < attempt
    <3>1. /\ seen[attempt] - seen[m] >= RenewRetry
          /\ pc[m] # "idle" => seen[attempt] - seen[m] > 2 * RenewRetry
      BY <1>1, <2>2 DEF Schedule
    <3>2. QED
      BY <1>1, <1>3, <2>2, <3>1
  <2>3. QED
    BY <1>1, <2>1, <2>2
<1>5. QED
  BY <1>1, <1>2, <1>4 DEF Schedule

LEMMA ScheduleInit == Init => Schedule
BY DEF Init, Schedule

\* A call to `renew` stamps the time it has read.
LEMMA StampFrame ==
  ASSUME TypeOK, NEW c \in Callers, CallerStep(c), pc[c] = "stamp"
  PROVE  lastAttempt' = seen[c] /\ pc'[c] = "post" /\ call' = call /\ seen' = seen
<1>1. ~(Load(c) \/ Fast(c) \/ CheckVerdict(c) \/ CheckDue(c) \/ CheckSkip(c)
          \/ CheckStart(c) \/ CheckFlag(c) \/ RenewClock(c))
  BY DEF Load, Fast, CheckVerdict, CheckDue, CheckSkip, CheckStart, CheckFlag, RenewClock
<1>2. ~(Answer(c) \/ Abandon(c) \/ Receive(c) \/ ClearBegin(c) \/ ClearEnd(c)
          \/ RenewNote(c) \/ Accept(c) \/ SaveBegin(c) \/ SaveEnd(c))
  BY DEF Answer, Abandon, Receive, ClearBegin, ClearEnd, RenewNote, Accept,
     SaveBegin, SaveEnd
<1>3. QED
  BY <1>1, <1>2, ThreadKinds DEF CallerStep, RenewStamp, Goto, TypeOK

\* Only `check` starts a background renewal.
LEMMA StartsNeedCheck ==
  ASSUME TypeInv, [Next]_vars, NEW n \in Attempts, pc[n] = "idle", pc'[n] = "post"
  PROVE  \E c \in Callers : CheckStart(c)
<1>. SUFFICES ASSUME \A c \in Callers : ~CheckStart(c) PROVE FALSE
  OBVIOUS
<1>. USE ThreadKinds DEF TypeInv
<1>1. ASSUME NEW d \in Callers, CallerStep(d) PROVE FALSE
  BY <1>1, CallerFrame
<1>2. ASSUME NEW k \in Attempts, RenewalStep(k) \/ BackgroundPanic(k) PROVE FALSE
  <2>1. pc[k] # "idle" /\ \A t \in Threads \ {k} : pc'[t] = pc[t]
    BY <1>2, RenewalFrame
  <2>2. QED
    BY <2>1
<1>3. ASSUME NEW d \in Callers, NEW op \in Ops, NEW a \in Arguments(op), Begin(d, op, a)
      PROVE  FALSE
  BY <1>3 DEF Begin, Goto, TypeOK
<1>4. ~Crash
  BY DEF Crash, All
<1>5. ~(LateArrival \/ Revoke \/ Tick \/ Quiescent \/ UNCHANGED vars)
  BY WorldFrame
<1>6. QED
  BY <1>1, <1>2, <1>3, <1>4, <1>5 DEF Next, HostCall

\* Every step but a restart, the start of a renewal and the stamp of a `renew`
\* keeps last_attempt, and the start moves it forward.
LEMMA AttemptMoves ==
  ASSUME RenewRetry > 0, TypeInv, [Next]_vars, lastAttempt # Never,
         lastAttempt' # lastAttempt
  PROVE  \/ Crash
         \/ \E c \in Callers : CheckStart(c) /\ lastAttempt' >= lastAttempt + RenewRetry
         \/ \E c \in Callers : CallerStep(c) /\ pc[c] = "stamp"
<1>. USE ThreadKinds DEF TypeInv
<1>1. ASSUME NEW c \in Callers, CallerStep(c), ~CheckStart(c) PROVE pc[c] = "stamp"
  BY <1>1, CallerFrame
<1>2. ASSUME NEW c \in Callers, CheckStart(c)
      PROVE  lastAttempt' >= lastAttempt + RenewRetry
  <2>1. /\ seen[c] \in Nat /\ lastAttempt \in Nat /\ RenewRetry \in Nat
        /\ lastAttempt' = seen[c] /\ ~RetriedRecently(seen[c])
    BY <1>2, StartFrame, ConstantsAssumption DEF TypeOK
  <2>2. ~(Since(seen[c], lastAttempt) < RenewRetry)
    BY <2>1 DEF RetriedRecently
  <2>3. QED
    BY <2>1, <2>2 DEF Since
<1>3. ASSUME NEW n \in Attempts, RenewalStep(n) \/ BackgroundPanic(n) PROVE FALSE
  BY <1>3, RenewalFrame
<1>4. ~HostCall
  BY DEF HostCall, Begin, mutex
<1>5. ~(LateArrival \/ Revoke \/ Tick \/ Quiescent \/ UNCHANGED vars)
  BY WorldFrame
<1>6. QED
  BY <1>1, <1>2, <1>3, <1>4, <1>5 DEF Next

LEMMA SameAttempt ==
  ASSUME TypeOK, lastAttempt' = lastAttempt
  PROVE  lastAttempt # Never => lastAttempt' \in Nat /\ lastAttempt <= lastAttempt'
BY DEF TypeOK

LEMMA ScheduleStep ==
  ASSUME RenewRetry > 0, TypeInv, Schedule, [Next]_vars,
         lastAttempt # Never /\ lastAttempt' # Never => lastAttempt <= lastAttempt'
  PROVE  Schedule'
<1>. USE ThreadKinds DEF TypeInv
<1>1. ASSUME NEW c \in Callers, NEW op \in Ops, NEW a \in Arguments(op), Begin(c, op, a)
      PROVE  Schedule'
  <2>1. /\ UNCHANGED <<attempt, inFlight, lastAttempt, seen>>
        /\ \A n \in Attempts : pc'[n] = pc[n]
    BY <1>1 DEF Begin, Goto, mutex, TypeOK
  <2>2. QED
    BY <2>1, QuietKeepsSchedule, SameAttempt
<1>2. ASSUME NEW c \in Callers, CallerStep(c), ~CheckStart(c) PROVE Schedule'
  <2>1. lastAttempt # Never => lastAttempt' \in Nat /\ lastAttempt <= lastAttempt'
    <3>1. CASE pc[c] = "stamp"
      <4>1. lastAttempt' \in Nat
        BY <1>2, <3>1, StampFrame DEF TypeOK
      <4>2. QED
        BY <4>1 DEF Never
    <3>2. CASE pc[c] # "stamp"
      BY <1>2, <3>2, CallerFrame, SameAttempt
    <3>3. QED
      BY <3>1, <3>2
  <2>2. QED
    BY <1>2, <2>1, CallerFrame, QuietKeepsSchedule
<1>3. ASSUME NEW c \in Callers, CheckStart(c) PROVE Schedule'
  BY <1>3, StartKeepsSchedule
<1>4. ASSUME NEW n \in Attempts, RenewalStep(n) \/ BackgroundPanic(n) PROVE Schedule'
  <2>1. /\ UNCHANGED <<attempt, lastAttempt, seen>>
        /\ \A m \in Attempts : pc'[m] # "idle" => pc[m] # "idle"
        /\ inFlight' = inFlight \/ pc'[attempt] = "idle"
    BY <1>4, RenewalFrame
  <2>2. QED
    BY <2>1, QuietKeepsSchedule, SameAttempt
<1>5. CASE Crash
  BY <1>5 DEF Crash, Schedule
<1>6. CASE LateArrival \/ Revoke \/ Tick \/ Quiescent \/ UNCHANGED vars
  BY <1>6, WorldFrame, QuietKeepsSchedule, SameAttempt
<1>7. QED
  BY <1>1, <1>2, <1>3, <1>4, <1>5, <1>6 DEF Next, HostCall

LEMMA ScheduleHolds ==
  ASSUME RenewRetry > 0
  PROVE  Spec /\ StampsInOrder => [](TypeInv /\ Schedule)
<1>1. TypeInv /\ Schedule /\ [Next]_vars
        /\ [lastAttempt # Never /\ lastAttempt' # Never
              => lastAttempt <= lastAttempt']_vars
      => Schedule'
  <2>1. SUFFICES ASSUME TypeInv, Schedule, [Next]_vars,
                        [lastAttempt # Never /\ lastAttempt' # Never
                           => lastAttempt <= lastAttempt']_vars
                 PROVE  Schedule'
    OBVIOUS
  <2>2. lastAttempt # Never /\ lastAttempt' # Never => lastAttempt <= lastAttempt'
    BY <2>1 DEF vars, mutex, TypeInv, TypeOK
  <2>3. QED
    BY <2>1, <2>2, ScheduleStep
<1>2. QED
  BY <1>1, TypeInit, TypeStep, ScheduleInit, PTL DEF Spec, StampsInOrder

\* Only the stamp of a `renew` that read its time before another attempt's can
\* set last_attempt back, and it does not where the host never calls `renew`.
THEOREM OnlyRenewSetsBack ==
  ASSUME RenewRetry > 0
  PROVE  Spec =>
    [][lastAttempt # Never /\ lastAttempt' # Never /\ lastAttempt' < lastAttempt
         => \E c \in Callers : /\ pc[c] = "stamp" /\ pc'[c] = "post"
                               /\ seen[c] < lastAttempt
                               /\ call[c].op = "renew"]_vars
<1>1. TypeInv /\ HostShape /\ [Next]_vars
        => [lastAttempt # Never /\ lastAttempt' # Never /\ lastAttempt' < lastAttempt
               => \E c \in Callers : /\ pc[c] = "stamp" /\ pc'[c] = "post"
                                     /\ seen[c] < lastAttempt
                                     /\ call[c].op = "renew"]_vars
  <2>1. SUFFICES ASSUME TypeInv, HostShape, [Next]_vars, lastAttempt # Never,
                        lastAttempt' # Never, lastAttempt' < lastAttempt
                 PROVE  \E c \in Callers : /\ pc[c] = "stamp" /\ pc'[c] = "post"
                                           /\ seen[c] < lastAttempt
                                           /\ call[c].op = "renew"
    OBVIOUS
  <2>2. lastAttempt \in Nat /\ RenewRetry \in Nat /\ ~(lastAttempt < lastAttempt)
    BY <2>1, ConstantsAssumption DEF TypeInv, TypeOK
  <2>3. ~Crash
    BY <2>1 DEF Crash
  <2>4. ASSUME NEW c \in Callers PROVE ~(lastAttempt' >= lastAttempt + RenewRetry)
    <3>1. lastAttempt' \in Nat
      BY <2>1, TypeStep DEF TypeInv, TypeOK
    <3>2. QED
      BY <2>1, <2>2, <3>1
  <2>5. PICK c \in Callers : CallerStep(c) /\ pc[c] = "stamp"
    BY <2>1, <2>2, <2>3, <2>4, AttemptMoves
  <2>6. QED
    BY <2>1, <2>5, StampFrame DEF HostShape, TypeInv
<1>2. QED
  BY <1>1, TypeInit, TypeStep, HostShapeInit, HostShapeStep, PTL DEF Spec

LEMMA NoRenewKeepsOrder ==
  ASSUME "renew" \notin Ops, RenewRetry > 0
  PROVE  Spec => StampsInOrder
<1>1. TypeInv /\ HostShape /\ [Next]_vars
        => [lastAttempt # Never /\ lastAttempt' # Never
              => lastAttempt <= lastAttempt']_vars
  <2>1. SUFFICES ASSUME TypeInv, HostShape, [Next]_vars, lastAttempt # Never,
                        lastAttempt' # Never
                 PROVE  lastAttempt <= lastAttempt'
    OBVIOUS
  <2>2. lastAttempt \in Nat /\ lastAttempt' \in Nat /\ RenewRetry \in Nat
    BY <2>1, TypeStep, ConstantsAssumption DEF TypeInv, TypeOK
  <2>3. ~Crash
    BY <2>1 DEF Crash
  <2>4. \A c \in Callers : pc[c] # "stamp"
    BY <2>1 DEF HostShape
  <2>5. lastAttempt' # lastAttempt => lastAttempt' >= lastAttempt + RenewRetry
    BY <2>1, <2>3, <2>4, AttemptMoves
  <2>6. QED
    BY <2>2, <2>5
<1>2. QED
  BY <1>1, TypeInit, TypeStep, HostShapeInit, HostShapeStep, PTL DEF Spec, StampsInOrder

\* However the host calls `renew`, two background renewals run at a time only if
\* the earlier one is stuck, as long as no `renew` sets last_attempt back.
THEOREM SingleUnlessSetBack ==
  ASSUME RenewRetry > 0
  PROVE  Spec /\ StampsInOrder => []SingleFlight
<1>1. TypeInv /\ Schedule => SingleFlight
  <2>1. SUFFICES ASSUME TypeInv, Schedule, NEW m \in Attempts, NEW n \in Attempts,
                        m < n, pc[m] # "idle", pc[n] # "idle"
                 PROVE  seen[n] - seen[m] > 2 * RenewRetry
    BY DEF SingleFlight
  <2>2. n <= attempt /\ attempt \in Nat
    BY <2>1, ConstantsAssumption DEF TypeInv, TypeOK, Shape, Attempts
  <2>3. m \in 1 .. attempt /\ n \in 1 .. attempt
    BY <2>1, <2>2 DEF Attempts
  <2>4. QED
    BY <2>1, <2>3 DEF Schedule
<1>2. QED
  BY <1>1, ScheduleHolds, PTL

\* And under the same condition they start at least RENEW_RETRY apart.
THEOREM SpacedUnlessSetBack ==
  ASSUME RenewRetry > 0
  PROVE  Spec /\ StampsInOrder => RetrySpacing
<1>1. TypeInv /\ Schedule /\ (TypeInv /\ Schedule)' /\ [Next]_vars
        => [\A n \in Attempts : pc[n] = "idle" /\ pc'[n] = "post" =>
              \A m \in 1 .. n - 1 : seen'[n] - seen[m] >= RenewRetry]_vars
  <2>1. SUFFICES ASSUME TypeInv, Schedule, Schedule', TypeInv', [Next]_vars,
                        NEW n \in Attempts, pc[n] = "idle", pc'[n] = "post",
                        NEW m \in 1 .. n - 1
                 PROVE  seen'[n] - seen[m] >= RenewRetry
    OBVIOUS
  <2>2. PICK c \in Callers : CheckStart(c)
    BY <2>1, StartsNeedCheck
  <2>3. /\ attempt \in Nat /\ n \in Nat /\ attempt' = attempt + 1
        /\ n = attempt + 1 /\ seen'[m] = seen[m]
    BY <2>1, <2>2, StartFrame, ThreadKinds, ConstantsAssumption
       DEF TypeInv, TypeOK, Attempts
  <2>4. m \in 1 .. attempt' /\ n \in 1 .. attempt' /\ m < n
    BY <2>3
  <2>5. seen'[n] - seen'[m] >= RenewRetry
    BY <2>1, <2>4 DEF Schedule
  <2>6. QED
    BY <2>3, <2>5
<1>2. QED
  BY <1>1, ScheduleHolds, PTL DEF Spec, RetrySpacing

-----------------------------------------------------------------------------
(* The spacing of background renewals from a manual one *)

\* Where a `renew` is once it has stamped last_attempt.
AfterStamp == {"post", "reply", "clear", "clearing", "note", "accept", "save", "saving"}

\* The stamp of every `renew` under way is covered by last_attempt.
Covered ==
  \A c \in Callers : call[c].op = "renew" /\ pc[c] \in AfterStamp =>
    lastAttempt \in Nat /\ seen[c] <= lastAttempt

\* A step keeps a covered stamp if it moves no `renew` past its stamp.
LEMMA QuietKeepsCovered ==
  ASSUME TypeOK, Covered,
         lastAttempt # Never => lastAttempt' \in Nat /\ lastAttempt <= lastAttempt',
         \A c \in Callers : call'[c].op = "renew" /\ pc'[c] \in AfterStamp =>
           /\ call[c].op = "renew" /\ pc[c] \in AfterStamp
           /\ seen'[c] = seen[c]
  PROVE  Covered'
<1>1. ASSUME NEW c \in Callers, call'[c].op = "renew", pc'[c] \in AfterStamp
      PROVE  lastAttempt' \in Nat /\ seen'[c] <= lastAttempt'
  <2>1. /\ lastAttempt \in Nat /\ seen[c] <= lastAttempt /\ seen'[c] = seen[c]
        /\ seen[c] \in Nat
    BY <1>1, ThreadKinds DEF Covered, TypeOK
  <2>2. lastAttempt # Never
    BY <2>1 DEF Never
  <2>3. QED
    BY <2>1, <2>2
<1>2. QED
  BY <1>1 DEF Covered

LEMMA CoveredStep ==
  ASSUME RenewRetry > 0, TypeInv, HostShape, Covered, [Next]_vars,
         lastAttempt # Never /\ lastAttempt' # Never => lastAttempt <= lastAttempt'
  PROVE  Covered'
<1>. USE ThreadKinds DEF TypeInv
<1>1. ASSUME NEW c \in Callers, NEW op \in Ops, NEW a \in Arguments(op), Begin(c, op, a)
      PROVE  Covered'
  <2>1. /\ UNCHANGED <<lastAttempt, seen>>
        /\ \A d \in Callers \ {c} : pc'[d] = pc[d] /\ call'[d] = call[d]
        /\ call'[c].op = "renew" => pc'[c] = "clock"
    BY <1>1 DEF Begin, Goto, Entry, mutex, TypeOK
  <2>2. QED
    BY <2>1, QuietKeepsCovered, SameAttempt DEF AfterStamp
<1>2. ASSUME NEW c \in Callers, CallerStep(c), ~CheckStart(c), pc[c] # "stamp"
      PROVE  Covered'
  <2>1. lastAttempt' = lastAttempt
        /\ \A d \in Callers \ {c} : pc'[d] = pc[d] /\ call'[d] = call[d]
                                    /\ seen'[d] = seen[d]
    BY <1>2, CallerFrame
  <2>2. call'[c].op = "renew" /\ pc'[c] \in AfterStamp
          => /\ call[c].op = "renew" /\ pc[c] \in AfterStamp
             /\ seen'[c] = seen[c]
    <3>. USE DEF TypeOK, Goto, Return, NoCall, AfterStamp
    <3>1. CASE Load(c) \/ Fast(c)
      BY <3>1 DEF Load, Fast, HostShape
    <3>2. CASE CheckVerdict(c) \/ CheckDue(c) \/ CheckSkip(c) \/ CheckFlag(c)
                 \/ RenewClock(c)
      BY <3>2 DEF CheckVerdict, CheckDue, CheckSkip, CheckFlag, RenewClock
    <3>3. CASE RenewNote(c) \/ Accept(c)
      BY <3>3 DEF RenewNote, Accept
    <3>4. CASE Answer(c) \/ Abandon(c)
      BY <3>4 DEF Answer, Abandon
    <3>5. CASE Receive(c)
      BY <3>5 DEF Receive
    <3>6. CASE ClearBegin(c) \/ ClearEnd(c) \/ SaveBegin(c) \/ SaveEnd(c)
      BY <3>6 DEF ClearBegin, ClearEnd, SaveBegin, SaveEnd
    <3>7. ~RenewStamp(c)
      BY <1>2 DEF RenewStamp
    <3>8. QED
      BY <1>2, <3>1, <3>2, <3>3, <3>4, <3>5, <3>6, <3>7 DEF CallerStep
  <2>3. QED
    BY <2>1, <2>2, QuietKeepsCovered, SameAttempt
<1>3. ASSUME NEW c \in Callers, CallerStep(c), pc[c] = "stamp" PROVE Covered'
  <2>1. lastAttempt' = seen[c] /\ seen[c] \in Nat /\ ~CheckStart(c) /\ seen' = seen
    BY <1>3, StampFrame DEF CheckStart, TypeOK
  <2>2. /\ \A d \in Callers \ {c} : pc'[d] = pc[d] /\ call'[d] = call[d]
                                    /\ seen'[d] = seen[d]
        /\ lastAttempt # Never => lastAttempt <= lastAttempt'
    BY <1>3, <2>1, CallerFrame DEF Never
  <2>3. ASSUME NEW d \in Callers, call'[d].op = "renew", pc'[d] \in AfterStamp
        PROVE  lastAttempt' \in Nat /\ seen'[d] <= lastAttempt'
    <3>1. CASE d = c
      BY <2>1, <3>1
    <3>2. CASE d # c
      <4>1. lastAttempt \in Nat /\ seen'[d] <= lastAttempt /\ seen'[d] \in Nat
        BY <2>2, <2>3, <3>2 DEF Covered, TypeOK
      <4>2. QED
        BY <2>1, <2>2, <4>1 DEF Never
    <3>3. QED
      BY <3>1, <3>2
  <2>4. QED
    BY <2>3 DEF Covered
<1>4. ASSUME NEW c \in Callers, CheckStart(c) PROVE Covered'
  <2>1. /\ lastAttempt' = seen[c] /\ seen[c] \in Nat /\ pc'[c] = "flag"
        /\ \A d \in Callers : call'[d] = call[d] /\ seen'[d] = seen[d]
        /\ \A d \in Callers \ {c} : pc'[d] = pc[d]
    BY <1>4, StartFrame DEF TypeOK
  <2>2. lastAttempt # Never => lastAttempt' \in Nat /\ lastAttempt <= lastAttempt'
    BY <2>1 DEF Never
  <2>3. QED
    BY <2>1, <2>2, QuietKeepsCovered DEF AfterStamp
<1>5. ASSUME NEW n \in Attempts, RenewalStep(n) \/ BackgroundPanic(n) PROVE Covered'
  <2>1. /\ UNCHANGED <<lastAttempt, seen>>
        /\ \A d \in Callers : pc'[d] = pc[d] /\ call'[d] = call[d]
    BY <1>5, RenewalFrame
  <2>2. QED
    BY <2>1, QuietKeepsCovered, SameAttempt
<1>6. CASE Crash
  BY <1>6 DEF Crash, All, NoCall, Covered
<1>7. CASE LateArrival \/ Revoke \/ Tick \/ Quiescent \/ UNCHANGED vars
  BY <1>7, WorldFrame, QuietKeepsCovered, SameAttempt
<1>8. QED
  BY <1>1, <1>2, <1>3, <1>4, <1>5, <1>6, <1>7 DEF Next, HostCall

\* "The last attempt, background or a manual `renew`, began at least five minutes
\* ago": no background renewal starts within RENEW_RETRY of a `renew` under way,
\* by any thread, as long as no `renew` sets last_attempt back.
THEOREM SpacedFromRenew ==
  ASSUME RenewRetry > 0
  PROVE  Spec /\ StampsInOrder =>
    [][\A n \in Attempts : pc[n] = "idle" /\ pc'[n] = "post" =>
         \A c \in Callers : call[c].op = "renew" /\ pc[c] \in AfterStamp =>
           seen'[n] - seen[c] >= RenewRetry]_vars
<1>1. TypeInv /\ HostShape /\ Covered /\ [Next]_vars
        => [\A n \in Attempts : pc[n] = "idle" /\ pc'[n] = "post" =>
              \A c \in Callers : call[c].op = "renew" /\ pc[c] \in AfterStamp =>
                seen'[n] - seen[c] >= RenewRetry]_vars
  <2>1. SUFFICES ASSUME TypeInv, HostShape, Covered, [Next]_vars,
                        NEW n \in Attempts, pc[n] = "idle", pc'[n] = "post",
                        NEW c \in Callers, call[c].op = "renew", pc[c] \in AfterStamp
                 PROVE  seen'[n] - seen[c] >= RenewRetry
    OBVIOUS
  <2>2. PICK d \in Callers : CheckStart(d)
    BY <2>1, StartsNeedCheck
  <2>3. /\ seen'[n] = seen[d] /\ ~RetriedRecently(seen[d])
        /\ seen[d] \in Nat /\ seen[c] \in Nat /\ RenewRetry \in Nat
    BY <2>1, <2>2, StartFrame, ThreadKinds, ConstantsAssumption DEF TypeInv, TypeOK
  <2>4. lastAttempt \in Nat /\ seen[c] <= lastAttempt /\ lastAttempt # Never
    BY <2>1 DEF Covered, Never
  <2>5. ~(Since(seen[d], lastAttempt) < RenewRetry)
    BY <2>3, <2>4 DEF RetriedRecently
  <2>6. QED
    BY <2>3, <2>4, <2>5 DEF Since
<1>2. TypeInv /\ HostShape /\ Covered /\ [Next]_vars
        /\ [lastAttempt # Never /\ lastAttempt' # Never
              => lastAttempt <= lastAttempt']_vars
      => Covered'
  <2>1. SUFFICES ASSUME TypeInv, HostShape, Covered, [Next]_vars,
                        [lastAttempt # Never /\ lastAttempt' # Never
                           => lastAttempt <= lastAttempt']_vars
                 PROVE  Covered'
    OBVIOUS
  <2>2. lastAttempt # Never /\ lastAttempt' # Never => lastAttempt <= lastAttempt'
    BY <2>1 DEF vars, mutex, TypeInv, TypeOK
  <2>3. QED
    BY <2>1, <2>2, CoveredStep
<1>3. Init => Covered
  BY ThreadKinds DEF Init, All, NoCall, Covered
<1>4. QED
  BY <1>1, <1>2, <1>3, TypeInit, TypeStep, HostShapeInit, HostShapeStep, PTL
     DEF Spec, StampsInOrder

\* A host that leaves renewing to `check` has two background renewals at a time
\* only if the earlier one is stuck.
THEOREM RenewalsAreSingle ==
  ASSUME "renew" \notin Ops, RenewRetry > 0
  PROVE  Spec => []SingleFlight
BY NoRenewKeepsOrder, SingleUnlessSetBack, PTL

\* It renews at most once per RENEW_RETRY.
THEOREM RenewalsAreSpaced ==
  ASSUME "renew" \notin Ops, RenewRetry > 0
  PROVE  Spec => RetrySpacing
BY NoRenewKeepsOrder, SpacedUnlessSetBack, PTL

-----------------------------------------------------------------------------
(* What renewals do to the cache *)

\* The steps that change the file, and with it the history of what was dropped.
Writes ==
  \/ \E c \in Callers : ClearEnd(c) \/ SaveEnd(c)
  \/ \E n \in Attempts : BackgroundWrite(n)

LEMMA OnlyWritesWrite ==
  ASSUME [Next]_vars, ~Writes
  PROVE  cache' = cache /\ (gone' = gone \/ HostCall)
<1>1. ASSUME NEW c \in Callers, CallerStep(c) PROVE UNCHANGED <<cache, gone>>
  BY <1>1 DEF Writes, CallerStep, Load, Fast, CheckVerdict, CheckDue, CheckSkip,
     CheckStart, CheckFlag, RenewClock, RenewStamp, Answer, Abandon, Receive,
     ClearBegin, RenewNote, Accept, SaveBegin
<1>2. ASSUME NEW n \in Attempts, RenewalStep(n) \/ BackgroundPanic(n)
      PROVE  UNCHANGED <<cache, gone>>
  BY <1>2 DEF Writes, RenewalStep, BackgroundPanic, Answer, Abandon, BackgroundVerify,
     BackgroundStale, BackgroundRecord, BackgroundDrop
<1>3. QED
  BY <1>1, <1>2 DEF Next, HostCall, Begin, LateArrival, Revoke, Tick, Crash,
     Quiescent, vars

\* The token a renewal has is of the activation it renews, and not of the future.
OwnTokens ==
  \A n \in Attempts :
    /\ tok[n] # NoToken => tok[n].aid = call[n].aid /\ tok[n].iat <= clock
    /\ pc[n] = "idle" => tok[n] = NoToken

LEMMA OwnTokensStep == TypeInv /\ OwnTokens /\ [Next]_vars => OwnTokens'
<1>. SUFFICES ASSUME TypeInv, TypeOK, OwnTokens, [Next]_vars PROVE OwnTokens'
  BY DEF TypeInv
<1>. USE ThreadKinds
<1>0. /\ clock \in Nat
      /\ \A n \in Attempts : tok[n] # NoToken => tok[n].iat \in Nat
  BY DEF TypeOK, Tokens
<1>1. ASSUME NEW c \in Callers, NEW op \in Ops, NEW a \in Arguments(op), Begin(c, op, a)
      PROVE  OwnTokens'
  <2>1. /\ UNCHANGED <<clock, tok>>
        /\ \A n \in Attempts : pc'[n] = pc[n] /\ call'[n] = call[n]
    BY <1>1 DEF Begin, Goto, TypeOK
  <2>2. QED
    BY <2>1 DEF OwnTokens
<1>2. ASSUME NEW c \in Callers, CallerStep(c), ~CheckStart(c) PROVE OwnTokens'
  BY <1>2, CallerFrame DEF OwnTokens
<1>3. ASSUME NEW c \in Callers, CheckStart(c) PROVE OwnTokens'
  <2>1. /\ UNCHANGED <<clock, tok>> /\ pc[attempt + 1] = "idle"
        /\ \A n \in Attempts \ {attempt + 1} : pc'[n] = pc[n] /\ call'[n] = call[n]
    BY <1>3, StartFrame
  <2>2. QED
    BY <2>1 DEF OwnTokens
<1>4. ASSUME NEW n \in Attempts, RenewalStep(n) \/ BackgroundPanic(n) PROVE OwnTokens'
  <2>1. clock' = clock
        /\ \A m \in Attempts \ {n} :
             pc'[m] = pc[m] /\ call'[m] = call[m] /\ tok'[m] = tok[m]
    BY <1>4, RenewalFrame
  <2>2. /\ pc'[n] = "idle" => tok'[n] = NoToken
        /\ tok'[n] # NoToken => tok'[n].aid = call'[n].aid /\ tok'[n].iat <= clock
    BY <1>0, <1>4, RenewalFrame DEF OwnTokens
  <2>3. QED
    BY <2>1, <2>2 DEF OwnTokens
<1>5. CASE Crash
  BY <1>5 DEF Crash, All, OwnTokens
<1>6. CASE LateArrival \/ Revoke \/ Tick \/ Quiescent \/ UNCHANGED vars
  <2>1. UNCHANGED <<pc, call, tok>> /\ clock <= clock' /\ clock' \in Nat
    BY <1>6, WorldFrame, TypeStep DEF TypeInv, TypeOK
  <2>2. QED
    BY <1>0, <2>1 DEF OwnTokens
<1>7. QED
  BY <1>1, <1>2, <1>3, <1>4, <1>5, <1>6 DEF Next, HostCall

\* While an activate runs nothing counts as dropped.
Quieted == Activating => gone = {}

\* No step but the begin of an activate makes one run.
LEMMA ActivatingLasts ==
  ASSUME TypeInv, [Next]_vars, Activating'
  PROVE  Activating \/ (HostCall /\ gone' = {} /\ cache' = cache)
<1>. USE ThreadKinds DEF TypeInv
<1>1. ASSUME NEW c \in Callers, NEW op \in Ops, NEW a \in Arguments(op), Begin(c, op, a)
      PROVE  Activating \/ (HostCall /\ gone' = {} /\ cache' = cache)
  <2>1. CASE op = "activate"
    BY <1>1, <2>1 DEF HostCall, Begin
  <2>2. CASE op # "activate"
    <3>1. /\ call'[c].op # "activate"
          /\ \A d \in Callers \ {c} : pc'[d] = pc[d] /\ call'[d] = call[d]
      BY <1>1, <2>2 DEF Begin, Goto, TypeOK
    <3>2. QED
      BY <3>1 DEF Activating
  <2>3. QED
    BY <2>1, <2>2
<1>2. ASSUME NEW c \in Callers, CallerStep(c), ~CheckStart(c) PROVE Activating
  BY <1>2, CallerFrame DEF Activating
<1>3. ASSUME NEW c \in Callers, CheckStart(c) PROVE Activating
  <2>1. /\ pc[c] = "try" /\ \A d \in Callers : call'[d] = call[d]
        /\ \A d \in Callers \ {c} : pc'[d] = pc[d]
    BY <1>3, StartFrame
  <2>2. QED
    BY <2>1 DEF Activating
<1>4. ASSUME NEW n \in Attempts, RenewalStep(n) \/ BackgroundPanic(n) PROVE Activating
  BY <1>4, RenewalFrame DEF Activating
<1>5. CASE Crash
  BY <1>5 DEF Crash, All, Activating
<1>6. CASE LateArrival \/ Revoke \/ Tick \/ Quiescent \/ UNCHANGED vars
  BY <1>6, WorldFrame DEF Activating
<1>7. QED
  BY <1>1, <1>2, <1>3, <1>4, <1>5, <1>6 DEF Next, HostCall

\* A renewal's write leaves the activation it found, or nothing.
LEMMA RenewalWrites ==
  ASSUME TypeInv, SafeInv, OwnTokens, NEW n \in Attempts, BackgroundWrite(n)
  PROVE  /\ cache # NoToken
         /\ cache' # NoToken => cache'.aid = cache.aid /\ (gone' = gone \/ cache' = cache)
         /\ Activating => gone' = gone
         /\ gone' = gone \/ (DiskFaults = FALSE => cache' = NoToken)
<1>1. /\ cache # NoToken /\ cache.aid = call[n].aid
      /\ tok[n] # NoToken => tok[n].aid = cache.aid
  BY DEF BackgroundWrite, SafeInv, WriteGuarded, OwnTokens
<1>2. Activating => gone' = gone
  BY DEF BackgroundWrite, Drop
<1>3. CASE outcome[n] = "ok"
  <2>1. cache' \in {tok[n], cache} /\ gone' = gone
    BY <1>3 DEF BackgroundWrite, FileAfter
  <2>2. QED
    BY <1>1, <1>2, <2>1
<1>4. CASE outcome[n] # "ok"
  <2>1. cache' \in {NoToken, cache} /\ (DiskFaults = FALSE => cache' = NoToken)
    BY <1>4 DEF BackgroundWrite, FileAfter
  <2>2. QED
    BY <1>1, <1>2, <2>1
<1>5. QED
  BY <1>3, <1>4

LEMMA QuietedStep ==
  ASSUME TypeInv, SafeInv, OwnTokens, Quieted, [Next]_vars
  PROVE  Quieted'
<1>. USE ThreadKinds DEF TypeInv
<1>1. ASSUME NEW c \in Callers, ClearEnd(c) PROVE Quieted'
  <2>1. (Activating => gone' = gone) /\ ~HostCall
    BY <1>1 DEF ClearEnd, Drop, HostCall, Begin, TypeOK, Return, Goto
  <2>2. QED
    BY <2>1, ActivatingLasts DEF Quieted
<1>2. ASSUME NEW c \in Callers, SaveEnd(c) PROVE Quieted'
  <2>1. gone' = gone /\ pc[c] = "saving" /\ pc'[c] = "idle"
    BY <1>2 DEF SaveEnd, TypeOK, Return
  <2>2. ~HostCall
    BY <2>1 DEF HostCall, Begin, Goto, TypeOK
  <2>3. QED
    BY <2>1, <2>2, ActivatingLasts DEF Quieted
<1>3. ASSUME NEW n \in Attempts, BackgroundWrite(n) PROVE Quieted'
  <2>1. Activating' => Activating
    BY <1>3, RenewalFrame DEF Activating, RenewalStep
  <2>2. QED
    BY <1>3, <2>1, RenewalWrites DEF Quieted
<1>4. CASE HostCall
  <2>1. gone' \in {gone, {}}
    BY <1>4 DEF HostCall, Begin
  <2>2. QED
    BY <2>1, ActivatingLasts DEF Quieted
<1>5. CASE ~Writes /\ ~HostCall
  <2>1. gone' = gone
    BY <1>5, OnlyWritesWrite
  <2>2. QED
    BY <1>5, <2>1, ActivatingLasts DEF Quieted
<1>6. QED
  BY <1>1, <1>2, <1>3, <1>4, <1>5 DEF Writes

\* What a step that brings a dropped activation back must be.
LEMMA RevivingStep ==
  ASSUME TypeInv, SafeInv, HostShape, OwnTokens, Quieted, [Next]_vars,
         cache' # cache, ~Revived, Revived'
  PROVE  \E c \in Callers : /\ SaveEnd(c) /\ call[c].op = "renew"
                            /\ pc[c] = "saving" /\ pc'[c] = "idle"
<1>. USE ThreadKinds DEF TypeInv
<1>1. ASSUME NEW c \in Callers, ClearEnd(c) PROVE FALSE
  BY <1>1 DEF ClearEnd, FileAfter, Revived
<1>2. ASSUME NEW c \in Callers, SaveEnd(c)
      PROVE  call[c].op = "renew" /\ pc[c] = "saving" /\ pc'[c] = "idle"
  <2>1. pc[c] = "saving" /\ pc'[c] = "idle" /\ gone' = gone
    BY <1>2 DEF SaveEnd, Return, TypeOK
  <2>2. ~Activating
    BY <2>1 DEF Quieted, Revived
  <2>3. call[c].op # "activate"
    BY <2>1, <2>2 DEF Activating
  <2>4. QED
    BY <2>1, <2>3 DEF HostShape
<1>3. ASSUME NEW n \in Attempts, BackgroundWrite(n) PROVE FALSE
  <2>1. cache' # NoToken => cache'.aid = cache.aid /\ gone' = gone /\ cache # NoToken
    BY <1>3, RenewalWrites
  <2>2. QED
    BY <2>1 DEF Revived
<1>4. QED
  BY <1>1, <1>2, <1>3, OnlyWritesWrite DEF Writes

LEMMA QuietedHolds ==
  Spec => [](TypeInv /\ SafeInv /\ HostShape /\ OwnTokens /\ Quieted)
<1>1. Init => OwnTokens /\ Quieted
  BY ThreadKinds DEF Init, All, OwnTokens, Quieted
<1>2. TypeInv /\ SafeInv /\ OwnTokens /\ Quieted /\ [Next]_vars => Quieted'
  BY QuietedStep
<1>3. QED
  BY <1>1, <1>2, TypeInit, TypeStep, SafeInit, SafeStep, HostShapeInit,
     HostShapeStep, OwnTokensStep, PTL DEF Spec

\* Whatever the host calls and the disk does, a released or rejected activation
\* comes back into the cache only by the write of a renew the host called.
THEOREM DroppedComesBackByRenew == Spec => OnlyRenewRevives
<1>1. TypeInv /\ SafeInv /\ HostShape /\ OwnTokens /\ Quieted /\ [Next]_vars
        => [cache' # cache /\ ~Revived /\ Revived' =>
              \E c \in Callers :
                pc[c] = "saving" /\ call[c].op = "renew" /\ pc'[c] = "idle"]_vars
  BY RevivingStep
<1>2. QED
  BY <1>1, QuietedHolds, PTL DEF Spec, OnlyRenewRevives

\* On a disk that works a step that leaves the file alone drops nothing.
LEMMA DropNeedsWrite ==
  ASSUME DiskFaults = FALSE, TypeInv, SafeInv, OwnTokens, [Next]_vars,
         cache' = cache, Revived'
  PROVE  Revived
<1>1. ASSUME NEW c \in Callers, ClearEnd(c) PROVE FALSE
  BY <1>1 DEF ClearEnd, FileAfter, Revived
<1>2. ASSUME NEW c \in Callers, SaveEnd(c) PROVE gone' = gone
  BY <1>2 DEF SaveEnd
<1>3. ASSUME NEW n \in Attempts, BackgroundWrite(n) PROVE gone' = gone
  BY <1>3, RenewalWrites DEF Revived
<1>4. CASE ~Writes
  <2>1. gone' \in {gone, {}}
    BY <1>4, OnlyWritesWrite DEF HostCall, Begin
  <2>2. QED
    BY <2>1 DEF Revived
<1>5. QED
  BY <1>1, <1>2, <1>3, <1>4 DEF Writes, Revived

\* A host that does not call `renew`, on a disk that works, never finds a
\* released or rejected activation in the cache before its next activate.
THEOREM DroppedStaysOut ==
  ASSUME "renew" \notin Ops, DiskFaults = FALSE
  PROVE  Spec => []NoResurrection
<1>1. Init => NoResurrection
  BY DEF Init, NoResurrection, Revived
<1>2. TypeInv /\ SafeInv /\ HostShape /\ OwnTokens /\ Quieted /\ NoResurrection
        /\ [Next]_vars => NoResurrection'
  <2>1. SUFFICES ASSUME TypeInv, SafeInv, HostShape, OwnTokens, Quieted, [Next]_vars,
                        ~Revived, Revived'
                 PROVE  FALSE
    BY DEF NoResurrection
  <2>2. CASE cache' = cache
    BY <2>1, <2>2, DropNeedsWrite
  <2>3. CASE cache' # cache
    <3>1. PICK c \in Callers : call[c].op = "renew"
      BY <2>1, <2>3, RevivingStep
    <3>2. QED
      BY <2>1, <3>1 DEF HostShape
  <2>4. QED
    BY <2>2, <2>3
<1>3. QED
  BY <1>1, <1>2, QuietedHolds, PTL DEF Spec

-----------------------------------------------------------------------------
\* What the latest renewal has is no older than what it would replace.
Newer ==
  /\ cache # NoToken => cache.iat <= clock
  /\ \A n \in Attempts :
       n = attempt /\ tok[n] # NoToken /\ cache # NoToken => cache.iat <= tok[n].iat

LEMMA NewerStep ==
  ASSUME Ops \cap {"activate", "renew"} = {},
         TypeInv, SafeInv, HostShape, OwnTokens, Newer, [Next]_vars
  PROVE  /\ Newer'
         /\ cache # NoToken /\ cache' # NoToken => cache'.iat >= cache.iat
<1>. DEFINE Later == cache # NoToken /\ cache' # NoToken => cache'.iat >= cache.iat
<1>. SUFFICES Newer' /\ Later
  OBVIOUS
<1>. USE ThreadKinds DEF TypeInv
<1>0. /\ clock \in Nat
      /\ cache # NoToken => cache.iat \in Nat
      /\ \A n \in Attempts : tok[n] # NoToken => tok[n].iat \in Nat
  BY DEF TypeOK, Tokens
<1>1. ASSUME NEW c \in Callers, ClearEnd(c) PROVE Newer' /\ Later
  <2>1. /\ cache' \in {cache, NoToken} /\ UNCHANGED <<clock, attempt>>
        /\ \A n \in Attempts : tok'[n] = tok[n]
    BY <1>1 DEF ClearEnd, FileAfter, Return, Goto, TypeOK
  <2>2. Newer'
    BY <2>1 DEF Newer
  <2>3. Later
    BY <1>0, <2>1
  <2>4. QED
    BY <2>2, <2>3
<1>2. ASSUME NEW c \in Callers, SaveEnd(c) PROVE FALSE
  BY <1>2 DEF SaveEnd, HostShape
<1>3. ASSUME NEW n \in Attempts, BackgroundWrite(n) PROVE Newer' /\ Later
  <2>1. /\ cache' \in {cache, NoToken, tok[n]} /\ UNCHANGED <<clock, attempt, tok>>
        /\ attempt = n
    BY <1>3 DEF BackgroundWrite, FileAfter, SafeInv, WriteGuarded
  <2>2. CASE cache' = tok[n] /\ cache' # NoToken
    <3>1. tok[n] # NoToken /\ tok[n].iat \in Nat /\ tok[n].iat <= clock
      BY <1>0, <2>2 DEF OwnTokens
    <3>2. cache # NoToken => cache.iat <= tok[n].iat
      BY <2>1, <3>1 DEF Newer
    <3>3. Newer'
      BY <2>1, <2>2, <3>1 DEF Newer
    <3>4. Later
      BY <1>0, <2>2, <3>1, <3>2
    <3>5. QED
      BY <3>3, <3>4
  <2>3. CASE cache' = NoToken
    BY <2>1, <2>3 DEF Newer
  <2>4. CASE cache' = cache
    <3>1. Newer'
      BY <2>1, <2>4 DEF Newer
    <3>2. QED
      BY <1>0, <2>4, <3>1
  <2>5. QED
    BY <2>1, <2>2, <2>3, <2>4
<1>4. CASE ~Writes
  <2>1. cache' = cache
    BY <1>4, OnlyWritesWrite
  <2>2. Later
    BY <1>0, <2>1
  <2>3. clock <= clock' /\ clock' \in Nat
    <3>1. clock' \in Nat
      BY TypeStep DEF TypeOK
    <3>2. ASSUME NEW c \in Callers, CallerStep(c), ~CheckStart(c) PROVE clock' = clock
      BY <3>2, CallerFrame
    <3>3. ASSUME NEW c \in Callers, CheckStart(c) PROVE clock' = clock
      BY <3>3, StartFrame
    <3>4. ASSUME NEW n \in Attempts, RenewalStep(n) \/ BackgroundPanic(n)
          PROVE  clock' = clock
      BY <3>4, RenewalFrame
    <3>5. HostCall \/ Crash => clock' = clock
      BY DEF HostCall, Begin, Crash
    <3>6. LateArrival \/ Revoke \/ Tick \/ Quiescent \/ UNCHANGED vars => clock <= clock'
      BY WorldFrame
    <3>7. QED
      BY <1>0, <3>1, <3>2, <3>3, <3>4, <3>5, <3>6 DEF Next
  <2>4. ASSUME NEW n \in Attempts, n = attempt', tok'[n] # NoToken, cache # NoToken
        PROVE  cache.iat <= tok'[n].iat
    <3>1. ASSUME NEW c \in Callers, CallerStep(c), ~CheckStart(c)
          PROVE  attempt' = attempt /\ tok'[n] = tok[n]
      BY <3>1, CallerFrame
    <3>2. ASSUME NEW c \in Callers, CheckStart(c) PROVE FALSE
      BY <2>4, <3>2, StartFrame DEF OwnTokens
    <3>3. ASSUME NEW k \in Attempts, RenewalStep(k) \/ BackgroundPanic(k)
          PROVE  attempt' = attempt /\ (tok'[n] = tok[n] \/ tok'[n].iat = clock)
      BY <2>4, <3>3, RenewalFrame
    <3>4. HostCall => UNCHANGED <<attempt, tok>>
      BY DEF HostCall, Begin, mutex
    <3>5. ~Crash
      BY <2>4 DEF Crash, All
    <3>6. LateArrival \/ Revoke \/ Tick \/ Quiescent \/ UNCHANGED vars
            => UNCHANGED <<attempt, tok>>
      BY WorldFrame
    <3>7. attempt' = attempt /\ (tok'[n] = tok[n] \/ tok'[n].iat = clock)
      BY <3>1, <3>2, <3>3, <3>4, <3>5, <3>6 DEF Next
    <3>8. QED
      BY <1>0, <2>4, <3>7 DEF Newer
  <2>5. QED
    BY <1>0, <2>1, <2>2, <2>3, <2>4 DEF Newer
<1>5. QED
  BY <1>1, <1>2, <1>3, <1>4 DEF Writes

\* Where only renewals write tokens, the cached token never gets older: an
\* overtaken renewal cannot undo what its successor stored.
THEOREM CacheOnlyAdvances ==
  ASSUME Ops \cap {"activate", "renew"} = {}
  PROVE  Spec => CacheNeverRegresses
<1>1. Init => OwnTokens /\ Newer
  BY ThreadKinds, ConstantsAssumption DEF Init, All, OwnTokens, Newer
<1>2. TypeInv /\ SafeInv /\ HostShape /\ OwnTokens /\ Newer /\ [Next]_vars => Newer'
  BY NewerStep
<1>3. TypeInv /\ SafeInv /\ HostShape /\ OwnTokens /\ Newer /\ [Next]_vars
        => [cache # NoToken /\ cache' # NoToken /\ cache'.aid = cache.aid
              => cache'.iat >= cache.iat]_vars
  BY NewerStep
<1>4. QED
  BY <1>1, <1>2, <1>3, TypeInit, TypeStep, SafeInit, SafeStep, HostShapeInit,
     HostShapeStep, OwnTokensStep, PTL DEF Spec, CacheNeverRegresses

-----------------------------------------------------------------------------
(* Outdated failures *)

\* Without `renew` the last attempt is the start of the latest renewal.
Stamped == attempt >= 1 => lastAttempt = seen[attempt]

LEMMA StampedStep ==
  ASSUME "renew" \notin Ops, TypeInv, HostShape, Stamped, [Next]_vars
  PROVE  Stamped'
<1>. USE ThreadKinds DEF TypeInv
<1>0. attempt \in 0 .. MaxAttempts /\ (attempt >= 1 => attempt \in Attempts)
  BY ConstantsAssumption DEF TypeOK, Attempts
<1>1. ASSUME NEW c \in Callers, CallerStep(c), ~CheckStart(c) PROVE Stamped'
  <2>1. pc[c] # "stamp"
    BY DEF HostShape
  <2>2. QED
    BY <1>0, <1>1, <2>1, CallerFrame DEF Stamped
<1>2. ASSUME NEW c \in Callers, CheckStart(c) PROVE Stamped'
  BY <1>2, StartFrame DEF Stamped, TypeOK
<1>3. ASSUME NEW n \in Attempts, RenewalStep(n) \/ BackgroundPanic(n) PROVE Stamped'
  BY <1>3, RenewalFrame DEF Stamped
<1>4. CASE HostCall
  BY <1>4 DEF HostCall, Begin, mutex, Stamped
<1>5. CASE Crash
  BY <1>5 DEF Crash, Stamped
<1>6. CASE LateArrival \/ Revoke \/ Tick \/ Quiescent \/ UNCHANGED vars
  BY <1>6, WorldFrame DEF Stamped
<1>7. QED
  BY <1>1, <1>2, <1>3, <1>4, <1>5, <1>6 DEF Next

LEMMA StampedHolds ==
  ASSUME "renew" \notin Ops
  PROVE  Spec => [](TypeInv /\ HostShape /\ Stamped)
<1>1. Init => Stamped
  BY DEF Init, Stamped
<1>2. TypeInv /\ HostShape /\ Stamped /\ [Next]_vars => Stamped'
  BY StampedStep
<1>3. QED
  BY <1>1, <1>2, TypeInit, TypeStep, HostShapeInit, HostShapeStep, PTL DEF Spec

\* Only the latest renewal sets the flag, and nothing was attempted since it
\* began: no outdated failure is recorded after a success.
THEOREM FailuresAreCurrent ==
  ASSUME "renew" \notin Ops
  PROVE  Spec => FlagNotOutdated
<1>1. TypeInv /\ HostShape /\ Stamped /\ [Next]_vars
        => [~renewalFailed /\ renewalFailed' /\ cache # NoToken =>
              \A t \in Threads : pc'[t] # pc[t] /\ seen[t] < lastAttempt
                                   => cache.iat <= seen[t]]_vars
  <2>1. SUFFICES ASSUME TypeInv, HostShape, Stamped, [Next]_vars,
                        ~renewalFailed, renewalFailed',
                        NEW t \in Threads, pc'[t] # pc[t], seen[t] < lastAttempt
                 PROVE  FALSE
    OBVIOUS
  <2>2. ASSUME NEW c \in Callers, CallerStep(c) PROVE ~renewalFailed'
    <3>1. ~RenewNote(c)
      BY <2>1 DEF RenewNote, HostShape
    <3>2. QED
      BY <2>1, <2>2, <3>1 DEF CallerStep, Load, Fast, CheckVerdict, CheckDue, CheckSkip,
         CheckStart, CheckFlag, RenewClock, RenewStamp, Answer, Abandon, Receive,
         ClearBegin, ClearEnd, Accept, SaveBegin, SaveEnd
  <2>3. PICK n \in Attempts : BackgroundRecord(n)
    BY <2>1, <2>2 DEF Next, HostCall, Begin, LateArrival, Revoke, Tick, Crash, Quiescent,
       vars, RenewalStep, BackgroundPanic, Answer, Abandon, BackgroundVerify,
       BackgroundStale, BackgroundWrite, BackgroundDrop
  <2>4. t = n
    BY <2>1, <2>3 DEF BackgroundRecord, Goto, TypeInv, TypeOK
  <2>5. attempt = n /\ attempt >= 1
    BY <2>3, ConstantsAssumption DEF BackgroundRecord, Latest, Attempts
  <2>6. seen[t] = lastAttempt /\ seen[t] \in Nat
    BY <2>1, <2>4, <2>5 DEF Stamped, TypeInv, TypeOK
  <2>7. QED
    BY <2>1, <2>6
<1>2. QED
  BY <1>1, StampedHolds, PTL DEF Spec, FlagNotOutdated
=============================================================================
