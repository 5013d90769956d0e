----------------------------- MODULE SdkProofs -----------------------------
(***************************************************************************)
(* Invariants of Sdk for every number of host threads, activations, calls, *)
(* renewals and restarts, and every value of the time constants.           *)
(***************************************************************************)
EXTENDS Sdk, TLAPS

\* Who can be where: what a thread carries follows from its place in the code.
Shape ==
  /\ \A c \in Callers : pc[c] \in CallerPcs
  /\ \A n \in Attempts : pc[n] \in RenewalPcs
  /\ \A n \in Attempts : n > attempt => pc[n] = "idle"
  /\ \A n \in Attempts : pc[n] # "idle" => call[n].op = "renew"
  /\ \A t \in Threads : call[t].op \in AllOps \ {"check"} => call[t].aid \in Aids
  /\ \A c \in Callers : pc[c] \in {"clear", "clearing"} =>
       call[c].op \in {"activate", "renew", "deactivate"}
  /\ \A c \in Callers : pc[c] \in {"verdict", "due", "try"} => tok[c] # NoToken

\* The flag is down whenever the mutex is held across a file write.
FlagDownUnderLock == lock # Free => ~renewalFailed

TypeInv == TypeOK /\ Shape

\* Threads split into the two kinds, and the marker of a free mutex is none.
LEMMA ThreadKinds ==
  /\ Callers \subseteq Threads
  /\ Attempts \subseteq Threads
  /\ \A c \in Callers, n \in Attempts : c # n
  /\ Free \notin Threads
  /\ Attempts \subseteq Nat
  BY NamesAssumption, ConstantsAssumption DEF Threads, Attempts

\* A seat stays one of the server's three states whatever request arrives.
LEMMA SeatTyped ==
  ASSUME seat \in [Aids -> {"free", "held", "revoked"}], NEW r, Take(r)
  PROVE  seat' \in [Aids -> {"free", "held", "revoked"}]
<1>1. r.aid \in Aids => SeatAfter(r) \in {"free", "held", "revoked"}
  BY DEF SeatAfter
<1>2. QED
  BY <1>1 DEF Take

\* The first state is well typed.
LEMMA TypeInit == Init => TypeInv
<1>1. SUFFICES ASSUME Init PROVE TypeOK /\ Shape
  BY DEF TypeInv
<1>2. cache \in Tokens \cup {NoToken}
  <2>1. 1 .. StartTime \subseteq Nat
    OBVIOUS
  <2>2. QED
    BY <1>1, <2>1, ConstantsAssumption DEF Init, Tokens
<1>3. NoCall \in CallRecords
  BY DEF NoCall, CallRecords
<1>4. TypeOK
  <2>1. clock \in Nat /\ renewalFailed \in BOOLEAN /\ lock \in Threads \cup {Free}
    BY <1>1, ConstantsAssumption DEF Init
  <2>2. /\ attempt \in 0 .. MaxAttempts
        /\ inFlight \in Nat \cup {Never} /\ lastAttempt \in Nat \cup {Never}
        /\ calls \in 0 .. MaxCalls /\ crashes \in 0 .. MaxCrashes
    BY <1>1, ConstantsAssumption DEF Init
  <2>3. QED
    BY <1>1, <1>2, <1>3, <2>1, <2>2 DEF Init, TypeOK, All, CallerPcs, RenewalPcs
<1>5. Shape
  BY <1>1, ThreadKinds DEF Init, Shape, All, CallerPcs, RenewalPcs, NoCall, AllOps
<1>6. QED
  BY <1>4, <1>5

\* Every step keeps the types and the shape.
LEMMA TypeStep == TypeInv /\ [Next]_vars => TypeInv'
<1>. SUFFICES ASSUME TypeOK, Shape, [Next]_vars
             PROVE  TypeOK' /\ Shape'
  BY DEF TypeInv
<1>. USE ThreadKinds
<1>0. NoCall \in CallRecords /\ NoCall.op = "none"
  BY DEF NoCall, CallRecords
<1>1. ASSUME NEW c \in Callers, NEW op \in Ops, NEW a \in Arguments(op), Begin(c, op, a)
      PROVE  TypeOK' /\ Shape'
  <2>1. [op |-> op, aid |-> a] \in CallRecords /\ (op # "check" => a \in Aids)
    BY ConstantsAssumption DEF CallRecords, Arguments
  <2>2. Entry(op) \in {"load", "clock", "post"}
    BY DEF Entry
  <2>3. TypeOK'
    BY <1>1, <2>1, <2>2, ConstantsAssumption DEF TypeOK, Begin, Goto, mutex, server,
         CallerPcs, RenewalPcs
  <2>4. Shape'
    BY <1>1, <2>1, <2>2 DEF TypeOK, Shape, Begin, Goto, mutex, server, CallerPcs
  <2>5. QED
    BY <2>3, <2>4
<1>2. ASSUME NEW c \in Callers, Load(c) PROVE TypeOK' /\ Shape'
  <2>1. TypeOK'
    BY <1>0, <1>2 DEF TypeOK, Shape, Load, Goto, Return, mutex, server, bounds,
         CallerPcs, RenewalPcs
  <2>2. Shape'
    BY <1>0, <1>2 DEF TypeOK, Shape, Load, Goto, Return, mutex, server, bounds,
         CallerPcs, RenewalPcs, AllOps
  <2>3. QED
    BY <2>1, <2>2
<1>3. ASSUME NEW c \in Callers, Fast(c) PROVE TypeOK' /\ Shape'
  <2>1. CASE Goto(c, "post")
    <3>1. /\ tok' = [tok EXCEPT ![c] = NoToken] /\ UNCHANGED <<call, seen, outcome>>
          /\ UNCHANGED <<clock, cache, renewalFailed, mutex, server, bounds, gone>>
          /\ pc[c] = "fast"
      BY <1>3, <2>1 DEF TypeOK, Fast, Goto, Return, CallerPcs
    <3>2. TypeOK'
      BY <2>1, <3>1 DEF TypeOK, Goto, mutex, server, bounds, CallerPcs, RenewalPcs
    <3>3. Shape'
      BY <2>1, <3>1 DEF TypeOK, Shape, Goto, mutex, server, bounds, CallerPcs
    <3>4. QED
      BY <3>2, <3>3
  <2>2. ASSUME NEW r \in {"ok", "in_grace"}, Return(c, r) PROVE TypeOK' /\ Shape'
    <3>1. UNCHANGED <<clock, cache, renewalFailed, mutex, server, bounds, gone>>
      BY <1>3 DEF Fast
    <3>2. TypeOK'
      BY <1>0, <2>2, <3>1 DEF TypeOK, Return, mutex, server, bounds, CallerPcs
    <3>3. Shape'
      BY <1>0, <2>2, <3>1 DEF TypeOK, Shape, Return, mutex, server, bounds,
           CallerPcs, AllOps
    <3>4. QED
      BY <3>2, <3>3
  <2>3. QED
    BY <1>3, <2>1, <2>2 DEF Fast
<1>4. ASSUME NEW c \in Callers, CheckVerdict(c) PROVE TypeOK' /\ Shape'
  <2>1. TypeOK'
    BY <1>0, <1>4 DEF TypeOK, Shape, CheckVerdict, Goto, Return, mutex, server, bounds,
         CallerPcs, RenewalPcs
  <2>2. Shape'
    BY <1>0, <1>4 DEF TypeOK, Shape, CheckVerdict, Goto, Return, mutex, server, bounds,
         CallerPcs, RenewalPcs, AllOps
  <2>3. QED
    BY <2>1, <2>2
<1>5. ASSUME NEW c \in Callers, CheckDue(c) PROVE TypeOK' /\ Shape'
  <2>1. TypeOK'
    BY <1>0, <1>5 DEF TypeOK, Shape, CheckDue, Goto, mutex, server, bounds, CallerPcs,
         RenewalPcs
  <2>2. Shape'
    BY <1>0, <1>5 DEF TypeOK, Shape, CheckDue, Goto, mutex, server, bounds, CallerPcs,
         RenewalPcs, AllOps
  <2>3. QED
    BY <2>1, <2>2
<1>6. ASSUME NEW c \in Callers, CheckSkip(c) PROVE TypeOK' /\ Shape'
  <2>1. TypeOK'
    BY <1>0, <1>6 DEF TypeOK, Shape, CheckSkip, Goto, mutex, server, bounds, CallerPcs,
         RenewalPcs
  <2>2. Shape'
    BY <1>0, <1>6 DEF TypeOK, Shape, CheckSkip, Goto, mutex, server, bounds, CallerPcs,
         RenewalPcs, AllOps
  <2>3. QED
    BY <2>1, <2>2
<1>7. ASSUME NEW c \in Callers, CheckStart(c) PROVE TypeOK' /\ Shape'
  <2>1. TypeOK'
    <3>1. attempt + 1 \in Attempts /\ tok[c] \in Tokens /\ pc[attempt + 1] = "idle"
      BY <1>7, ConstantsAssumption DEF TypeOK, Shape, CheckStart, Attempts
    <3>2. [op |-> "renew", aid |-> tok[c].aid] \in CallRecords
      BY <3>1 DEF Tokens, CallRecords, AllOps
    <3>3. call' \in [Threads -> CallRecords]
      BY <1>7, <3>1, <3>2 DEF TypeOK, CheckStart
    <3>4. inFlight' \in Nat \cup {Never} /\ lastAttempt' \in Nat \cup {Never}
      BY <1>7 DEF TypeOK, CheckStart
    <3>5. pc' \in [Threads -> CallerPcs \cup RenewalPcs]
      <4>1. pc \in [Threads -> CallerPcs \cup RenewalPcs]
        BY DEF TypeOK
      <4>2. "flag" \in CallerPcs /\ "post" \in RenewalPcs
        BY DEF CallerPcs, RenewalPcs
      <4>3. \/ pc' = [pc EXCEPT ![c] = "flag", ![attempt + 1] = "post"]
            \/ pc' = [pc EXCEPT ![c] = "flag"]
        BY <1>7 DEF CheckStart, Goto
      <4>4. QED
        BY <3>1, <4>1, <4>2, <4>3
    <3>6. \A u \in Threads : outcome'[u] = "ageing" => pc'[u] \in {"due", "try", "flag"}
      BY <1>7, <3>1 DEF TypeOK, CheckStart, Goto
    <3>7. attempt' \in 0 .. MaxAttempts /\ seen' \in [Threads -> Nat]
      BY <1>7, <3>1, ConstantsAssumption DEF TypeOK, CheckStart, Attempts
    <3>8. UNCHANGED <<clock, cache, renewalFailed, lock, tok, outcome, seat, late,
                      calls, crashes, gone>>
      BY <1>7 DEF CheckStart, server, bounds
    <3>9. QED
      BY <3>3, <3>4, <3>5, <3>6, <3>7, <3>8 DEF TypeOK
  <2>2. Shape'
    BY <1>0, <1>7 DEF TypeOK, Shape, CheckStart, Goto, Tokens, CallRecords, mutex,
         server, bounds, CallerPcs, RenewalPcs, AllOps
  <2>3. QED
    BY <2>1, <2>2
<1>8. ASSUME NEW c \in Callers, CheckFlag(c) PROVE TypeOK' /\ Shape'
  <2>1. TypeOK'
    BY <1>0, <1>8 DEF TypeOK, Shape, CheckFlag, Return, mutex, server, bounds,
         CallerPcs, RenewalPcs
  <2>2. Shape'
    BY <1>0, <1>8 DEF TypeOK, Shape, CheckFlag, Return, mutex, server, bounds,
         CallerPcs, RenewalPcs, AllOps
  <2>3. QED
    BY <2>1, <2>2
<1>9. ASSUME NEW c \in Callers, RenewClock(c) PROVE TypeOK' /\ Shape'
  <2>1. TypeOK'
    BY <1>0, <1>9 DEF TypeOK, Shape, RenewClock, Goto, mutex, server, bounds, CallerPcs,
         RenewalPcs
  <2>2. Shape'
    BY <1>0, <1>9 DEF TypeOK, Shape, RenewClock, Goto, mutex, server, bounds, CallerPcs,
         RenewalPcs, AllOps
  <2>3. QED
    BY <2>1, <2>2
<1>10. ASSUME NEW c \in Callers, RenewStamp(c) PROVE TypeOK' /\ Shape'
  <2>1. TypeOK'
    BY <1>0, <1>10 DEF TypeOK, Shape, RenewStamp, Goto, mutex, server, bounds,
         CallerPcs, RenewalPcs
  <2>2. Shape'
    BY <1>0, <1>10 DEF TypeOK, Shape, RenewStamp, Goto, mutex, server, bounds,
         CallerPcs, RenewalPcs, AllOps
  <2>3. QED
    BY <2>1, <2>2
<1>11. ASSUME NEW t \in Threads, Answer(t) PROVE TypeOK' /\ Shape'
  <2>1. TypeOK'
    <3>1. seat' \in [Aids -> {"free", "held", "revoked"}]
      BY <1>11, SeatTyped
         DEF TypeOK, Answer, AnswerOk, AnswerGarbled, AnswerRejected, AnswerError
    <3>2. tok' \in [Threads -> Tokens \cup {NoToken}]
      <4>1. CASE AnswerOk(t)
        <5>1. CASE call[t].op \in {"activate", "renew"}
          <6>1. call[t].aid \in Aids
            BY <5>1 DEF Shape, AllOps
          <6>2. PICK e \in Expiries, s \in Seals :
                  tok' = [tok EXCEPT ![t] = [aid |-> call[t].aid, iat |-> clock,
                                             exp |-> e, seal |-> s]]
            BY <4>1, <5>1 DEF AnswerOk
          <6>3. [aid |-> call[t].aid, iat |-> clock, exp |-> e, seal |-> s] \in Tokens
            BY <6>1, ConstantsAssumption DEF TypeOK, Tokens
          <6>4. QED
            BY <6>2, <6>3 DEF TypeOK
        <5>2. CASE call[t].op \notin {"activate", "renew"}
          BY <4>1, <5>2 DEF TypeOK, AnswerOk
        <5>3. QED
          BY <5>1, <5>2
      <4>2. CASE ~AnswerOk(t)
        BY <1>11, <4>2 DEF TypeOK, Answer, AnswerGarbled, AnswerRejected, AnswerError
      <4>3. QED
        BY <4>1, <4>2
    <3>3. outcome' \in [Threads -> {"none", "ok", "ageing", "in_grace", "expired",
                            "not_activated", "network", "server", "rejected"}]
      BY <1>11 DEF TypeOK, Answer, AnswerOk, AnswerGarbled, AnswerRejected, AnswerError
    <3>4. pc' = [pc EXCEPT ![t] = "reply"]
      BY <1>11 DEF Answer, Goto
    <3>5. \A u \in Threads : outcome'[u] = "ageing" => pc'[u] \in {"due", "try", "flag"}
      BY <1>11, <3>4
         DEF TypeOK, Answer, AnswerOk, AnswerGarbled, AnswerRejected, AnswerError
    <3>6. QED
      BY <1>11, <3>1, <3>2, <3>3, <3>4, <3>5 DEF TypeOK, Answer, mutex, bounds,
           CallerPcs, RenewalPcs
  <2>2. Shape'
    BY <1>0, <1>11 DEF TypeOK, Shape, Answer, Goto, AnswerOk, AnswerGarbled,
         AnswerRejected, AnswerError, Tokens, mutex, server, bounds, CallerPcs,
         RenewalPcs, AllOps
  <2>3. QED
    BY <2>1, <2>2
<1>12. ASSUME NEW t \in Threads, Abandon(t) PROVE TypeOK' /\ Shape'
  <2>1. TypeOK'
    BY <1>0, <1>12 DEF TypeOK, Shape, Abandon, Goto, ChangesSeat, mutex, server, bounds,
         CallerPcs, RenewalPcs
  <2>2. Shape'
    BY <1>0, <1>12 DEF TypeOK, Shape, Abandon, Goto, ChangesSeat, mutex, server, bounds,
         CallerPcs, RenewalPcs, AllOps
  <2>3. QED
    BY <2>1, <2>2
<1>13. ASSUME NEW c \in Callers, Receive(c) PROVE TypeOK' /\ Shape'
  <2>1. TypeOK'
    BY <1>0, <1>13 DEF TypeOK, Shape, Receive, Goto, Return, mutex, server, bounds,
         CallerPcs, RenewalPcs
  <2>2. Shape'
    BY <1>0, <1>13 DEF TypeOK, Shape, Receive, Goto, Return, mutex, server, bounds,
         CallerPcs, RenewalPcs, AllOps
  <2>3. QED
    BY <2>1, <2>2
<1>14. ASSUME NEW c \in Callers, ClearBegin(c) PROVE TypeOK' /\ Shape'
  <2>1. TypeOK'
    BY <1>0, <1>14 DEF TypeOK, Shape, ClearBegin, Goto, mutex, server, bounds,
         CallerPcs, RenewalPcs
  <2>2. Shape'
    BY <1>0, <1>14 DEF TypeOK, Shape, ClearBegin, Goto, mutex, server, bounds,
         CallerPcs, RenewalPcs, AllOps
  <2>3. QED
    BY <2>1, <2>2
<1>15. ASSUME NEW c \in Callers, ClearEnd(c) PROVE TypeOK' /\ Shape'
  <2>1. TypeOK'
    <3>1. call[c].aid \in Aids
      BY <1>15 DEF Shape, ClearEnd, AllOps
    <3>2. gone' \subseteq Aids
      BY <1>15, <3>1 DEF TypeOK, ClearEnd, Drop
    <3>3. cache' \in Tokens \cup {NoToken}
      BY <1>15 DEF TypeOK, ClearEnd, FileAfter
    <3>4. QED
      BY <1>0, <1>15, <3>2, <3>3 DEF TypeOK, ClearEnd, Goto, Return, server, bounds,
           CallerPcs, RenewalPcs
  <2>2. Shape'
    BY <1>0, <1>15 DEF TypeOK, Shape, ClearEnd, Goto, Return, FileAfter, Drop, mutex,
         server, bounds, CallerPcs, RenewalPcs, AllOps
  <2>3. QED
    BY <2>1, <2>2
<1>16. ASSUME NEW c \in Callers, RenewNote(c) PROVE TypeOK' /\ Shape'
  <2>1. TypeOK'
    <3>1. renewalFailed' \in BOOLEAN
      BY <1>16 DEF RenewNote, Noted
    <3>2. QED
      BY <1>0, <1>16, <3>1 DEF TypeOK, RenewNote, Goto, Return, mutex, server, bounds,
           CallerPcs, RenewalPcs
  <2>2. Shape'
    BY <1>0, <1>16 DEF TypeOK, Shape, RenewNote, Goto, Return, Noted, HoldsActivation,
         mutex, server, bounds, CallerPcs, RenewalPcs, AllOps
  <2>3. QED
    BY <2>1, <2>2
<1>17. ASSUME NEW c \in Callers, Accept(c) PROVE TypeOK' /\ Shape'
  <2>1. TypeOK'
    BY <1>0, <1>17 DEF TypeOK, Shape, Accept, Goto, Return, mutex, server, bounds,
         CallerPcs, RenewalPcs
  <2>2. Shape'
    BY <1>0, <1>17 DEF TypeOK, Shape, Accept, Goto, Return, mutex, server, bounds,
         CallerPcs, RenewalPcs, AllOps
  <2>3. QED
    BY <2>1, <2>2
<1>18. ASSUME NEW c \in Callers, SaveBegin(c) PROVE TypeOK' /\ Shape'
  <2>1. TypeOK'
    BY <1>0, <1>18 DEF TypeOK, Shape, SaveBegin, Goto, mutex, server, bounds, CallerPcs,
         RenewalPcs
  <2>2. Shape'
    BY <1>0, <1>18 DEF TypeOK, Shape, SaveBegin, Goto, mutex, server, bounds, CallerPcs,
         RenewalPcs, AllOps
  <2>3. QED
    BY <2>1, <2>2
<1>19. ASSUME NEW c \in Callers, SaveEnd(c) PROVE TypeOK' /\ Shape'
  <2>1. TypeOK'
    BY <1>0, <1>19 DEF TypeOK, Shape, SaveEnd, Return, FileAfter, mutex, server, bounds,
         CallerPcs, RenewalPcs
  <2>2. Shape'
    BY <1>0, <1>19 DEF TypeOK, Shape, SaveEnd, Return, FileAfter, mutex, server, bounds,
         CallerPcs, RenewalPcs, AllOps
  <2>3. QED
    BY <2>1, <2>2
<1>20. ASSUME NEW n \in Attempts, BackgroundVerify(n) PROVE TypeOK' /\ Shape'
  <2>1. TypeOK'
    BY <1>0, <1>20 DEF TypeOK, Shape, BackgroundVerify, Goto, mutex, server, bounds,
         CallerPcs, RenewalPcs
  <2>2. Shape'
    BY <1>0, <1>20 DEF TypeOK, Shape, BackgroundVerify, Goto, mutex, server, bounds,
         CallerPcs, RenewalPcs, AllOps
  <2>3. QED
    BY <2>1, <2>2
<1>21. ASSUME NEW n \in Attempts, BackgroundStale(n) PROVE TypeOK' /\ Shape'
  <2>1. TypeOK'
    BY <1>0, <1>21 DEF TypeOK, Shape, BackgroundStale, Goto, mutex, server, bounds,
         CallerPcs, RenewalPcs
  <2>2. Shape'
    BY <1>0, <1>21 DEF TypeOK, Shape, BackgroundStale, Goto, mutex, server, bounds,
         CallerPcs, RenewalPcs, AllOps
  <2>3. QED
    BY <2>1, <2>2
<1>22. ASSUME NEW n \in Attempts, BackgroundRecord(n) PROVE TypeOK' /\ Shape'
  <2>1. TypeOK'
    BY <1>0, <1>22 DEF TypeOK, Shape, BackgroundRecord, Goto, Noted, HoldsActivation,
         mutex, server, bounds, CallerPcs, RenewalPcs
  <2>2. Shape'
    BY <1>0, <1>22 DEF TypeOK, Shape, BackgroundRecord, Goto, Noted, HoldsActivation,
         mutex, server, bounds, CallerPcs, RenewalPcs, AllOps
  <2>3. QED
    BY <2>1, <2>2
<1>23. ASSUME NEW n \in Attempts, BackgroundWrite(n) PROVE TypeOK' /\ Shape'
  <2>1. TypeOK'
    <3>1. call[n].aid \in Aids
      BY <1>23 DEF Shape, BackgroundWrite, AllOps
    <3>2. gone' \subseteq Aids
      BY <1>23, <3>1 DEF TypeOK, BackgroundWrite, Drop
    <3>3. cache' \in Tokens \cup {NoToken}
      BY <1>23 DEF TypeOK, BackgroundWrite, FileAfter
    <3>4. QED
      BY <1>23, <3>2, <3>3 DEF TypeOK, BackgroundWrite, Goto, server, bounds, CallerPcs,
           RenewalPcs
  <2>2. Shape'
    BY <1>0, <1>23 DEF TypeOK, Shape, BackgroundWrite, Goto, FileAfter, Drop, mutex,
         server, bounds, CallerPcs, RenewalPcs, AllOps
  <2>3. QED
    BY <2>1, <2>2
<1>24. ASSUME NEW n \in Attempts, BackgroundPanic(n) PROVE TypeOK' /\ Shape'
  <2>1. TypeOK'
    BY <1>0, <1>24 DEF TypeOK, Shape, BackgroundPanic, Goto, mutex, server, bounds,
         CallerPcs, RenewalPcs
  <2>2. Shape'
    BY <1>0, <1>24 DEF TypeOK, Shape, BackgroundPanic, Goto, mutex, server, bounds,
         CallerPcs, RenewalPcs, AllOps
  <2>3. QED
    BY <2>1, <2>2
<1>25. ASSUME NEW n \in Attempts, BackgroundDrop(n) PROVE TypeOK' /\ Shape'
  <2>1. TypeOK'
    BY <1>0, <1>25 DEF TypeOK, Shape, BackgroundDrop, Goto, mutex, server, bounds,
         CallerPcs, RenewalPcs
  <2>2. Shape'
    BY <1>0, <1>25 DEF TypeOK, Shape, BackgroundDrop, Goto, mutex, server, bounds,
         CallerPcs, RenewalPcs, AllOps
  <2>3. QED
    BY <2>1, <2>2
<1>26. ASSUME LateArrival PROVE TypeOK' /\ Shape'
  <2>1. TypeOK'
    BY <1>26, SeatTyped DEF TypeOK, LateArrival, mutex, thread, server, bounds
  <2>2. Shape'
    BY <1>26 DEF Shape, LateArrival, mutex, thread
  <2>3. QED
    BY <2>1, <2>2
<1>27. ASSUME Revoke PROVE TypeOK' /\ Shape'
  <2>1. TypeOK'
    BY <1>27, SeatTyped DEF TypeOK, Revoke, mutex, thread, server, bounds
  <2>2. Shape'
    BY <1>27 DEF Shape, Revoke, mutex, thread
  <2>3. QED
    BY <2>1, <2>2
<1>28. ASSUME Tick PROVE TypeOK' /\ Shape'
  <2>1. TypeOK'
    BY <1>28, SeatTyped DEF TypeOK, Tick, mutex, thread, server, bounds
  <2>2. Shape'
    BY <1>28 DEF Shape, Tick, mutex, thread
  <2>3. QED
    BY <2>1, <2>2
<1>29. ASSUME Crash PROVE TypeOK' /\ Shape'
  <2>1. TypeOK'
    <3>1. late' \subseteq CallRecords
      BY <1>29 DEF TypeOK, Crash
    <3>2. attempt' \in 0 .. MaxAttempts /\ crashes' \in 0 .. MaxCrashes
      BY <1>29, ConstantsAssumption DEF TypeOK, Crash
    <3>3. QED
      BY <1>0, <1>29, <3>1, <3>2 DEF TypeOK, Crash, All, CallerPcs, RenewalPcs
  <2>2. Shape'
    BY <1>0, <1>29 DEF Shape, Crash, All, CallerPcs, RenewalPcs, AllOps
  <2>3. QED
    BY <2>1, <2>2
<1>30. ASSUME UNCHANGED vars PROVE TypeOK' /\ Shape'
  BY <1>30 DEF TypeOK, Shape, vars, mutex, thread, server, bounds
<1>31. ASSUME NEW c \in Callers, CallerStep(c) PROVE TypeOK' /\ Shape'
  BY <1>31, <1>2, <1>3, <1>4, <1>5, <1>6, <1>7, <1>8, <1>9, <1>10, <1>11, <1>12, <1>13,
       <1>14, <1>15, <1>16, <1>17, <1>18, <1>19 DEF CallerStep
<1>32. ASSUME NEW n \in Attempts, RenewalStep(n) PROVE TypeOK' /\ Shape'
  BY <1>32, <1>11, <1>12, <1>20, <1>21, <1>22, <1>23, <1>24, <1>25 DEF RenewalStep
<1>33. QED
  BY <1>1, <1>31, <1>32, <1>24, <1>26, <1>27, <1>28, <1>29, <1>30
     DEF Next, HostCall, Quiescent

\* The types hold in every reachable state.
THEOREM TypeCorrect == Spec => []TypeOK
<1>1. TypeInv => TypeOK
  BY DEF TypeInv
<1>2. QED
  BY TypeInit, TypeStep, <1>1, PTL DEF Spec

-----------------------------------------------------------------------------
\* What the mutex protects: see the properties of Sdk for each part.
SafeInv ==
  /\ LockHeldByWriter
  /\ FlagDownUnderLock
  /\ InFlightOwned
  /\ WriteGuarded
  /\ FlagNeedsToken

Writing == {"clearing", "saving", "write"}

\* Most actions move one thread between two places outside the writing ones
\* and leave alone everything the mutex protects.
QuietStep(t) ==
  /\ \E l \in (CallerPcs \cup RenewalPcs) \ Writing :
       /\ pc' = [pc EXCEPT ![t] = l]
       /\ t \in Attempts => l # "idle"
  /\ pc[t] \notin Writing
  /\ UNCHANGED <<cache, renewalFailed, lock, attempt, inFlight>>
  /\ \A n \in Attempts : seen'[n] = seen[n] /\ call'[n] = call[n]

\* A quiet step keeps SafeInv.
LEMMA QuietKeepsSafe ==
  ASSUME TypeOK, SafeInv, NEW t \in Threads, QuietStep(t)
  PROVE  SafeInv'
<1>. USE ThreadKinds
<1>1. /\ pc \in [Threads -> CallerPcs \cup RenewalPcs]
      /\ UNCHANGED <<cache, renewalFailed, lock, attempt, inFlight>>
      /\ \A n \in Attempts : seen'[n] = seen[n] /\ call'[n] = call[n]
  BY DEF TypeOK, QuietStep
<1>2. /\ \A u \in Threads : pc'[u] \in Writing <=> pc[u] \in Writing
      /\ \A u \in Threads : pc'[u] \in Writing => pc'[u] = pc[u]
      /\ \A n \in Attempts : pc'[n] = "idle" => pc[n] = "idle"
  BY <1>1 DEF QuietStep, Writing
<1>3. LockHeldByWriter'
  BY <1>1, <1>2 DEF SafeInv, LockHeldByWriter, Writing
<1>4. InFlightOwned'
  BY <1>1, <1>2 DEF TypeOK, SafeInv, InFlightOwned, Attempts
<1>5. WriteGuarded'
  BY <1>1, <1>2 DEF SafeInv, WriteGuarded, Writing
<1>6. FlagDownUnderLock' /\ FlagNeedsToken'
  BY <1>1 DEF SafeInv, FlagDownUnderLock, FlagNeedsToken
<1>7. QED
  BY <1>3, <1>4, <1>5, <1>6 DEF SafeInv

\* At the start nothing is held, marked or flagged.
LEMMA SafeInit == Init => SafeInv
<1>. SUFFICES ASSUME Init PROVE SafeInv
  OBVIOUS
<1>1. lock = Free /\ inFlight = Never /\ renewalFailed = FALSE
  BY DEF Init
<1>2. \A t \in Threads : pc[t] = "idle"
  BY DEF Init, All
<1>3. LockHeldByWriter
  BY <1>1, <1>2, ThreadKinds DEF LockHeldByWriter
<1>4. InFlightOwned /\ FlagDownUnderLock /\ FlagNeedsToken
  BY <1>1 DEF InFlightOwned, FlagDownUnderLock, FlagNeedsToken
<1>5. WriteGuarded
  BY <1>2, ThreadKinds DEF WriteGuarded
<1>6. QED
  BY <1>3, <1>4, <1>5 DEF SafeInv

\* Every step keeps SafeInv.
LEMMA SafeStep == TypeInv /\ SafeInv /\ [Next]_vars => SafeInv'
<1>. SUFFICES ASSUME TypeOK, Shape, SafeInv, [Next]_vars
             PROVE  SafeInv'
  BY DEF TypeInv
<1>. USE ThreadKinds
<1>1. ASSUME NEW c \in Callers, NEW op \in Ops, NEW a \in Arguments(op), Begin(c, op, a)
      PROVE  SafeInv'
  <2>1. QuietStep(c)
    BY <1>1 DEF TypeOK, Begin, Goto, Entry, QuietStep, Writing, CallerPcs, mutex
  <2>2. QED
    BY <2>1, QuietKeepsSafe
<1>2. ASSUME NEW c \in Callers, Load(c) PROVE SafeInv'
  <2>1. QuietStep(c)
    BY <1>2 DEF TypeOK, Shape, Load, Goto, Return, QuietStep, Writing, CallerPcs,
         RenewalPcs, mutex
  <2>2. QED
    BY <2>1, QuietKeepsSafe
<1>3. ASSUME NEW c \in Callers, Fast(c) PROVE SafeInv'
  <2>1. QuietStep(c)
    BY <1>3 DEF TypeOK, Shape, Fast, Goto, Return, QuietStep, Writing, CallerPcs,
         RenewalPcs, mutex
  <2>2. QED
    BY <2>1, QuietKeepsSafe
<1>4. ASSUME NEW c \in Callers, CheckVerdict(c) PROVE SafeInv'
  <2>1. QuietStep(c)
    BY <1>4 DEF TypeOK, Shape, CheckVerdict, Goto, Return, QuietStep, Writing,
         CallerPcs, RenewalPcs, mutex
  <2>2. QED
    BY <2>1, QuietKeepsSafe
<1>5. ASSUME NEW c \in Callers, CheckDue(c) PROVE SafeInv'
  <2>1. QuietStep(c)
    BY <1>5 DEF TypeOK, Shape, CheckDue, Goto, QuietStep, Writing, CallerPcs,
         RenewalPcs, mutex
  <2>2. QED
    BY <2>1, QuietKeepsSafe
<1>6. ASSUME NEW c \in Callers, CheckSkip(c) PROVE SafeInv'
  <2>1. QuietStep(c)
    BY <1>6 DEF TypeOK, Shape, CheckSkip, Goto, QuietStep, Writing, CallerPcs,
         RenewalPcs, mutex
  <2>2. QED
    BY <2>1, QuietKeepsSafe
<1>7. ASSUME NEW c \in Callers, CheckFlag(c) PROVE SafeInv'
  <2>1. QuietStep(c)
    BY <1>7 DEF TypeOK, Shape, CheckFlag, Return, QuietStep, Writing, CallerPcs,
         RenewalPcs, mutex
  <2>2. QED
    BY <2>1, QuietKeepsSafe
<1>8. ASSUME NEW c \in Callers, RenewClock(c) PROVE SafeInv'
  <2>1. QuietStep(c)
    BY <1>8 DEF TypeOK, Shape, RenewClock, Goto, QuietStep, Writing, CallerPcs,
         RenewalPcs, mutex
  <2>2. QED
    BY <2>1, QuietKeepsSafe
<1>9. ASSUME NEW c \in Callers, RenewStamp(c) PROVE SafeInv'
  <2>1. QuietStep(c)
    BY <1>9 DEF TypeOK, Shape, RenewStamp, Goto, QuietStep, Writing, CallerPcs,
         RenewalPcs, mutex
  <2>2. QED
    BY <2>1, QuietKeepsSafe
<1>10. ASSUME NEW t \in Threads, Answer(t) PROVE SafeInv'
  <2>1. QuietStep(t)
    <3>1. "reply" \in (CallerPcs \cup RenewalPcs) \ Writing /\ "post" \notin Writing
      BY DEF CallerPcs, RenewalPcs, Writing
    <3>2. pc[t] = "post" /\ pc' = [pc EXCEPT ![t] = "reply"]
      BY <1>10 DEF Answer, Goto
    <3>3. /\ UNCHANGED <<cache, renewalFailed, lock, attempt, inFlight>>
          /\ UNCHANGED <<seen, call>>
      BY <1>10 DEF Answer, mutex
    <3>4. QED
      BY <3>1, <3>2, <3>3 DEF QuietStep
  <2>2. QED
    BY <2>1, QuietKeepsSafe
<1>11. ASSUME NEW t \in Threads, Abandon(t) PROVE SafeInv'
  <2>1. QuietStep(t)
    <3>1. "reply" \in (CallerPcs \cup RenewalPcs) \ Writing /\ "post" \notin Writing
      BY DEF CallerPcs, RenewalPcs, Writing
    <3>2. pc[t] = "post" /\ pc' = [pc EXCEPT ![t] = "reply"]
      BY <1>11 DEF Abandon, Goto
    <3>3. /\ UNCHANGED <<cache, renewalFailed, lock, attempt, inFlight>>
          /\ UNCHANGED <<seen, call>>
      BY <1>11 DEF Abandon, mutex
    <3>4. QED
      BY <3>1, <3>2, <3>3 DEF QuietStep
  <2>2. QED
    BY <2>1, QuietKeepsSafe
<1>12. ASSUME NEW c \in Callers, Receive(c) PROVE SafeInv'
  <2>1. QuietStep(c)
    BY <1>12 DEF TypeOK, Shape, Receive, Goto, Return, QuietStep, Writing, CallerPcs,
         RenewalPcs, mutex
  <2>2. QED
    BY <2>1, QuietKeepsSafe
<1>13. ASSUME NEW c \in Callers, Accept(c) PROVE SafeInv'
  <2>1. QuietStep(c)
    BY <1>13 DEF TypeOK, Shape, Accept, Goto, Return, QuietStep, Writing, CallerPcs,
         RenewalPcs, mutex
  <2>2. QED
    BY <2>1, QuietKeepsSafe
<1>14. ASSUME NEW n \in Attempts, BackgroundVerify(n) PROVE SafeInv'
  <2>1. QuietStep(n)
    <3>1. "record" \in (CallerPcs \cup RenewalPcs) \ Writing /\ "reply" \notin Writing
      BY DEF CallerPcs, RenewalPcs, Writing
    <3>2. pc[n] = "reply" /\ pc' = [pc EXCEPT ![n] = "record"]
      BY <1>14 DEF BackgroundVerify, Goto
    <3>3. /\ UNCHANGED <<cache, renewalFailed, lock, attempt, inFlight>>
          /\ UNCHANGED <<seen, call>>
      BY <1>14 DEF BackgroundVerify, mutex
    <3>4. QED
      BY <3>1, <3>2, <3>3 DEF QuietStep
  <2>2. QED
    BY <2>1, QuietKeepsSafe
<1>15. ASSUME NEW n \in Attempts, BackgroundStale(n) PROVE SafeInv'
  <2>1. QuietStep(n)
    BY <1>15 DEF TypeOK, Shape, BackgroundStale, Goto, QuietStep, Writing, CallerPcs,
         RenewalPcs, mutex
  <2>2. QED
    BY <2>1, QuietKeepsSafe
<1>16. ASSUME NEW c \in Callers, CheckStart(c) PROVE SafeInv'
  <2>1. LockHeldByWriter'
    BY <1>16 DEF TypeOK, Shape, SafeInv, CheckStart, Goto, LockHeldByWriter
  <2>2. FlagDownUnderLock'
    BY <1>16 DEF TypeOK, Shape, SafeInv, CheckStart, Goto, FlagDownUnderLock,
         LockHeldByWriter
  <2>3. InFlightOwned'
    <3>1. attempt + 1 \in Attempts /\ attempt' = attempt + 1
      BY <1>16, ConstantsAssumption DEF TypeOK, CheckStart, Attempts
    <3>2. seen'[attempt + 1] = seen[c]
      BY <1>16, <3>1 DEF TypeOK, CheckStart
    <3>3. \/ inFlight' = Never
          \/ inFlight' = seen[c] /\ pc'[attempt + 1] = "post"
      BY <1>16, <3>1 DEF TypeOK, CheckStart
    <3>4. QED
      BY <3>1, <3>2, <3>3 DEF InFlightOwned, Attempts
  <2>4. WriteGuarded'
    BY <1>16 DEF TypeOK, Shape, SafeInv, CheckStart, Goto, WriteGuarded, LockHeldByWriter
  <2>5. FlagNeedsToken'
    BY <1>16 DEF TypeOK, Shape, SafeInv, CheckStart, Goto, FlagNeedsToken,
         FlagDownUnderLock, LockHeldByWriter
  <2>6. QED
    BY <2>1, <2>2, <2>3, <2>4, <2>5 DEF SafeInv
<1>17. ASSUME NEW c \in Callers, ClearBegin(c) PROVE SafeInv'
  <2>1. LockHeldByWriter'
    BY <1>17 DEF TypeOK, Shape, SafeInv, ClearBegin, Goto, LockHeldByWriter
  <2>2. FlagDownUnderLock'
    BY <1>17 DEF TypeOK, Shape, SafeInv, ClearBegin, Goto, FlagDownUnderLock,
         LockHeldByWriter
  <2>3. InFlightOwned'
    BY <1>17 DEF TypeOK, Shape, SafeInv, ClearBegin, Goto, InFlightOwned, Attempts,
         LockHeldByWriter
  <2>4. WriteGuarded'
    BY <1>17 DEF TypeOK, Shape, SafeInv, ClearBegin, Goto, WriteGuarded, LockHeldByWriter
  <2>5. FlagNeedsToken'
    BY <1>17 DEF TypeOK, Shape, SafeInv, ClearBegin, Goto, FlagNeedsToken,
         FlagDownUnderLock, LockHeldByWriter
  <2>6. QED
    BY <2>1, <2>2, <2>3, <2>4, <2>5 DEF SafeInv
<1>18. ASSUME NEW c \in Callers, ClearEnd(c) PROVE SafeInv'
  <2>1. LockHeldByWriter'
    BY <1>18 DEF TypeOK, Shape, SafeInv, ClearEnd, Goto, Return, FileAfter,
         LockHeldByWriter
  <2>2. FlagDownUnderLock'
    BY <1>18 DEF TypeOK, Shape, SafeInv, ClearEnd, Goto, Return, FileAfter,
         FlagDownUnderLock, LockHeldByWriter
  <2>3. InFlightOwned'
    BY <1>18 DEF TypeOK, Shape, SafeInv, ClearEnd, Goto, Return, FileAfter,
         InFlightOwned, Attempts, LockHeldByWriter
  <2>4. WriteGuarded'
    BY <1>18 DEF TypeOK, Shape, SafeInv, ClearEnd, Goto, Return, FileAfter,
         WriteGuarded, LockHeldByWriter
  <2>5. FlagNeedsToken'
    BY <1>18 DEF TypeOK, Shape, SafeInv, ClearEnd, Goto, Return, FileAfter,
         FlagNeedsToken, FlagDownUnderLock, LockHeldByWriter
  <2>6. QED
    BY <2>1, <2>2, <2>3, <2>4, <2>5 DEF SafeInv
<1>19. ASSUME NEW c \in Callers, RenewNote(c) PROVE SafeInv'
  <2>1. LockHeldByWriter'
    BY <1>19 DEF TypeOK, Shape, SafeInv, RenewNote, Goto, Return, Noted,
         HoldsActivation, mutex, LockHeldByWriter
  <2>2. FlagDownUnderLock'
    BY <1>19 DEF TypeOK, Shape, SafeInv, RenewNote, Goto, Return, Noted,
         HoldsActivation, mutex, FlagDownUnderLock, LockHeldByWriter
  <2>3. InFlightOwned'
    BY <1>19 DEF TypeOK, Shape, SafeInv, RenewNote, Goto, Return, Noted,
         HoldsActivation, mutex, InFlightOwned, Attempts, LockHeldByWriter
  <2>4. WriteGuarded'
    <3>1. \A m \in Attempts : pc[m] # "write"
      BY <1>19 DEF SafeInv, LockHeldByWriter, RenewNote
    <3>2. \A m \in Attempts : pc'[m] = pc[m]
      BY <1>19 DEF TypeOK, RenewNote, Goto, Return
    <3>3. QED
      BY <3>1, <3>2 DEF WriteGuarded
  <2>5. FlagNeedsToken'
    BY <1>19 DEF TypeOK, Shape, SafeInv, RenewNote, Goto, Return, Noted,
         HoldsActivation, mutex, FlagNeedsToken, FlagDownUnderLock, LockHeldByWriter
  <2>6. QED
    BY <2>1, <2>2, <2>3, <2>4, <2>5 DEF SafeInv
<1>20. ASSUME NEW c \in Callers, SaveBegin(c) PROVE SafeInv'
  <2>1. LockHeldByWriter'
    BY <1>20 DEF TypeOK, Shape, SafeInv, SaveBegin, Goto, LockHeldByWriter
  <2>2. FlagDownUnderLock'
    BY <1>20 DEF TypeOK, Shape, SafeInv, SaveBegin, Goto, FlagDownUnderLock,
         LockHeldByWriter
  <2>3. InFlightOwned'
    BY <1>20 DEF TypeOK, Shape, SafeInv, SaveBegin, Goto, InFlightOwned, Attempts,
         LockHeldByWriter
  <2>4. WriteGuarded'
    BY <1>20 DEF TypeOK, Shape, SafeInv, SaveBegin, Goto, WriteGuarded, LockHeldByWriter
  <2>5. FlagNeedsToken'
    BY <1>20 DEF TypeOK, Shape, SafeInv, SaveBegin, Goto, FlagNeedsToken,
         FlagDownUnderLock, LockHeldByWriter
  <2>6. QED
    BY <2>1, <2>2, <2>3, <2>4, <2>5 DEF SafeInv
<1>21. ASSUME NEW c \in Callers, SaveEnd(c) PROVE SafeInv'
  <2>1. LockHeldByWriter'
    BY <1>21 DEF TypeOK, Shape, SafeInv, SaveEnd, Return, FileAfter, LockHeldByWriter
  <2>2. FlagDownUnderLock'
    BY <1>21 DEF TypeOK, Shape, SafeInv, SaveEnd, Return, FileAfter, FlagDownUnderLock,
         LockHeldByWriter
  <2>3. InFlightOwned'
    BY <1>21 DEF TypeOK, Shape, SafeInv, SaveEnd, Return, FileAfter, InFlightOwned,
         Attempts, LockHeldByWriter
  <2>4. WriteGuarded'
    BY <1>21 DEF TypeOK, Shape, SafeInv, SaveEnd, Return, FileAfter, WriteGuarded,
         LockHeldByWriter
  <2>5. FlagNeedsToken'
    BY <1>21 DEF TypeOK, Shape, SafeInv, SaveEnd, Return, FileAfter, FlagNeedsToken,
         FlagDownUnderLock, LockHeldByWriter
  <2>6. QED
    BY <2>1, <2>2, <2>3, <2>4, <2>5 DEF SafeInv
<1>22. ASSUME NEW n \in Attempts, BackgroundRecord(n) PROVE SafeInv'
  <2>1. LockHeldByWriter'
    BY <1>22 DEF TypeOK, Shape, SafeInv, BackgroundRecord, Goto, Noted, Latest,
         HoldsActivation, LockHeldByWriter
  <2>2. FlagDownUnderLock'
    BY <1>22 DEF TypeOK, Shape, SafeInv, BackgroundRecord, Goto, Noted, Latest,
         HoldsActivation, FlagDownUnderLock, LockHeldByWriter
  <2>3. InFlightOwned'
    BY <1>22 DEF TypeOK, Shape, SafeInv, BackgroundRecord, Goto, Noted, Latest,
         HoldsActivation, InFlightOwned, Attempts, LockHeldByWriter
  <2>4. WriteGuarded'
    BY <1>22 DEF TypeOK, Shape, SafeInv, BackgroundRecord, Goto, Noted, Latest,
         HoldsActivation, WriteGuarded, LockHeldByWriter
  <2>5. FlagNeedsToken'
    BY <1>22 DEF TypeOK, Shape, SafeInv, BackgroundRecord, Goto, Noted, Latest,
         HoldsActivation, FlagNeedsToken, FlagDownUnderLock, LockHeldByWriter
  <2>6. QED
    BY <2>1, <2>2, <2>3, <2>4, <2>5 DEF SafeInv
<1>23. ASSUME NEW n \in Attempts, BackgroundWrite(n) PROVE SafeInv'
  <2>1. LockHeldByWriter'
    BY <1>23 DEF TypeOK, Shape, SafeInv, BackgroundWrite, Goto, FileAfter,
         LockHeldByWriter
  <2>2. FlagDownUnderLock'
    BY <1>23 DEF TypeOK, Shape, SafeInv, BackgroundWrite, Goto, FileAfter,
         FlagDownUnderLock, LockHeldByWriter
  <2>3. InFlightOwned'
    BY <1>23 DEF TypeOK, Shape, SafeInv, BackgroundWrite, Goto, FileAfter,
         InFlightOwned, Attempts, LockHeldByWriter
  <2>4. WriteGuarded'
    <3>1. \A m \in Attempts : pc[m] = "write" => m = n
      BY <1>23 DEF SafeInv, WriteGuarded, BackgroundWrite
    <3>2. \A m \in Attempts : pc'[m] # "write"
      BY <1>23, <3>1 DEF TypeOK, BackgroundWrite, Goto
    <3>3. QED
      BY <3>2 DEF WriteGuarded
  <2>5. FlagNeedsToken'
    BY <1>23 DEF TypeOK, Shape, SafeInv, BackgroundWrite, Goto, FileAfter,
         FlagNeedsToken, FlagDownUnderLock, LockHeldByWriter
  <2>6. QED
    BY <2>1, <2>2, <2>3, <2>4, <2>5 DEF SafeInv
<1>24. ASSUME NEW n \in Attempts, BackgroundPanic(n) PROVE SafeInv'
  <2>1. LockHeldByWriter'
    BY <1>24 DEF TypeOK, Shape, SafeInv, BackgroundPanic, Goto, LockHeldByWriter
  <2>2. FlagDownUnderLock'
    BY <1>24 DEF TypeOK, Shape, SafeInv, BackgroundPanic, Goto, FlagDownUnderLock,
         LockHeldByWriter
  <2>3. InFlightOwned'
    BY <1>24 DEF TypeOK, Shape, SafeInv, BackgroundPanic, Goto, InFlightOwned, Attempts,
         LockHeldByWriter
  <2>4. WriteGuarded'
    BY <1>24 DEF TypeOK, Shape, SafeInv, BackgroundPanic, Goto, WriteGuarded,
         LockHeldByWriter
  <2>5. FlagNeedsToken'
    BY <1>24 DEF TypeOK, Shape, SafeInv, BackgroundPanic, Goto, FlagNeedsToken,
         FlagDownUnderLock, LockHeldByWriter
  <2>6. QED
    BY <2>1, <2>2, <2>3, <2>4, <2>5 DEF SafeInv
<1>25. ASSUME NEW n \in Attempts, BackgroundDrop(n) PROVE SafeInv'
  <2>1. LockHeldByWriter'
    BY <1>25 DEF TypeOK, Shape, SafeInv, BackgroundDrop, Goto, Latest, LockHeldByWriter
  <2>2. FlagDownUnderLock'
    BY <1>25 DEF TypeOK, Shape, SafeInv, BackgroundDrop, Goto, Latest,
         FlagDownUnderLock, LockHeldByWriter
  <2>3. InFlightOwned'
    BY <1>25 DEF TypeOK, Shape, SafeInv, BackgroundDrop, Goto, Latest, InFlightOwned,
         Attempts, LockHeldByWriter
  <2>4. WriteGuarded'
    BY <1>25 DEF TypeOK, Shape, SafeInv, BackgroundDrop, Goto, Latest, WriteGuarded,
         LockHeldByWriter
  <2>5. FlagNeedsToken'
    BY <1>25 DEF TypeOK, Shape, SafeInv, BackgroundDrop, Goto, Latest, FlagNeedsToken,
         FlagDownUnderLock, LockHeldByWriter
  <2>6. QED
    BY <2>1, <2>2, <2>3, <2>4, <2>5 DEF SafeInv
<1>26. ASSUME LateArrival PROVE SafeInv'
  BY <1>26 DEF LateArrival, mutex, thread, SafeInv, LockHeldByWriter, FlagDownUnderLock,
                InFlightOwned, WriteGuarded, FlagNeedsToken
<1>27. ASSUME Revoke PROVE SafeInv'
  BY <1>27 DEF Revoke, mutex, thread, SafeInv, LockHeldByWriter, FlagDownUnderLock,
                InFlightOwned, WriteGuarded, FlagNeedsToken
<1>28. ASSUME Tick PROVE SafeInv'
  BY <1>28 DEF Tick, mutex, thread, SafeInv, LockHeldByWriter, FlagDownUnderLock,
                InFlightOwned, WriteGuarded, FlagNeedsToken
<1>29. ASSUME Crash PROVE SafeInv'
  BY <1>29 DEF Crash, All, SafeInv, LockHeldByWriter, FlagDownUnderLock,
                InFlightOwned, WriteGuarded, FlagNeedsToken
<1>30. ASSUME UNCHANGED vars PROVE SafeInv'
  BY <1>30 DEF vars, mutex, thread, SafeInv, LockHeldByWriter, FlagDownUnderLock,
                InFlightOwned, WriteGuarded, FlagNeedsToken
<1>31. ASSUME NEW c \in Callers, CallerStep(c) PROVE SafeInv'
  BY <1>31, <1>2, <1>3, <1>4, <1>5, <1>6, <1>7, <1>8, <1>9, <1>10, <1>11, <1>12, <1>13,
       <1>16, <1>17, <1>18, <1>19, <1>20, <1>21 DEF CallerStep
<1>32. ASSUME NEW n \in Attempts, RenewalStep(n) PROVE SafeInv'
  BY <1>32, <1>10, <1>11, <1>14, <1>15, <1>22, <1>23, <1>24, <1>25 DEF RenewalStep
<1>33. QED
  BY <1>1, <1>31, <1>32, <1>24, <1>26, <1>27, <1>28, <1>29, <1>30
     DEF Next, HostCall, Quiescent

\* The mutex is held exactly around a file write, in every reachable state.
THEOREM LockDiscipline == Spec => []LockHeldByWriter
<1>1. SafeInv => LockHeldByWriter
  BY DEF SafeInv
<1>2. QED
  BY TypeInit, TypeStep, SafeInit, SafeStep, <1>1, PTL DEF Spec

\* The running mark never outlives the renewal it stands for.
THEOREM MarkIsOwned == Spec => []InFlightOwned
<1>1. SafeInv => InFlightOwned
  BY DEF SafeInv
<1>2. QED
  BY TypeInit, TypeStep, SafeInit, SafeStep, <1>1, PTL DEF Spec

\* A background renewal writes only over the activation it renewed.
THEOREM WritesAreGuarded == Spec => []WriteGuarded
<1>1. SafeInv => WriteGuarded
  BY DEF SafeInv
<1>2. QED
  BY TypeInit, TypeStep, SafeInit, SafeStep, <1>1, PTL DEF Spec

\* renewal_failed is never set over an empty cache.
THEOREM FlagHasToken == Spec => []FlagNeedsToken
<1>1. SafeInv => FlagNeedsToken
  BY DEF SafeInv
<1>2. QED
  BY TypeInit, TypeStep, SafeInit, SafeStep, <1>1, PTL DEF Spec

\* The file is rewritten only while the flag is down.
LEMMA FlaggedFileIsKept ==
  ASSUME TypeInv, SafeInv, [Next]_vars, renewalFailed
  PROVE  cache' = cache
<1>. USE ThreadKinds DEF TypeInv, SafeInv
<1>1. lock = Free
  BY DEF FlagDownUnderLock
<1>2. \A t \in Threads : pc[t] \notin {"clearing", "saving", "write"}
  BY <1>1 DEF LockHeldByWriter
<1>3. ASSUME NEW c \in Callers, CallerStep(c) PROVE cache' = cache
  BY <1>2, <1>3 DEF CallerStep, Load, Fast, CheckVerdict, CheckDue, CheckSkip,
     CheckStart, CheckFlag, RenewClock, RenewStamp, Answer, Abandon, Receive,
     ClearBegin, ClearEnd, RenewNote, Accept, SaveBegin, SaveEnd
<1>4. ASSUME NEW n \in Attempts, RenewalStep(n) \/ BackgroundPanic(n)
      PROVE  cache' = cache
  BY <1>2, <1>4 DEF RenewalStep, BackgroundPanic, Answer, Abandon, BackgroundVerify,
     BackgroundStale, BackgroundRecord, BackgroundWrite, BackgroundDrop
<1>5. QED
  BY <1>3, <1>4 DEF Next, HostCall, Begin, LateArrival, Revoke, Tick, Crash,
     Quiescent, vars

\* While the flag stays set the same activation stays cached.
THEOREM FlagFollows == Spec => FlagFollowsActivation
<1>1. TypeInv /\ SafeInv /\ [Next]_vars
        => [renewalFailed /\ renewalFailed' =>
              cache # NoToken /\ cache' # NoToken /\ cache'.aid = cache.aid]_vars
  <2>1. SUFFICES ASSUME TypeInv, SafeInv, [Next]_vars, renewalFailed
                 PROVE  cache # NoToken /\ cache' = cache
    OBVIOUS
  <2>2. cache' = cache
    BY <2>1, FlaggedFileIsKept
  <2>3. QED
    BY <2>1, <2>2 DEF SafeInv, FlagNeedsToken
<1>2. QED
  BY TypeInit, TypeStep, SafeInit, SafeStep, <1>1, PTL DEF Spec, FlagFollowsActivation
-----------------------------------------------------------------------------
\* A token on its way into the file passed every check for this machine.
Sealed(t) == tok[t] = NoToken \/ tok[t].seal = "good"

Verified ==
  /\ \A c \in Callers : pc[c] \in {"save", "saving"} => Sealed(c)
  /\ \A n \in Attempts : pc[n] \in {"record", "write"} /\ outcome[n] = "ok" => Sealed(n)

Carrying == {"save", "saving", "record", "write"}

\* A usable token carries a good seal.
LEMMA UsableIsSealed ==
  ASSUME NEW t \in Tokens \cup {NoToken}, NEW now, Usable(t, now)
  PROVE  t = NoToken \/ t.seal = "good"
<1>1. Verifies(t, now) /\ Verdict(t, now) = "Ok"
  BY DEF Usable
<1>2. t.seal # "bad"
  BY <1>1 DEF Verifies
<1>3. LicenceOf(t).machine = "this"
  BY <1>1 DEF Verdict, V!ValidateAt, LicenceOf
<1>4. t.seal # "foreign"
  BY <1>3 DEF LicenceOf
<1>5. QED
  BY <1>2, <1>4 DEF Tokens, AllSeals

\* A step of one thread to a place that carries no token.
LEMMA OthersKeepVerified ==
  ASSUME TypeOK, Verified, NEW t \in Threads,
         \A u \in Threads \ {t} : /\ pc'[u] = pc[u] /\ tok'[u] = tok[u]
                                  /\ outcome'[u] = outcome[u],
         pc'[t] \notin Carrying
  PROVE  Verified'
BY ThreadKinds DEF Verified, Sealed, Carrying

\* Every step keeps Verified.
LEMMA VerifiedStep == TypeInv /\ Verified /\ [Next]_vars => Verified'
<1>. SUFFICES ASSUME TypeInv, TypeOK, Verified, [Next]_vars
             PROVE  Verified'
  BY DEF TypeInv
<1>. USE ThreadKinds
<1>1. ASSUME NEW c \in Callers, NEW op \in Ops, NEW a \in Arguments(op), Begin(c, op, a)
      PROVE  Verified'
  <2>1. Entry(op) \notin Carrying
    BY DEF Entry, Carrying
  <2>2. QED
    BY <1>1, <2>1, OthersKeepVerified DEF TypeOK, Begin, Goto
<1>2. ASSUME NEW c \in Callers,
             \/ Load(c) \/ Fast(c) \/ CheckVerdict(c)
             \/ CheckDue(c) \/ CheckSkip(c) \/ CheckFlag(c)
      PROVE  Verified'
  <2>1. pc'[c] \notin Carrying
    BY <1>2 DEF TypeOK, Load, Fast, CheckVerdict, CheckDue, CheckSkip, CheckFlag, Goto,
       Return, Carrying
  <2>2. \A u \in Threads \ {c} : /\ pc'[u] = pc[u] /\ tok'[u] = tok[u]
                                 /\ outcome'[u] = outcome[u]
    BY <1>2 DEF TypeOK, Load, Fast, CheckVerdict, CheckDue, CheckSkip, CheckFlag, Goto,
       Return
  <2>3. QED
    BY <2>1, <2>2, OthersKeepVerified
<1>3. ASSUME NEW c \in Callers, CheckStart(c) PROVE Verified'
  <2>1. /\ UNCHANGED <<tok, outcome>>
        /\ \A u \in Threads : pc'[u] \in Carrying => pc'[u] = pc[u]
    BY <1>3 DEF TypeOK, CheckStart, Goto, Carrying
  <2>2. QED
    BY <2>1 DEF Verified, Sealed, Carrying
<1>4. ASSUME NEW c \in Callers,
             RenewClock(c) \/ RenewStamp(c) \/ Receive(c) \/ ClearBegin(c)
               \/ ClearEnd(c) \/ RenewNote(c) \/ SaveEnd(c)
      PROVE  Verified'
  <2>1. pc'[c] \notin Carrying
    BY <1>4 DEF TypeOK, RenewClock, RenewStamp, Receive, ClearBegin, ClearEnd,
       RenewNote, SaveEnd, Goto, Return, Carrying
  <2>2. \A u \in Threads \ {c} : /\ pc'[u] = pc[u] /\ tok'[u] = tok[u]
                                 /\ outcome'[u] = outcome[u]
    BY <1>4 DEF TypeOK, RenewClock, RenewStamp, Receive, ClearBegin, ClearEnd,
       RenewNote, SaveEnd, Goto, Return
  <2>3. QED
    BY <2>1, <2>2, OthersKeepVerified
<1>5. ASSUME NEW c \in Callers, Accept(c) PROVE Verified'
  <2>1. CASE Usable(tok[c], clock)
    <3>1. /\ UNCHANGED <<tok, outcome>>
          /\ \A u \in Threads \ {c} : pc'[u] = pc[u]
      BY <1>5, <2>1 DEF TypeOK, Accept, Goto
    <3>2. Sealed(c)
      BY <2>1, UsableIsSealed DEF TypeOK, Sealed
    <3>3. QED
      BY <3>1, <3>2 DEF Verified, Sealed
  <2>2. CASE ~Usable(tok[c], clock)
    BY <1>5, <2>2, OthersKeepVerified DEF TypeOK, Accept, Return, Carrying
  <2>3. QED
    BY <2>1, <2>2
<1>6. ASSUME NEW c \in Callers, SaveBegin(c) PROVE Verified'
  <2>1. /\ UNCHANGED <<tok, outcome>> /\ pc[c] = "save"
        /\ \A u \in Threads \ {c} : pc'[u] = pc[u]
    BY <1>6 DEF TypeOK, SaveBegin, Goto
  <2>2. QED
    BY <2>1 DEF Verified, Sealed
<1>7. ASSUME NEW t \in Threads, Answer(t) PROVE Verified'
  <2>1. pc'[t] \notin Carrying /\ \A u \in Threads \ {t} : pc'[u] = pc[u]
    BY <1>7 DEF TypeOK, Answer, Goto, Carrying
  <2>2. \A u \in Threads \ {t} : tok'[u] = tok[u] /\ outcome'[u] = outcome[u]
    BY <1>7 DEF TypeOK, Answer, AnswerOk, AnswerGarbled, AnswerRejected, AnswerError
  <2>3. QED
    BY <2>1, <2>2, OthersKeepVerified
<1>8. ASSUME NEW t \in Threads, Abandon(t) PROVE Verified'
  BY <1>8, OthersKeepVerified DEF TypeOK, Abandon, Goto, Carrying
<1>9. ASSUME NEW n \in Attempts, BackgroundVerify(n) PROVE Verified'
  <2>1. /\ UNCHANGED tok
        /\ \A u \in Threads \ {n} : pc'[u] = pc[u] /\ outcome'[u] = outcome[u]
        /\ outcome'[n] = "ok" => Usable(tok[n], clock)
        /\ pc'[n] = "record"
    BY <1>9 DEF TypeOK, BackgroundVerify, Goto
  <2>2. outcome'[n] = "ok" => Sealed(n)
    BY <2>1, UsableIsSealed DEF TypeOK, Sealed
  <2>3. QED
    BY <2>1, <2>2 DEF Verified, Sealed
<1>10. ASSUME NEW n \in Attempts, BackgroundRecord(n) PROVE Verified'
  <2>1. /\ UNCHANGED <<tok, outcome>> /\ pc[n] = "record"
        /\ \A u \in Threads \ {n} : pc'[u] = pc[u]
    BY <1>10 DEF TypeOK, BackgroundRecord, Goto
  <2>2. QED
    BY <2>1 DEF Verified, Sealed
<1>11. ASSUME NEW n \in Attempts,
              BackgroundStale(n) \/ BackgroundWrite(n) \/ BackgroundDrop(n)
                \/ BackgroundPanic(n)
       PROVE  Verified'
  <2>1. pc'[n] \notin Carrying
    BY <1>11 DEF TypeOK, BackgroundStale, BackgroundWrite, BackgroundDrop,
       BackgroundPanic, Goto, Carrying
  <2>2. \A u \in Threads \ {n} : /\ pc'[u] = pc[u] /\ tok'[u] = tok[u]
                                 /\ outcome'[u] = outcome[u]
    BY <1>11 DEF TypeOK, BackgroundStale, BackgroundWrite, BackgroundDrop,
       BackgroundPanic, Goto
  <2>3. QED
    BY <2>1, <2>2, OthersKeepVerified
<1>12. CASE Crash
  <2>1. \A t \in Threads : pc'[t] = "idle"
    BY <1>12 DEF Crash, All
  <2>2. QED
    BY <2>1 DEF Verified
<1>13. CASE LateArrival \/ Revoke \/ Tick \/ Quiescent \/ UNCHANGED vars
  <2>1. UNCHANGED <<pc, tok, outcome>>
    BY <1>13 DEF LateArrival, Revoke, Tick, Quiescent, vars, thread
  <2>2. QED
    BY <2>1 DEF Verified, Sealed
<1>14. ASSUME NEW c \in Callers, CallerStep(c) PROVE Verified'
  BY <1>14, <1>2, <1>3, <1>4, <1>5, <1>6, <1>7, <1>8 DEF CallerStep
<1>15. ASSUME NEW n \in Attempts, RenewalStep(n) PROVE Verified'
  BY <1>15, <1>7, <1>8, <1>9, <1>10, <1>11 DEF RenewalStep
<1>16. QED
  BY <1>1, <1>11, <1>12, <1>13, <1>14, <1>15 DEF Next, HostCall

-----------------------------------------------------------------------------
(* The handle follows the server *)

\* What a thread has heard follows from its place.
Fits(t) ==
  /\ pc[t] \in {"accept", "save", "saving"} => Granted(t)
  /\ pc[t] \in {"clear", "clearing"} => Refused(t)
  /\ pc[t] = "note" => call[t].op = "renew"
  /\ pc[t] = "write" => Granted(t) \/ Refused(t)
  /\ pc[t] \in WithToken /\ Granted(t) => tok[t] # NoToken
Heard == \A t \in Threads : Fits(t)

SameThread(u) ==
  /\ pc'[u] = pc[u] /\ call'[u] = call[u]
  /\ tok'[u] = tok[u] /\ outcome'[u] = outcome[u]

\* A thread nothing happens to keeps what it has heard.
LEMMA SameNews ==
  ASSUME NEW u \in Threads, SameThread(u)
  PROVE  News(u)' = News(u) /\ (Fits(u) => Fits(u)')
BY DEF SameThread, News, Told, Fits, Granted, Refused, Unanswered

\* Only a thread past its request has news.
Reporting == WithToken \cup WithRefusal \cup WithSilence
LEMMA NothingHeard ==
  ASSUME NEW t \in Threads
  PROVE  /\ pc[t] \notin Reporting => News(t) = NoNews
         /\ pc'[t] \notin Reporting => News(t)' = NoNews
BY DEF Reporting, News, Told, Granted, Refused, Unanswered

\* The steps of Handle, as Sdk takes them.
Others(t) == \A u \in Threads \ {t} : News(u)' = News(u)

LEMMA DropStep ==
  ASSUME NEW t \in Threads, Others(t), News(t)' \in {News(t), NoNews},
         UNCHANGED <<cache, seat>>, renewalFailed' \in {renewalFailed, FALSE}
  PROVE  H!Next
<1>. DEFINE A == {u \in {t} : News(u)' = NoNews}
<1>1. \A u \in Threads : News(u)' = IF u \in A THEN NoNews ELSE News(u)
  BY DEF Others
<1>2. A \in SUBSET Threads
  OBVIOUS
<1>. HIDE DEF A
<1>3. H!GiveUp
  BY <1>1, <1>2 DEF H!GiveUp, H!NoNews, NoNews
<1>4. QED
  BY <1>3 DEF H!Next

LEMMA ServeStep ==
  ASSUME UNCHANGED <<cache, renewalFailed>>, \A u \in Threads : News(u)' = News(u),
         seat' \in [Aids -> {"free", "held", "revoked"}]
  PROVE  H!Next
BY DEF H!Next, H!Serve, H!SeatStates

\* What a thread may be told, and what that says of the seats.
TrueNews(kind, aid, token) ==
  \/ kind = "granted" /\ seat'[aid] = "held" /\ token \in Tokens /\ token.aid = aid
  \/ kind = "gone" /\ seat'[aid] # "held" /\ token = NoToken
  \/ kind = "silent" /\ seat' = seat /\ token = NoToken

LEMMA HearStep ==
  ASSUME NEW t \in Threads, Others(t), News(t) = NoNews,
         NEW kind, NEW aid \in Aids, NEW token,
         News(t)' = [kind |-> kind, aid |-> aid, token |-> token],
         TrueNews(kind, aid, token),
         seat' \in [Aids -> {"free", "held", "revoked"}],
         UNCHANGED <<cache, renewalFailed>>
  PROVE  H!Next
<1>1. [u \in Threads |-> News(u)]'
        = [[u \in Threads |-> News(u)] EXCEPT ![t] = News(t)']
  BY DEF Others
<1>2. H!Hear(t, News(t)')
  BY <1>1 DEF H!Hear, TrueNews, H!NoNews, NoNews, H!SeatStates
<1>3. QED
  BY <1>2 DEF H!Next

LEMMA DoubtStep ==
  ASSUME NEW t \in Threads, Others(t), News(t)' = NoNews,
         NEW aid, News(t) = [kind |-> "silent", aid |-> aid, token |-> NoToken],
         cache # NoToken, cache.aid = aid,
         renewalFailed' = TRUE, UNCHANGED <<cache, seat>>
  PROVE  H!Next
<1>1. [u \in Threads |-> News(u)]' = [[u \in Threads |-> News(u)] EXCEPT ![t] = NoNews]
  BY DEF Others
<1>2. H!Doubt(t)
  BY <1>1 DEF H!Doubt, H!Use, H!Concerns, H!NoNews, NoNews
<1>3. QED
  BY <1>2 DEF H!Next

\* A write is a step of a thread that holds the news for it, under the mutex.
LEMMA KeepStep ==
  ASSUME NEW t \in Threads, Others(t), News(t)' = NoNews,
         NEW aid, NEW token, token.seal = "good", cache' = token,
         News(t) = [kind |-> "granted", aid |-> aid, token |-> token],
         t \in Attempts => cache # NoToken /\ cache.aid = aid,
         ~renewalFailed, UNCHANGED <<renewalFailed, seat>>
  PROVE  H!Next
<1>1. [u \in Threads |-> News(u)]' = [[u \in Threads |-> News(u)] EXCEPT ![t] = NoNews]
  BY DEF Others
<1>2. H!Keep(t)
  BY <1>1 DEF H!Keep, H!Use, H!Rewrite, H!Concerns, H!NoNews, NoNews
<1>3. QED
  BY <1>2 DEF H!Next

LEMMA ForgetStep ==
  ASSUME NEW t \in Threads, Others(t), News(t)' = NoNews, cache' = NoToken,
         NEW aid, News(t) = [kind |-> "gone", aid |-> aid, token |-> NoToken],
         t \in Attempts => cache # NoToken /\ cache.aid = aid,
         ~renewalFailed, UNCHANGED <<renewalFailed, seat>>
  PROVE  H!Next
<1>1. [u \in Threads |-> News(u)]' = [[u \in Threads |-> News(u)] EXCEPT ![t] = NoNews]
  BY DEF Others
<1>2. H!Forget(t)
  BY <1>1 DEF H!Forget, H!Use, H!Rewrite, H!Concerns, H!NoNews, NoNews
<1>3. QED
  BY <1>2 DEF H!Next

\* Each step but the start of a renewal happens to one thread.
LEMMA CallerAlone ==
  ASSUME TypeOK, NEW c \in Callers, CallerStep(c), ~CheckStart(c)
  PROVE  \A u \in Threads \ {c} : SameThread(u)
BY ThreadKinds DEF TypeOK, SameThread, CallerStep, Load, Fast, CheckVerdict, CheckDue,
   CheckSkip, CheckFlag, RenewClock, RenewStamp, Answer, AnswerOk, AnswerGarbled,
   AnswerRejected, AnswerError, Abandon, Receive, ClearBegin, ClearEnd, RenewNote,
   Accept, SaveBegin, SaveEnd, Goto, Return

LEMMA RenewalAlone ==
  ASSUME TypeOK, NEW n \in Attempts, RenewalStep(n) \/ BackgroundPanic(n)
  PROVE  \A u \in Threads \ {n} : SameThread(u)
BY ThreadKinds DEF TypeOK, SameThread, RenewalStep, BackgroundPanic, Answer, AnswerOk,
   AnswerGarbled, AnswerRejected, AnswerError, Abandon, BackgroundVerify,
   BackgroundStale, BackgroundRecord, BackgroundWrite, BackgroundDrop, Goto

LEMMA OthersSame ==
  ASSUME NEW t \in Threads, \A u \in Threads \ {t} : SameThread(u)
  PROVE  /\ Others(t)
         /\ Heard /\ Fits(t)' => Heard'
BY SameNews DEF Others, Heard

\* An answer is news, and true; an error or a garbled answer is none.
LEMMA AnswerMaps ==
  ASSUME TypeInv, NEW t \in Threads, Answer(t), Others(t)
  PROVE  H!Next /\ Fits(t)'
<1>. USE DEF TypeInv
<1>1. /\ pc[t] = "post" /\ pc'[t] = "reply"
      /\ UNCHANGED <<cache, renewalFailed, call>>
      /\ AnswerOk(t) \/ AnswerGarbled(t) \/ AnswerRejected(t) \/ AnswerError(t)
  BY DEF TypeOK, Answer, Goto
<1>2. News(t) = NoNews
  BY <1>1 DEF News, Told, Granted, Refused, Unanswered, WithToken, WithRefusal,
       WithSilence
<1>3. seat' \in [Aids -> {"free", "held", "revoked"}]
  BY <1>1, SeatTyped DEF TypeOK, AnswerOk, AnswerGarbled, AnswerRejected, AnswerError
<1>4. call[t].op \in Asks \cup {"deactivate"} => call[t].aid \in Aids
  BY DEF Shape, Asks, AllOps
<1>5. ASSUME News(t)' = NoNews PROVE H!Next
  BY <1>1, <1>2, <1>3, <1>5, ServeStep DEF Others
<1>6. outcome' = [outcome EXCEPT ![t] = outcome'[t]]
  BY <1>1 DEF TypeOK, AnswerOk, AnswerGarbled, AnswerRejected, AnswerError
<1>7. CASE AnswerOk(t) /\ call[t].op \in Asks
  <2>1. PICK e \in Expiries, s \in Seals :
          tok' = [tok EXCEPT ![t] = [aid |-> call[t].aid, iat |-> clock,
                                     exp |-> e, seal |-> s]]
    BY <1>7 DEF AnswerOk, Asks
  <2>2. tok'[t] \in Tokens /\ tok'[t].aid = call[t].aid
    BY <1>4, <1>7, <2>1, ConstantsAssumption DEF TypeOK, Tokens, Asks
  <2>3. outcome'[t] = "ok"
    BY <1>7 DEF TypeOK, AnswerOk
  <2>4. News(t)' = [kind |-> "granted", aid |-> call[t].aid, token |-> tok'[t]]
    BY <1>1, <1>7, <2>3
       DEF News, Told, Granted, Refused, Unanswered, Asks, WithToken
  <2>5. seat'[call[t].aid] = "held"
    BY <1>4, <1>7 DEF TypeOK, AnswerOk, Take, Grants, SeatAfter, Asks
  <2>6. TrueNews("granted", call[t].aid, tok'[t])
    BY <2>2, <2>5 DEF TrueNews
  <2>7. call[t].aid \in Aids
    BY <1>4, <1>7
  <2>8. H!Next
    BY <1>1, <1>2, <1>3, <2>4, <2>6, <2>7, HearStep
  <2>9. Fits(t)'
    BY <1>1, <2>2, NamesAssumption DEF Fits, Granted, Refused, Asks
  <2>10. QED
    BY <2>8, <2>9
<1>8. CASE AnswerOk(t) /\ call[t].op = "deactivate"
  <2>1. outcome'[t] = "ok"
    BY <1>8 DEF TypeOK, AnswerOk
  <2>2. News(t)' = [kind |-> "gone", aid |-> call[t].aid, token |-> NoToken]
    BY <1>1, <1>8, <2>1
       DEF News, Told, Granted, Refused, Unanswered, Asks, WithRefusal
  <2>3. seat'[call[t].aid] # "held"
    BY <1>4, <1>8 DEF TypeOK, AnswerOk, Take, Grants, SeatAfter
  <2>4. TrueNews("gone", call[t].aid, NoToken)
    BY <2>3 DEF TrueNews
  <2>5. H!Next
    BY <1>1, <1>2, <1>3, <1>4, <1>8, <2>2, <2>4, HearStep
  <2>6. Fits(t)'
    BY <1>1, <1>8 DEF Fits, Granted, Refused, Asks
  <2>7. QED
    BY <2>5, <2>6
<1>9. CASE AnswerRejected(t) /\ call[t].op \in Asks
  <2>1. outcome'[t] = "rejected" /\ seat' = seat
    BY <1>9 DEF TypeOK, AnswerRejected
  <2>2. News(t)' = [kind |-> "gone", aid |-> call[t].aid, token |-> NoToken]
    BY <1>1, <1>9, <2>1
       DEF News, Told, Granted, Refused, Unanswered, Asks, WithRefusal
  <2>3. seat'[call[t].aid] # "held"
    BY <1>9, <2>1 DEF AnswerRejected, Grants, Asks
  <2>4. TrueNews("gone", call[t].aid, NoToken)
    BY <2>3 DEF TrueNews
  <2>5. H!Next
    BY <1>1, <1>2, <1>3, <1>4, <1>9, <2>2, <2>4, HearStep
  <2>6. Fits(t)'
    BY <1>1, <2>1 DEF Fits, Granted, Refused, Asks
  <2>7. QED
    BY <2>5, <2>6
<1>10. CASE ~ \/ AnswerOk(t) /\ call[t].op \in Asks \cup {"deactivate"}
              \/ AnswerRejected(t) /\ call[t].op \in Asks
  <2>1. \/ outcome'[t] \notin {"ok", "rejected", "network"}
        \/ outcome'[t] = "ok" /\ call[t].op \notin Asks \cup {"deactivate"}
        \/ outcome'[t] = "rejected" /\ call[t].op \notin Asks
    BY <1>1, <1>10 DEF TypeOK, AnswerOk, AnswerGarbled, AnswerRejected, AnswerError
  <2>2. News(t)' = NoNews
    BY <1>1, <2>1 DEF News, Granted, Refused, Unanswered, Told
  <2>3. Fits(t)'
    BY <1>1, <2>1 DEF Fits, Granted, Refused, Asks
  <2>4. QED
    BY <1>5, <2>2, <2>3
<1>11. QED
  BY <1>7, <1>8, <1>9, <1>10

\* Silence is news of a renewal only.
LEMMA AbandonMaps ==
  ASSUME TypeInv, NEW t \in Threads, Abandon(t), Others(t)
  PROVE  H!Next /\ Fits(t)'
<1>. USE DEF TypeInv
<1>1. /\ pc[t] = "post" /\ pc'[t] = "reply" /\ outcome'[t] = "network"
      /\ UNCHANGED <<cache, renewalFailed, seat, call>>
  BY DEF TypeOK, Abandon, Goto
<1>2. News(t) = NoNews
  BY <1>1 DEF News, Told, Granted, Refused, Unanswered, WithToken, WithRefusal,
       WithSilence
<1>3. seat' \in [Aids -> {"free", "held", "revoked"}]
  BY <1>1 DEF TypeOK
<1>4. Fits(t)'
  BY <1>1 DEF Fits, Granted, Refused, Asks
<1>5. CASE call[t].op = "renew"
  <2>1. call[t].aid \in Aids
    BY <1>5 DEF Shape, AllOps
  <2>2. News(t)' = [kind |-> "silent", aid |-> call[t].aid, token |-> NoToken]
    BY <1>1, <1>5 DEF News, Told, Granted, Refused, Unanswered, WithSilence
  <2>3. TrueNews("silent", call[t].aid, NoToken)
    BY <1>1 DEF TrueNews
  <2>4. QED
    BY <1>1, <1>2, <1>3, <1>4, <2>1, <2>2, <2>3, HearStep
<1>6. CASE call[t].op # "renew"
  <2>1. News(t)' = NoNews
    BY <1>1, <1>6 DEF News, Granted, Refused, Unanswered, Told
  <2>2. QED
    BY <1>1, <1>4, <2>1, DropStep
<1>7. QED
  BY <1>5, <1>6

\* A step outside the reply's way: the thread ends with no news.
LEMMA QuietMaps ==
  ASSUME NEW t \in Threads, Others(t),
         pc'[t] \notin Reporting, pc'[t] \notin {"clear", "clearing"},
         UNCHANGED <<cache, seat>>, renewalFailed' \in {renewalFailed, FALSE}
  PROVE  H!Next /\ Fits(t)'
<1>1. News(t)' = NoNews
  BY NothingHeard
<1>2. H!Next
  BY <1>1, DropStep
<1>3. Fits(t)'
  BY DEF Fits, Reporting, WithToken, WithRefusal, WithSilence, Granted, Refused
<1>4. QED
  BY <1>2, <1>3

\* Moving on with the answer in hand.
LEMMA CarryMaps ==
  ASSUME NEW t \in Threads, Others(t), Fits(t), UNCHANGED <<cache, seat>>,
         renewalFailed' \in {renewalFailed, FALSE},
         call'[t] = call[t], tok'[t] = tok[t], outcome'[t] = outcome[t],
         \/ pc[t] = "reply" /\ pc'[t] = "clear" /\ Refused(t)
         \/ pc[t] = "reply" /\ pc'[t] = "note" /\ call[t].op = "renew"
              /\ outcome[t] # "rejected"
         \/ pc[t] \in {"reply", "note"} /\ pc'[t] = "accept" /\ Granted(t)
         \/ pc[t] = "accept" /\ pc'[t] = "save" /\ Granted(t)
         \/ pc[t] = "save" /\ pc'[t] = "saving" /\ Granted(t)
         \/ pc[t] = "clear" /\ pc'[t] = "clearing" /\ Refused(t)
         \/ pc[t] = "reply" /\ pc'[t] = "record"
         \/ pc[t] = "record" /\ pc'[t] = "write" /\ (Granted(t) \/ Refused(t))
  PROVE  H!Next /\ Fits(t)'
<1>1. News(t)' = News(t)
  BY DEF News, Told, Granted, Refused, Unanswered, Asks, WithToken, WithRefusal,
     WithSilence
<1>2. Fits(t)'
  BY DEF Fits, Granted, Refused, Asks, WithToken
<1>3. QED
  BY <1>1, <1>2, DropStep

\* The news a thread brings to a write.
LEMMA GrantedNews ==
  ASSUME NEW t \in Threads, Granted(t), pc[t] \in {"saving", "write"}
  PROVE  News(t) = [kind |-> "granted", aid |-> call[t].aid, token |-> tok[t]]
BY DEF News, Told, Granted, Refused, Unanswered, Asks, WithToken

LEMMA RefusedNews ==
  ASSUME NEW t \in Threads, Refused(t), pc[t] \in {"clearing", "write"}
  PROVE  News(t) = [kind |-> "gone", aid |-> call[t].aid, token |-> NoToken]
BY DEF News, Told, Granted, Refused, Unanswered, Asks, WithRefusal

LEMMA SilentNews ==
  ASSUME NEW t \in Threads, outcome[t] = "network", call[t].op = "renew",
         pc[t] \in {"note", "record"}
  PROVE  News(t) = [kind |-> "silent", aid |-> call[t].aid, token |-> NoToken]
BY DEF News, Told, Granted, Refused, Unanswered, WithSilence

\* What a caller does to the file and the flag, Handle allows.
LEMMA CallerMaps ==
  ASSUME TypeInv, SafeInv, Verified, Heard, NEW c \in Callers, CallerStep(c),
         ~CheckStart(c)
  PROVE  H!Next /\ Heard'
<1>. USE ThreadKinds DEF TypeInv
<1>1. Others(c) /\ (Fits(c)' => Heard')
  BY CallerAlone, OthersSame
<1>2. Fits(c)
  BY DEF Heard
<1>3. lock = c => ~renewalFailed
  BY DEF SafeInv, FlagDownUnderLock
<1>. SUFFICES H!Next /\ Fits(c)'
  BY <1>1
<1>4. CASE Load(c) \/ Fast(c) \/ CheckVerdict(c) \/ CheckDue(c) \/ CheckSkip(c)
             \/ CheckFlag(c) \/ RenewClock(c) \/ RenewStamp(c)
  <2>1. pc'[c] \in {"idle", "post", "verdict", "fast", "due", "flag", "try", "stamp"}
    BY <1>4 DEF TypeOK, Load, Fast, CheckVerdict, CheckDue, CheckSkip, CheckFlag,
       RenewClock, RenewStamp, Goto, Return
  <2>2. UNCHANGED <<cache, seat, renewalFailed>>
    BY <1>4 DEF Load, Fast, CheckVerdict, CheckDue, CheckSkip, CheckFlag,
       RenewClock, RenewStamp, server
  <2>3. pc'[c] \notin Reporting /\ pc'[c] \notin {"clear", "clearing"}
    BY <2>1 DEF Reporting, WithToken, WithRefusal, WithSilence
  <2>4. QED
    BY <1>1, <2>2, <2>3, QuietMaps
<1>5. CASE Answer(c)
  BY <1>1, <1>5, AnswerMaps
<1>6. CASE Abandon(c)
  BY <1>1, <1>6, AbandonMaps
<1>7. CASE Receive(c)
  <2>1. UNCHANGED <<cache, seat, renewalFailed>> /\ pc[c] = "reply"
    BY <1>7 DEF Receive, server
  <2>2. CASE pc'[c] = "idle"
    BY <1>1, <2>1, <2>2, QuietMaps DEF Reporting, WithToken, WithRefusal, WithSilence
  <2>3. CASE pc'[c] # "idle"
    <3>1. /\ call'[c] = call[c] /\ tok'[c] = tok[c] /\ outcome'[c] = outcome[c]
          /\ \/ pc'[c] = "clear" /\ Refused(c)
             \/ pc'[c] = "note" /\ call[c].op = "renew" /\ outcome[c] # "rejected"
             \/ pc'[c] = "accept" /\ Granted(c)
      BY <1>7, <2>3 DEF TypeOK, Receive, Goto, Return, Refused, Granted, Asks
    <3>2. QED
      BY <1>1, <1>2, <2>1, <3>1, CarryMaps
  <2>4. QED
    BY <2>2, <2>3
<1>8. CASE ClearBegin(c)
  <2>1. /\ UNCHANGED <<cache, seat>> /\ renewalFailed' = FALSE
        /\ call'[c] = call[c] /\ tok'[c] = tok[c] /\ outcome'[c] = outcome[c]
        /\ pc[c] = "clear" /\ pc'[c] = "clearing"
    BY <1>8 DEF TypeOK, ClearBegin, Goto, server
  <2>2. Refused(c)
    BY <1>2, <2>1 DEF Fits
  <2>3. QED
    BY <1>1, <1>2, <2>1, <2>2, CarryMaps
<1>9. CASE ClearEnd(c)
  <2>1. /\ UNCHANGED <<seat, renewalFailed>> /\ cache' \in {NoToken, cache}
        /\ pc[c] = "clearing" /\ pc'[c] \in {"note", "idle"}
        /\ pc'[c] = "note" => call[c].op = "renew" /\ UNCHANGED <<call, tok, outcome>>
    BY <1>9 DEF TypeOK, ClearEnd, FileAfter, Goto, Return, server
  <2>2. lock = c /\ ~renewalFailed
    BY <1>3, <2>1 DEF SafeInv, LockHeldByWriter
  <2>3. Refused(c)
    BY <1>2, <2>1 DEF Fits
  <2>4. News(c)' = NoNews /\ Fits(c)'
    <3>1. CASE pc'[c] = "note"
      <4>1. outcome'[c] = "rejected" /\ call'[c] = call[c] /\ call[c].op = "renew"
        BY <2>1, <2>3, <3>1 DEF Refused, Asks
      <4>2. QED
        BY <3>1, <4>1 DEF Fits, News, Told, Granted, Refused, Unanswered, WithRefusal
    <3>2. CASE pc'[c] = "idle"
      <4>1. Fits(c)'
        BY <3>2 DEF Fits, WithToken
      <4>2. QED
        BY <3>2, <4>1, NothingHeard DEF Reporting, WithToken, WithRefusal, WithSilence
    <3>3. QED
      BY <2>1, <3>1, <3>2
  <2>5. CASE cache' = NoToken
    BY <1>1, <2>1, <2>2, <2>3, <2>4, <2>5, RefusedNews, ForgetStep
  <2>6. CASE cache' = cache
    BY <1>1, <2>1, <2>4, <2>6, DropStep
  <2>7. QED
    BY <2>1, <2>4, <2>5, <2>6
<1>10. CASE RenewNote(c)
  <2>1. /\ UNCHANGED <<cache, seat>> /\ pc[c] = "note"
        /\ renewalFailed' = Noted(c) /\ call[c].op = "renew"
    BY <1>2, <1>10 DEF RenewNote, Fits, server
  <2>2. CASE outcome[c] = "ok"
    <3>1. /\ renewalFailed' = FALSE /\ pc'[c] = "accept" /\ Granted(c)
          /\ call'[c] = call[c] /\ tok'[c] = tok[c] /\ outcome'[c] = outcome[c]
      BY <1>10, <2>1, <2>2 DEF TypeOK, RenewNote, Noted, Goto, Granted, Asks
    <3>2. QED
      BY <1>1, <1>2, <2>1, <3>1, CarryMaps
  <2>3. CASE outcome[c] # "ok"
    <3>1. pc'[c] = "idle"
      BY <1>10, <2>3 DEF TypeOK, RenewNote, Return
    <3>2. pc'[c] \notin Reporting /\ pc'[c] \notin {"clear", "clearing"}
      BY <3>1 DEF Reporting, WithToken, WithRefusal, WithSilence
    <3>3. CASE Noted(c)
      <4>1. /\ outcome[c] = "network" /\ renewalFailed' = TRUE
            /\ cache # NoToken /\ cache.aid = call[c].aid
        BY <2>1, <3>3 DEF Noted, HoldsActivation
      <4>2. H!Next
        BY <1>1, <2>1, <3>2, <4>1, NothingHeard, SilentNews, DoubtStep
      <4>3. Fits(c)'
        BY <3>1 DEF Fits, WithToken
      <4>4. QED
        BY <4>2, <4>3
    <3>4. CASE ~Noted(c)
      <4>1. renewalFailed' \in {renewalFailed, FALSE}
        BY <2>1, <3>4 DEF Noted
      <4>2. QED
        BY <1>1, <2>1, <3>2, <4>1, QuietMaps
    <3>5. QED
      BY <3>3, <3>4
  <2>4. QED
    BY <2>2, <2>3
<1>11. CASE Accept(c)
  <2>1. UNCHANGED <<cache, seat, renewalFailed>> /\ pc[c] = "accept"
    BY <1>11 DEF Accept, server
  <2>2. CASE pc'[c] = "idle"
    BY <1>1, <2>1, <2>2, QuietMaps DEF Reporting, WithToken, WithRefusal, WithSilence
  <2>3. CASE pc'[c] # "idle"
    <3>1. /\ pc'[c] = "save" /\ Granted(c)
          /\ call'[c] = call[c] /\ tok'[c] = tok[c] /\ outcome'[c] = outcome[c]
      BY <1>2, <1>11, <2>1, <2>3 DEF TypeOK, Accept, Goto, Return, Fits
    <3>2. QED
      BY <1>1, <1>2, <2>1, <3>1, CarryMaps
  <2>4. QED
    BY <2>2, <2>3
<1>12. CASE SaveBegin(c)
  <2>1. /\ UNCHANGED <<cache, seat>> /\ renewalFailed' = FALSE
        /\ call'[c] = call[c] /\ tok'[c] = tok[c] /\ outcome'[c] = outcome[c]
        /\ pc[c] = "save" /\ pc'[c] = "saving"
    BY <1>12 DEF TypeOK, SaveBegin, Goto, server
  <2>2. Granted(c)
    BY <1>2, <2>1 DEF Fits
  <2>3. QED
    BY <1>1, <1>2, <2>1, <2>2, CarryMaps
<1>13. CASE SaveEnd(c)
  <2>1. /\ UNCHANGED <<seat, renewalFailed>> /\ cache' \in {tok[c], cache}
        /\ pc[c] = "saving" /\ pc'[c] = "idle"
    BY <1>13 DEF TypeOK, SaveEnd, FileAfter, Return, server
  <2>2. lock = c /\ ~renewalFailed
    BY <1>3, <2>1 DEF SafeInv, LockHeldByWriter
  <2>3. Granted(c) /\ tok[c] # NoToken
    BY <1>2, <2>1 DEF Fits, WithToken
  <2>4. tok[c].seal = "good"
    BY <2>1, <2>3 DEF Verified, Sealed
  <2>5. News(c)' = NoNews /\ Fits(c)'
    BY <2>1, NothingHeard DEF Fits, Reporting, WithToken, WithRefusal, WithSilence
  <2>6. CASE cache' = tok[c]
    BY <1>1, <2>1, <2>2, <2>3, <2>4, <2>5, <2>6, GrantedNews, KeepStep
  <2>7. CASE cache' = cache
    BY <1>1, <2>1, <2>5, <2>7, DropStep
  <2>8. QED
    BY <2>1, <2>5, <2>6, <2>7
<1>14. QED
  BY <1>4, <1>5, <1>6, <1>7, <1>8, <1>9, <1>10, <1>11, <1>12, <1>13 DEF CallerStep

\* The same for a background renewal.
LEMMA RenewalMaps ==
  ASSUME TypeInv, SafeInv, Verified, Heard, NEW n \in Attempts,
         RenewalStep(n) \/ BackgroundPanic(n)
  PROVE  H!Next /\ Heard'
<1>. USE ThreadKinds DEF TypeInv
<1>1. Others(n) /\ (Fits(n)' => Heard')
  BY RenewalAlone, OthersSame
<1>2. Fits(n)
  BY DEF Heard
<1>. SUFFICES H!Next /\ Fits(n)'
  BY <1>1
<1>3. CASE BackgroundStale(n) \/ BackgroundDrop(n) \/ BackgroundPanic(n)
  <2>1. pc'[n] \in {"drop", "idle"} /\ UNCHANGED <<cache, seat, renewalFailed>>
    BY <1>3 DEF TypeOK, BackgroundStale, BackgroundDrop, BackgroundPanic, Goto, server
  <2>2. pc'[n] \notin Reporting /\ pc'[n] \notin {"clear", "clearing"}
    BY <2>1 DEF Reporting, WithToken, WithRefusal, WithSilence
  <2>3. QED
    BY <1>1, <2>1, <2>2, QuietMaps
<1>4. CASE Answer(n)
  BY <1>1, <1>4, AnswerMaps
<1>5. CASE Abandon(n)
  BY <1>1, <1>5, AbandonMaps
<1>6. CASE BackgroundVerify(n)
  <2>1. /\ UNCHANGED <<cache, seat, renewalFailed>>
        /\ pc[n] = "reply" /\ pc'[n] = "record"
        /\ call'[n] = call[n] /\ tok'[n] = tok[n]
        /\ outcome'[n] \in {outcome[n], "server"}
    BY <1>6 DEF TypeOK, BackgroundVerify, Goto, server
  <2>2. CASE outcome'[n] = outcome[n]
    BY <1>1, <1>2, <2>1, <2>2, CarryMaps
  <2>3. CASE outcome'[n] = "server"
    <3>1. News(n)' = NoNews /\ Fits(n)'
      BY <2>1, <2>3 DEF Fits, News, Told, Granted, Refused, Unanswered
    <3>2. QED
      BY <1>1, <2>1, <3>1, DropStep
  <2>4. QED
    BY <2>1, <2>2, <2>3
<1>7. CASE BackgroundRecord(n)
  <2>1. /\ UNCHANGED <<cache, seat>> /\ renewalFailed' = Noted(n)
        /\ pc[n] = "record" /\ pc'[n] \in {"write", "drop"}
        /\ call'[n] = call[n] /\ tok'[n] = tok[n] /\ outcome'[n] = outcome[n]
        /\ pc'[n] = "write" => outcome[n] \in {"ok", "rejected"}
    BY <1>7 DEF TypeOK, BackgroundRecord, Goto, server
  <2>2. call[n].op = "renew"
    BY <2>1 DEF Shape
  <2>3. CASE pc'[n] = "write"
    <3>1. renewalFailed' = FALSE /\ (Granted(n) \/ Refused(n))
      BY <2>1, <2>2, <2>3 DEF Noted, Granted, Refused, Asks
    <3>2. QED
      BY <1>1, <1>2, <2>1, <2>3, <3>1, CarryMaps
  <2>4. CASE pc'[n] = "drop"
    <3>1. pc'[n] \notin Reporting /\ pc'[n] \notin {"clear", "clearing"}
      BY <2>4 DEF Reporting, WithToken, WithRefusal, WithSilence
    <3>2. CASE Noted(n)
      <4>1. /\ outcome[n] = "network" /\ renewalFailed' = TRUE
            /\ cache # NoToken /\ cache.aid = call[n].aid
        BY <2>1, <3>2 DEF Noted, HoldsActivation
      <4>2. H!Next
        BY <1>1, <2>1, <2>2, <3>1, <4>1, NothingHeard, SilentNews, DoubtStep
      <4>3. Fits(n)'
        BY <2>4 DEF Fits, WithToken
      <4>4. QED
        BY <4>2, <4>3
    <3>3. CASE ~Noted(n)
      <4>1. renewalFailed' \in {renewalFailed, FALSE}
        BY <2>1, <3>3 DEF Noted
      <4>2. QED
        BY <1>1, <2>1, <3>1, <4>1, QuietMaps
    <3>4. QED
      BY <3>2, <3>3
  <2>5. QED
    BY <2>1, <2>3, <2>4
<1>8. CASE BackgroundWrite(n)
  <2>1. /\ UNCHANGED <<seat, renewalFailed>> /\ pc[n] = "write" /\ pc'[n] = "drop"
        /\ cache' \in {cache, IF outcome[n] = "ok" THEN tok[n] ELSE NoToken}
    BY <1>8 DEF TypeOK, BackgroundWrite, FileAfter, Goto, server
  <2>2. /\ ~renewalFailed /\ call[n].op = "renew"
        /\ cache # NoToken /\ cache.aid = call[n].aid
    BY <2>1 DEF SafeInv, WriteGuarded, FlagDownUnderLock, Shape
  <2>3. News(n)' = NoNews /\ Fits(n)'
    BY <2>1, NothingHeard DEF Fits, Reporting, WithToken, WithRefusal, WithSilence
  <2>4. CASE cache' = cache
    BY <1>1, <2>1, <2>3, <2>4, DropStep
  <2>5. CASE outcome[n] = "ok" /\ cache' = tok[n]
    <3>1. Granted(n) /\ tok[n] # NoToken
      BY <1>2, <2>1, <2>2, <2>5 DEF Fits, Granted, Asks, WithToken
    <3>2. tok[n].seal = "good"
      BY <2>1, <2>5, <3>1 DEF Verified, Sealed
    <3>3. QED
      BY <1>1, <2>1, <2>2, <2>3, <2>5, <3>1, <3>2, GrantedNews, KeepStep
  <2>6. CASE outcome[n] # "ok" /\ cache' = NoToken
    <3>1. Refused(n)
      BY <1>2, <2>1, <2>2, <2>6 DEF Fits, Granted, Refused, Asks
    <3>2. QED
      BY <1>1, <2>1, <2>2, <2>3, <2>6, <3>1, RefusedNews, ForgetStep
  <2>7. QED
    BY <2>1, <2>4, <2>5, <2>6
<1>9. QED
  BY <1>3, <1>4, <1>5, <1>6, <1>7, <1>8 DEF RenewalStep

\* A renewal starts with no news, and its caller goes on without any.
LEMMA StartMaps ==
  ASSUME TypeInv, Heard, NEW c \in Callers, CheckStart(c)
  PROVE  H!Next /\ Heard'
<1>. USE ThreadKinds DEF TypeInv
<1>1. /\ attempt + 1 \in Attempts /\ pc[attempt + 1] = "idle"
      /\ UNCHANGED <<cache, seat, renewalFailed, tok, outcome>>
  BY ConstantsAssumption DEF TypeOK, Shape, CheckStart, Attempts, server
<1>2. \A u \in Threads \ {c, attempt + 1} : SameThread(u)
  BY <1>1 DEF TypeOK, CheckStart, Goto, SameThread
<1>3. \A u \in {c, attempt + 1} :
        /\ pc[u] \in {"try", "idle"} /\ pc'[u] \in {"flag", "post", "idle"}
  BY <1>1 DEF TypeOK, CheckStart, Goto
<1>4. \A u \in {c, attempt + 1} :
        pc[u] \notin Reporting /\ pc'[u] \notin Reporting
          /\ pc'[u] \notin {"clear", "clearing"}
  BY <1>3 DEF Reporting, WithToken, WithRefusal, WithSilence
<1>5. \A u \in Threads : News(u)' = News(u)
  BY <1>1, <1>2, <1>4, SameNews, NothingHeard
<1>6. \A u \in {c, attempt + 1} : Fits(u)'
  BY <1>3 DEF Fits, WithToken, Granted, Refused
<1>7. Heard'
  BY <1>2, <1>6, SameNews DEF Heard
<1>8. H!Next
  BY <1>1, <1>5, DropStep DEF Others
<1>9. QED
  BY <1>7, <1>8

\* A crash loses all news, and the flag with it.
LEMMA CrashMaps ==
  ASSUME Crash
  PROVE  H!Next /\ Heard'
<1>1. \A u \in Threads : pc'[u] = "idle"
  BY DEF Crash, All
<1>2. \A u \in Threads : News(u)' = IF u \in Threads THEN NoNews ELSE News(u)
  BY <1>1, NothingHeard DEF Reporting, WithToken, WithRefusal, WithSilence
<1>3. H!GiveUp
  BY <1>2 DEF Crash, H!GiveUp, H!NoNews, NoNews
<1>4. Heard'
  BY <1>1 DEF Heard, Fits, WithToken
<1>5. QED
  BY <1>3, <1>4 DEF H!Next

\* The first state is one of Handle's.
LEMMA HandleInit == Init => H!Init /\ Heard
<1>. SUFFICES ASSUME Init PROVE H!Init /\ Heard
  OBVIOUS
<1>1. \A u \in Threads : pc[u] = "idle"
  BY DEF Init, All
<1>2. \A u \in Threads : News(u) = NoNews
  BY <1>1, NothingHeard DEF Reporting, WithToken, WithRefusal, WithSilence
<1>3. Heard
  BY <1>1 DEF Heard, Fits, WithToken
<1>4. cache \in Tokens \cup {NoToken} /\ seat \in [Aids -> {"free", "held", "revoked"}]
  BY TypeInit DEF TypeInv, TypeOK
<1>5. H!Init
  BY <1>2, <1>4 DEF Init, H!Init, H!SeatStates, H!NoNews, NoNews
<1>6. QED
  BY <1>3, <1>5

\* Each step is one of Handle's, or leaves all Handle sees as it was.
LEMMA HandleNext ==
  TypeInv /\ SafeInv /\ Verified /\ Heard /\ [Next]_vars => [H!Next]_H!vars /\ Heard'
<1>. SUFFICES ASSUME TypeInv, SafeInv, Verified, Heard, [Next]_vars
             PROVE  [H!Next]_H!vars /\ Heard'
  OBVIOUS
<1>1. ASSUME NEW c \in Callers, NEW op \in Ops, NEW a \in Arguments(op), Begin(c, op, a)
      PROVE  H!Next /\ Heard'
  <2>1. /\ UNCHANGED <<cache, seat, renewalFailed>>
        /\ pc'[c] \in {"load", "clock", "post"}
        /\ \A u \in Threads \ {c} : SameThread(u)
    BY <1>1, ThreadKinds DEF TypeInv, TypeOK, Begin, Entry, Goto, SameThread, server
  <2>2. Others(c) /\ (Fits(c)' => Heard')
    BY <2>1, ThreadKinds, OthersSame
  <2>3. pc'[c] \notin Reporting /\ pc'[c] \notin {"clear", "clearing"}
    BY <2>1 DEF Reporting, WithToken, WithRefusal, WithSilence
  <2>4. QED
    BY <2>1, <2>2, <2>3, ThreadKinds, QuietMaps
<1>2. CASE LateArrival \/ Revoke
  <2>1. /\ UNCHANGED <<cache, renewalFailed>>
        /\ seat' \in [Aids -> {"free", "held", "revoked"}]
        /\ \A u \in Threads : SameThread(u)
    BY <1>2, SeatTyped DEF TypeInv, TypeOK, LateArrival, Revoke, thread, SameThread
  <2>2. QED
    BY <2>1, SameNews, ServeStep DEF Heard
<1>3. CASE Tick \/ Quiescent \/ UNCHANGED vars
  <2>1. /\ UNCHANGED <<cache, seat, renewalFailed>>
        /\ \A u \in Threads : SameThread(u)
    BY <1>3 DEF Tick, Quiescent, vars, thread, server, SameThread
  <2>2. Heard' /\ \A u \in Threads : News(u)' = News(u)
    BY <2>1, SameNews DEF Heard
  <2>3. UNCHANGED H!vars
    BY <2>1, <2>2 DEF H!vars
  <2>4. QED
    BY <2>2, <2>3
<1>4. QED
  BY <1>1, <1>2, <1>3, CallerMaps, RenewalMaps, StartMaps, CrashMaps
     DEF Next, HostCall

\* For any number of threads, activations, calls, renewals and restarts, the
\* handle is a correct Handle.
THEOREM HandleFollows == Spec => FollowsServer
<1>1. Init => Verified
  BY ThreadKinds DEF Init, All, Verified
<1>2. TypeInv /\ SafeInv /\ Verified /\ Heard /\ [Next]_vars => [H!Next]_H!vars
  BY HandleNext
<1>3. TypeInv /\ SafeInv /\ Verified /\ Heard /\ [Next]_vars => Heard'
  BY HandleNext
<1>4. QED
  BY TypeInit, TypeStep, SafeInit, SafeStep, <1>1, VerifiedStep, HandleInit,
     <1>2, <1>3, PTL DEF Spec, FollowsServer, H!Spec
=============================================================================
