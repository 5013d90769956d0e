---------------------------- MODULE SharedProofs ----------------------------
(***************************************************************************)
(* Proofs about SharedCache, for any number of processes and mishaps.      *)
(***************************************************************************)
EXTENDS SharedCache, TLAPS

\* The history is of requests under way, and misses none while the seat is lost.
History ==
  /\ lapsed \subseteq Requests
  /\ seat # "held" => lapsed = Requests

\* Who is about to delete the file was answered while the seat was not held.
Told ==
  \A p \in Procs :
    /\ host[p] = "clear" => <<p, "host">> \in lapsed
    /\ renewal[p] \in {"rejected", "clear"} => <<p, "renewal">> \in lapsed

Inv == TypeOK /\ History /\ Told

LEMMA RequestsProps ==
  ASSUME NEW p \in Procs
  PROVE  /\ <<p, "host">> \in Requests <=> host[p] \notin {"idle", "due"}
         /\ <<p, "renewal">> \in Requests <=> renewal[p] # "none"
         /\ Requests \subseteq Procs \X {"host", "renewal"}
BY DEF Requests

LEMMA RequestsNext ==
  ASSUME NEW p \in Procs
  PROVE  /\ <<p, "host">> \in Requests' <=> host'[p] \notin {"idle", "due"}
         /\ <<p, "renewal">> \in Requests' <=> renewal'[p] # "none"
         /\ Requests' \subseteq Procs \X {"host", "renewal"}
BY DEF Requests

LEMMA InitInv == Init => Inv
<1> SUFFICES ASSUME Init PROVE Inv
    OBVIOUS
<1>1. TypeOK
      BY SharedAssumption DEF Init, TypeOK
<1>2. Requests = {}
      BY DEF Init, Requests
<1>3. History /\ Told
      BY <1>2 DEF Init, History, Told
<1> QED BY <1>1, <1>3 DEF Inv

LEMMA NextType ==
  ASSUME Inv, Next
  PROVE  TypeOK'
<1> USE SharedAssumption DEF Inv, TypeOK, Posting
<1>1. lapsed' \subseteq Procs \X {"host", "renewal"}
      BY DEF Next, Remember, Requests
<1>2. ASSUME NEW p \in Procs,
             Check(p) \/ Skip(p) \/ Start(p) \/ (\E op \in Posting : Begin(p, op))
      PROVE  TypeOK'
  <2>1. CASE Check(p) \/ Skip(p)
        BY <1>1, <2>1 DEF Check, Skip, Goto
  <2>2. CASE Start(p)
    <3>1. renewal' \in [Procs -> {"none", "posting", "granted", "rejected", "save",
                                  "clear"}]
          BY <2>2 DEF Start
    <3>2. mishaps' \in 0 .. MaxMishaps
          BY <2>2 DEF Start, Mishap
    <3> QED BY <1>1, <2>2, <3>1, <3>2 DEF Start, Goto
  <2>3. ASSUME NEW op \in Posting, Begin(p, op) PROVE TypeOK'
    <3>1. mark' \in [Procs -> {"never", "recent", "past"}]
          BY <2>3 DEF Begin
    <3>2. host' \in [Procs -> {"idle", "due", "save", "clear"} \cup Posting]
          BY <2>3 DEF Begin, Goto
    <3> QED BY <1>1, <2>3, <3>1, <3>2 DEF Begin
  <2> QED BY <1>2, <2>1, <2>2, <2>3
<1>3. ASSUME NEW p \in Procs, AnswerHost(p) \/ FailHost(p) PROVE TypeOK'
  <2>1. host' \in [Procs -> {"idle", "due", "save", "clear"} \cup Posting]
        BY <1>3 DEF AnswerHost, FailHost, Goto, Then
  <2>2. seat' \in {"held", "free", "revoked"}
        BY <1>3 DEF AnswerHost, FailHost, Take, SeatAfter
  <2>3. late' \subseteq {"activate", "deactivate"}
        BY <1>3 DEF AnswerHost, FailHost
  <2> QED BY <1>1, <1>3, <2>1, <2>2, <2>3 DEF AnswerHost, FailHost
<1>4. ASSUME NEW p \in Procs,
             HostWrite(p) \/ HostWriteFails(p) \/ Record(p) \/ Write(p) \/ Dropped(p)
      PROVE  TypeOK'
  <2>1. CASE HostWrite(p) \/ HostWriteFails(p)
    <3>1. host' \in [Procs -> {"idle", "due", "save", "clear"} \cup Posting]
          BY <2>1 DEF HostWrite, HostWriteFails, Goto
    <3>2. mishaps' \in 0 .. MaxMishaps
          BY <2>1 DEF HostWrite, HostWriteFails, Mishap
    <3>3. cache' \in {"none", "young", "due"}
          BY <2>1 DEF HostWrite, HostWriteFails
    <3> QED BY <1>1, <2>1, <3>1, <3>2, <3>3 DEF HostWrite, HostWriteFails
  <2>2. CASE Record(p)
        BY <1>1, <2>2 DEF Record, Outcome
  <2>3. CASE Write(p) \/ Dropped(p)
    <3>1. renewal' \in [Procs -> {"none", "posting", "granted", "rejected", "save",
                                  "clear"}]
          BY <2>3 DEF Write, Dropped
    <3>2. mishaps' \in 0 .. MaxMishaps
          BY <2>3 DEF Write, Dropped, Mishap
    <3>3. cache' \in {"none", "young", "due"}
          BY <2>3 DEF Write, Dropped
    <3> QED BY <1>1, <2>3, <3>1, <3>2, <3>3 DEF Write, Dropped
  <2> QED BY <1>4, <2>1, <2>2, <2>3
<1>5. ASSUME NEW p \in Procs, AnswerRenewal(p) \/ FailRenewal(p) \/ Elapse(p)
      PROVE  TypeOK'
      BY <1>1, <1>5 DEF AnswerRenewal, FailRenewal, Elapse, Decision
<1>6. ASSUME NEW p \in Procs, Crash(p) PROVE TypeOK'
      BY <1>1, <1>6 DEF Crash, Mishap
<1>7. CASE Arrive
  <2>1. late' \subseteq {"activate", "deactivate"}
        BY <1>7 DEF Arrive
  <2>2. seat' \in {"held", "free", "revoked"}
        BY <1>7 DEF Arrive, Take, SeatAfter
  <2> QED BY <1>1, <1>7, <2>1, <2>2 DEF Arrive
<1>8. CASE Release \/ Age \/ StepBack
  <2>1. CASE Release \/ Age
        BY <1>1, <2>1 DEF Release, Age
  <2>2. CASE StepBack
    <3>1. mark' \in [Procs -> {"never", "recent", "past"}]
          BY <2>2 DEF StepBack
    <3>2. mishaps' \in 0 .. MaxMishaps
          BY <2>2 DEF StepBack, Mishap
    <3> QED BY <1>1, <2>2, <3>1, <3>2 DEF StepBack
  <2> QED BY <1>8, <2>1, <2>2
<1> QED BY <1>2, <1>3, <1>4, <1>5, <1>6, <1>7, <1>8 DEF Next, Step, HostStep

LEMMA NextHistory ==
  ASSUME Inv, Next
  PROVE  History'
BY DEF Next, Remember, History

\* A thread keeps what it was told: it was told by a server that, at that very
\* step, held no seat for it or lost it.
LEMMA NextTold ==
  ASSUME Inv, Next
  PROVE  Told'
<1> SUFFICES ASSUME NEW p \in Procs
             PROVE  /\ host'[p] = "clear" => <<p, "host">> \in lapsed'
                    /\ renewal'[p] \in {"rejected", "clear"}
                         => <<p, "renewal">> \in lapsed'
    BY DEF Told
<1>1. \A t \in Requests' : t \in lapsed \/ seat' # "held" => t \in lapsed'
      BY DEF Next, Remember
<1>2. host'[p] = "clear" => host[p] = "clear" \/ seat' # "held" \/ seat # "held"
  <2> SUFFICES ASSUME host'[p] = "clear", host[p] # "clear"
               PROVE  seat' # "held" \/ seat # "held"
      OBVIOUS
  <2>1. PICK q \in Procs : AnswerHost(q) \/ FailHost(q)
        BY DEF Inv, TypeOK, Next, Step, HostStep, Check, Skip, Start, Begin, HostWrite,
               HostWriteFails, Record, Write, Dropped, AnswerRenewal, FailRenewal,
               Elapse, Crash, Arrive, Release, Age, StepBack, Goto, Posting
  <2>2. q = p /\ (AnswerHost(p) \/ FailHost(p))
        BY <2>1 DEF AnswerHost, FailHost, Goto, Inv, TypeOK
  <2>3. AnswerHost(p) /\ Then(host[p], Decision(host[p])) = "clear"
        BY <2>2 DEF AnswerHost, FailHost, Goto, Then, Inv, TypeOK, Posting
  <2>4. CASE host[p] = "deactivate"
        BY <2>3, <2>4 DEF AnswerHost, Take, Grants, SeatAfter
  <2>5. CASE host[p] # "deactivate"
        BY <2>3, <2>5 DEF AnswerHost, Then, Decision, Grants, Posting
  <2> QED BY <2>4, <2>5
<1>3. host'[p] = "clear" => <<p, "host">> \in lapsed'
  <2> SUFFICES ASSUME host'[p] = "clear" PROVE <<p, "host">> \in lapsed'
      OBVIOUS
  <2>1. <<p, "host">> \in Requests'
        BY RequestsNext
  <2>2. CASE host[p] = "clear"
        BY <1>1, <2>1, <2>2 DEF Inv, Told
  <2>3. CASE seat' # "held"
        BY <1>1, <2>1, <2>3
  <2>4. CASE host[p] # "clear" /\ seat # "held"
    <3>1. host[p] \in Posting
          BY <2>4 DEF Inv, TypeOK, Next, Step, HostStep, Check, Skip, Start, Begin,
                 HostWrite, HostWriteFails, Record, Write, Dropped, AnswerRenewal,
                 FailRenewal, Elapse, Crash, Arrive, Release, Age, StepBack, Goto,
                 AnswerHost, FailHost, Posting
    <3>2. <<p, "host">> \in lapsed
          BY <2>4, <3>1, RequestsProps DEF Inv, History, Posting
    <3> QED BY <1>1, <2>1, <3>2
  <2> QED BY <1>2, <2>2, <2>3, <2>4
<1>4. ASSUME renewal'[p] \in {"rejected", "clear"} PROVE <<p, "renewal">> \in lapsed'
  <2>1. <<p, "renewal">> \in Requests'
        BY <1>4, RequestsNext
  <2>2. \/ renewal[p] \in {"rejected", "clear"}
        \/ renewal[p] = "posting" /\ seat # "held"
        BY <1>4 DEF Inv, TypeOK, Next, Step, HostStep, Check, Skip, Start, Begin,
               HostWrite, HostWriteFails, Record, Write, Dropped, AnswerRenewal,
               FailRenewal, Elapse, Crash, Arrive, Release, Age, StepBack, AnswerHost,
               FailHost, Outcome, Decision, Grants
  <2>3. CASE renewal[p] \in {"rejected", "clear"}
        BY <1>1, <2>1, <2>3 DEF Inv, Told
  <2>4. CASE renewal[p] = "posting" /\ seat # "held"
        BY <1>1, <2>1, <2>4, RequestsProps DEF Inv, History
  <2> QED BY <2>2, <2>3, <2>4
<1> QED BY <1>3, <1>4

LEMMA InvHolds == Spec => []Inv
<1>1. Init => Inv
      BY InitInv
<1>2. Inv /\ [Next]_vars => Inv'
  <2>1. CASE Next
        BY <2>1, NextType, NextHistory, NextTold DEF Inv
  <2>2. CASE UNCHANGED vars
        BY <2>2 DEF vars, state, Inv, TypeOK, History, Told, Requests
  <2> QED BY <2>1, <2>2
<1> QED BY <1>1, <1>2, PTL DEF Spec

\* Every reachable state is well typed, for any number of processes.
THEOREM Typed == Spec => []TypeOK
BY InvHolds, PTL DEF Inv

\* A token leaves the shared file only for what the server said of it, however
\* many processes share the file.
THEOREM LossesHaveCause == Spec => LostForCause
<1> DEFINE A == cache # "none" /\ cache' = "none" =>
                  \E p \in Procs :
                    \/ host[p] = "clear" /\ host'[p] = "idle" /\ <<p, "host">> \in lapsed
                    \/ renewal[p] = "clear" /\ renewal'[p] = "none"
                       /\ <<p, "renewal">> \in lapsed
<1>1. Inv /\ [Next]_vars => [A]_vars
  <2> SUFFICES ASSUME Inv, Next, cache # "none", cache' = "none" PROVE A
      OBVIOUS
  <2>1. PICK p \in Procs : HostWrite(p) \/ Write(p)
        BY DEF Next, Step, HostStep, Check, Skip, Start, Begin, HostWriteFails, Record,
               Dropped, AnswerRenewal, FailRenewal, Elapse, Crash, Arrive, Release,
               Age, StepBack, AnswerHost, FailHost, Inv, TypeOK
  <2>2. CASE HostWrite(p)
    <3>1. host[p] = "clear" /\ host'[p] = "idle"
          BY <2>2 DEF HostWrite, Goto, Inv, TypeOK
    <3> QED BY <3>1 DEF Inv, Told
  <2>3. CASE Write(p)
    <3>1. renewal[p] = "clear" /\ renewal'[p] = "none"
          BY <2>3 DEF Write, Inv, TypeOK
    <3> QED BY <3>1 DEF Inv, Told
  <2> QED BY <2>1, <2>2, <2>3
<1> QED BY <1>1, InvHolds, PTL DEF Spec, LostForCause

-----------------------------------------------------------------------------
(* The safety half of Forgotten *)

\* The saves still owed: who was granted a token and has not written it yet.
Owed == {<<p, "host">> : p \in {q \in Procs : host[q] = "save"}}
          \cup {<<p, "renewal">> :
                  p \in {q \in Procs : renewal[q] \in {"granted", "save"}}}

LEMMA OwedProps ==
  ASSUME NEW p \in Procs
  PROVE  /\ <<p, "host">> \in Owed <=> host[p] = "save"
         /\ <<p, "renewal">> \in Owed <=> renewal[p] \in {"granted", "save"}
BY DEF Owed

LEMMA OwedNext ==
  ASSUME NEW p \in Procs
  PROVE  /\ <<p, "host">> \in Owed' <=> host'[p] = "save"
         /\ <<p, "renewal">> \in Owed' <=> renewal'[p] \in {"granted", "save"}
BY DEF Owed

\* Only a server that holds the seat, or is made to hold it, grants a token.
LEMMA GrantsNeedSeat ==
  ASSUME Inv, Next, seat' # "held", NEW p \in Procs
  PROVE  /\ host'[p] = "save" => host[p] = "save"
         /\ renewal'[p] \in {"granted", "save"} => renewal[p] \in {"granted", "save"}
<1>1. ASSUME host'[p] = "save", host[p] # "save" PROVE FALSE
  <2>1. PICK q \in Procs : AnswerHost(q) \/ FailHost(q)
        BY <1>1 DEF Inv, TypeOK, Next, Step, HostStep, Check, Skip, Start, Begin,
               HostWrite, HostWriteFails, Record, Write, Dropped, AnswerRenewal,
               FailRenewal, Elapse, Crash, Arrive, Release, Age, StepBack, Goto, Posting
  <2>2. q = p
        BY <1>1, <2>1 DEF AnswerHost, FailHost, Goto, Inv, TypeOK
  <2>3. ~FailHost(p)
        BY <1>1 DEF FailHost, Goto, Then, Inv, TypeOK, Posting
  <2>4. /\ host[p] \in {"activate", "renew"} /\ Grants(host[p])
        /\ seat' = SeatAfter(host[p])
    <3>1. /\ host[p] \in Posting /\ Take(host[p])
          /\ Then(host[p], Decision(host[p])) = "save"
          BY <1>1, <2>1, <2>2, <2>3 DEF AnswerHost, Goto, Inv, TypeOK
    <3>2. host[p] # "deactivate"
          BY <3>1 DEF Then
    <3>3. CASE Grants(host[p])
          BY <3>1, <3>2, <3>3 DEF Take, Posting
    <3>4. CASE ~Grants(host[p])
      <4>1. Decision(host[p]) = "rejected"
            BY <3>4 DEF Decision
      <4> QED BY <3>1, <3>2, <4>1 DEF Then
    <3> QED BY <3>3, <3>4
  <2>5. CASE host[p] = "activate"
        BY <2>4, <2>5 DEF SeatAfter
  <2>6. CASE host[p] = "renew"
    <3>1. seat = "held"
          BY <2>4, <2>6 DEF Grants
    <3> QED BY <2>4, <2>6, <3>1 DEF SeatAfter
  <2> QED BY <2>4, <2>5, <2>6
<1>2. ASSUME renewal'[p] \in {"granted", "save"}, renewal[p] \notin {"granted", "save"}
      PROVE  FALSE
  <2>1. PICK q \in Procs : AnswerRenewal(q) \/ Start(q) \/ Record(q)
        BY <1>2 DEF Inv, TypeOK, Next, Step, HostStep, Check, Skip, Begin, HostWrite,
               HostWriteFails, Write, Dropped, FailRenewal, Elapse, Crash, Arrive,
               Release, Age, StepBack, AnswerHost, FailHost
  <2>2. q = p
        BY <1>2, <2>1 DEF AnswerRenewal, Start, Record, Inv, TypeOK
  <2>3. ~Start(p)
        BY <1>2 DEF Start, Inv, TypeOK
  <2>4. ~Record(p)
        BY <1>2 DEF Record, Outcome, Inv, TypeOK
  <2>5. seat = "held" /\ seat' = seat
        BY <1>2, <2>1, <2>2, <2>3, <2>4 DEF AnswerRenewal, Decision, Grants, Inv, TypeOK
  <2> QED BY <2>5
<1> QED BY <1>1, <1>2

\* While the seat is not held no save comes to be owed, and whatever puts a token
\* back into an empty file uses up one that is: of the saves under way when the
\* seat was lost each can refill the file once, and then nothing can.
THEOREM RefillsRunOut ==
  Spec => [][seat' # "held" =>
               /\ Owed' \subseteq Owed
               /\ cache = "none" /\ cache' # "none" => Owed' # Owed]_vars
<1> DEFINE A == seat' # "held" =>
                  /\ Owed' \subseteq Owed
                  /\ cache = "none" /\ cache' # "none" => Owed' # Owed
<1>1. Inv /\ [Next]_vars => [A]_vars
  <2> SUFFICES ASSUME Inv, Next, seat' # "held" PROVE A
      OBVIOUS
  <2>1. Owed' \subseteq Owed
        BY GrantsNeedSeat, OwedProps DEF Owed
  <2>2. ASSUME cache = "none", cache' # "none" PROVE Owed' # Owed
    <3>1. PICK p \in Procs : HostWrite(p) \/ Write(p)
          BY <2>2 DEF Next, Step, HostStep, Check, Skip, Start, Begin, HostWriteFails,
                 Record, Dropped, AnswerRenewal, FailRenewal, Elapse, Crash, Arrive,
                 Release, Age, StepBack, AnswerHost, FailHost
    <3>2. CASE HostWrite(p)
      <4>1. host[p] = "save" /\ host'[p] = "idle"
            BY <2>2, <3>2 DEF HostWrite, Goto, Inv, TypeOK
      <4> QED BY <4>1, OwedProps, OwedNext
    <3>3. CASE Write(p)
      <4>1. renewal[p] = "save" /\ renewal'[p] = "none"
            BY <2>2, <3>3 DEF Write, Inv, TypeOK
      <4> QED BY <4>1, OwedProps, OwedNext
    <3> QED BY <3>1, <3>2, <3>3
  <2> QED BY <2>1, <2>2
<1> QED BY <1>1, InvHolds, PTL DEF Spec

\* Once the file is empty and nobody owes it a save it stays so until the seat is
\* held again: no crash, late request or overtaken renewal brings the token back.
THEOREM StaysForgotten ==
  Spec => [][cache = "none" /\ Owed = {} /\ seat' # "held"
               => cache' = "none" /\ Owed' = {}]_vars
<1> DEFINE A == seat' # "held" =>
                  /\ Owed' \subseteq Owed
                  /\ cache = "none" /\ cache' # "none" => Owed' # Owed
           B == cache = "none" /\ Owed = {} /\ seat' # "held"
                  => cache' = "none" /\ Owed' = {}
<1>1. [A]_vars => [B]_vars
      OBVIOUS
<1> QED BY <1>1, RefillsRunOut, PTL
=============================================================================
