----------------------------- MODULE HttpProofs -----------------------------
(***************************************************************************)
(* Proofs about HttpCall, for every number of requests and every limit.    *)
(***************************************************************************)
EXTENDS HttpCall, TLAPS

Msgs == [kind : {"empty", "closed", "error", "answer"},
         status : Statuses \cup {"none"}, body : Bodies \cup {"none"}]

\* The call under way is the last one made, and the only one not yet answered.
OneAtATime ==
  \A r \in Requests :
    /\ waiting = r => r < next /\ result[r] = "none"
    /\ r < next /\ waiting # r => result[r] # "none"
    /\ r >= next => result[r] = "none" /\ helper[r] = "none"
                    /\ r \notin left /\ decision[r] = "none"

\* A channel holds only what its own helper sent to a caller still there.
OwnChannel ==
  \A r \in Requests :
    channel[r] # Bare("empty") =>
      /\ waiting = r /\ helper[r] = "ended"
      /\ channel[r].kind # "empty"
      /\ channel[r].kind = "answer" =>
           decision[r] # "none" /\ channel[r].status = decision[r]

\* A status is read only after the server decided.
Decided ==
  \A r \in Requests :
    /\ helper[r] = "reading" => decision[r] # "none"
    /\ decision[r] # "none" => r \in left

\* The client's limit comes before the caller's.
InTime ==
  /\ ReturnsInTime
  /\ \A r \in Requests : Limited(r) => now <= started[r] + Timeout

Inv == TypeOK /\ OneAtATime /\ OwnChannel /\ Decided /\ InTime

-----------------------------------------------------------------------------
(* The operators on messages *)

LEMMA BareProps ==
  ASSUME NEW k \in {"empty", "closed", "error"}
  PROVE  Bare(k) \in Channels /\ Bare(k).kind = k
BY DEF Bare, Channels

LEMMA AnswerProps ==
  ASSUME NEW s \in Statuses, NEW b \in Bodies
  PROVE  /\ Answer(s, b) \in Channels /\ Answer(s, b).kind = "answer"
         /\ Answer(s, b).status = s /\ Answer(s, b).body = b
         /\ Answer(s, b) # Bare("empty")
BY DEF Bare, Answer, Channels

LEMMA ChannelProps ==
  ASSUME NEW m \in Channels
  PROVE  /\ m.kind = "answer" => m.status \in Statuses /\ m.body \in Bodies
         /\ m.kind = "empty" <=> m = Bare("empty")
         /\ m.kind \in {"empty", "closed", "error", "answer"}
BY DEF Bare, Answer, Channels

LEMMA DecodeProps ==
  ASSUME NEW p \in Paths, NEW s \in Statuses, NEW b
  PROVE  /\ Decode(p, s, b) \in Results \ {"network"}
         /\ Decode(p, s, b) \in Allowed(p, s)
BY DEF Decode, Allowed, Results, Statuses, Paths

-----------------------------------------------------------------------------
(* The invariant *)

LEMMA InitInv == Init => Inv
<1> SUFFICES ASSUME Init PROVE Inv
    OBVIOUS
<1> USE HttpAssumption DEF Init, Requests
<1>1. TypeOK
      BY BareProps DEF TypeOK, Requests, Results
<1>2. OneAtATime
      BY DEF OneAtATime
<1>3. OwnChannel
      BY DEF OwnChannel
<1>4. Decided
      BY DEF Decided
<1>5. InTime
      BY DEF InTime, ReturnsInTime, Limited
<1> QED BY <1>1, <1>2, <1>3, <1>4, <1>5 DEF Inv

\* What the steps that end a call keep.
LEMMA ReturnStep ==
  ASSUME Inv, NEW r \in Requests, waiting = r,
         NEW x \in Results, Return(r, x),
         UNCHANGED <<now, path, next, started, helper, remote>>
  PROVE  Inv'
<1> USE DEF Return, ChannelOf, remote
<1>1. TypeOK'
      BY BareProps DEF Inv, TypeOK, Requests
<1>2. OneAtATime'
      BY HttpAssumption DEF Inv, TypeOK, OneAtATime, Requests, Results
<1>3. OwnChannel'
      BY BareProps DEF Inv, TypeOK, OwnChannel, Requests
<1>4. Decided'
      BY DEF Inv, Decided
<1>5. InTime'
      BY DEF Inv, InTime, ReturnsInTime, Limited, Requests
<1> QED BY <1>1, <1>2, <1>3, <1>4, <1>5 DEF Inv

\* What the steps that end a helper keep.
LEMMA SendStep ==
  ASSUME Inv, NEW r \in Requests, helper[r] \notin {"none", "ended"},
         NEW m \in Channels, m.kind # "empty",
         m.kind = "answer" => decision[r] # "none" /\ m.status = decision[r],
         Send(r, m),
         UNCHANGED <<now, path, next, waiting, started, remote, result>>
  PROVE  Inv'
<1> USE DEF Send, ChannelOf, remote
<1>1. TypeOK'
      BY DEF Inv, TypeOK, Requests
<1>2. OneAtATime'
      BY DEF Inv, TypeOK, OneAtATime, Requests
<1>3. OwnChannel'
  <2> SUFFICES ASSUME NEW q \in Requests, channel'[q] # Bare("empty")
               PROVE  /\ waiting = q /\ helper'[q] = "ended"
                      /\ channel'[q].kind # "empty"
                      /\ channel'[q].kind = "answer" =>
                           decision[q] # "none" /\ channel'[q].status = decision[q]
      BY DEF OwnChannel
  <2>1. CASE channel'[q] = channel[q]
        BY <2>1 DEF Inv, TypeOK, OwnChannel, Requests
  <2>2. CASE channel'[q] # channel[q]
        BY <2>2 DEF Inv, TypeOK, Requests
  <2> QED BY <2>1, <2>2
<1>4. Decided'
      BY DEF Inv, TypeOK, Decided, Requests
<1>5. InTime'
      BY DEF Inv, TypeOK, InTime, ReturnsInTime, Limited, Deadline, Requests
<1> QED BY <1>1, <1>2, <1>3, <1>4, <1>5 DEF Inv

LEMMA NextInv == Inv /\ [Next]_vars => Inv'
<1> SUFFICES ASSUME Inv, [Next]_vars PROVE Inv'
    OBVIOUS
<1>1. CASE Post /\ waiting' # 0
  <2> USE <1>1, HttpAssumption DEF Post, Return, remote
  <2>1. TypeOK'
        BY DEF Inv, TypeOK, Requests
  <2>2. OneAtATime'
        BY DEF Inv, TypeOK, OneAtATime, Requests
  <2>3. OwnChannel'
        BY DEF Inv, TypeOK, OneAtATime, OwnChannel, Requests
  <2>4. Decided'
        BY DEF Inv, TypeOK, Decided, Requests
  <2>5. InTime'
        BY DEF Inv, TypeOK, OneAtATime, InTime, ReturnsInTime, Limited, Deadline, Requests
  <2> QED BY <2>1, <2>2, <2>3, <2>4, <2>5 DEF Inv
<1>2. CASE Post /\ waiting' = 0
  <2> USE <1>2, HttpAssumption DEF Post, Return, remote, ChannelOf
  <2>0. next \in Requests /\ next # 0
        BY DEF Requests
  <2>1. TypeOK'
    <3>1. Bare("empty") \in Channels /\ "network" \in Results
          BY BareProps DEF Results
    <3>2. started' \in [Requests -> 0 .. MaxTime] /\ next' \in 1 .. MaxRequests + 1
          BY <2>0 DEF Inv, TypeOK, Requests
    <3>3. helper' \in [Requests -> {"none", "connecting", "hung", "sent", "reading",
                                   "ended"}]
          BY <2>0 DEF Inv, TypeOK
    <3>4. channel' \in [Requests -> Channels]
          /\ result' \in [Requests -> Results \cup {"none"}]
          BY <2>0, <3>1 DEF Inv, TypeOK
    <3> QED BY <3>2, <3>3, <3>4 DEF Inv, TypeOK
  <2>2. OneAtATime'
        BY <2>0 DEF Inv, TypeOK, OneAtATime, Requests
  <2>3. OwnChannel'
        BY <2>0 DEF Inv, TypeOK, OneAtATime, OwnChannel, Requests
  <2>4. Decided'
        BY <2>0 DEF Inv, TypeOK, Decided, Requests
  <2>5. InTime'
        BY <2>0 DEF Inv, TypeOK, OneAtATime, InTime, ReturnsInTime, Limited, Deadline,
                    Requests
  <2> QED BY <2>1, <2>2, <2>3, <2>4, <2>5 DEF Inv
<1>3. CASE Tick
  <2> USE <1>3, HttpAssumption DEF Tick, remote
  <2>1. TypeOK'
        BY DEF Inv, TypeOK, Requests
  <2>2. OneAtATime' /\ OwnChannel' /\ Decided'
        BY DEF Inv, OneAtATime, OwnChannel, Decided
  <2>3. InTime'
        BY DEF Inv, TypeOK, InTime, ReturnsInTime, Limited, Deadline, GivesUp, Requests
  <2> QED BY <2>1, <2>2, <2>3 DEF Inv
<1>4. ASSUME NEW r \in Requests, Receive(r) PROVE Inv'
  <2>1. channel[r] \in Channels
        BY DEF Inv, TypeOK
  <2>2. Outcome(r, channel[r]) \in Results
        BY <2>1, ChannelProps, DecodeProps DEF Outcome, Inv, TypeOK, Results
  <2> QED BY <1>4, <2>2, ReturnStep DEF Receive, ChannelOf
<1>5. ASSUME NEW r \in Requests, Abandon(r) PROVE Inv'
      BY <1>5, ReturnStep DEF Abandon, Results
<1>6. ASSUME NEW r \in Requests, Connect(r) PROVE Inv'
  <2> USE <1>6 DEF Connect
  <2>1. TypeOK'
        BY DEF Inv, TypeOK, Requests
  <2>2. OneAtATime'
        BY DEF Inv, TypeOK, OneAtATime, Requests
  <2>3. OwnChannel'
        BY DEF Inv, TypeOK, OwnChannel, Requests
  <2>4. Decided'
        BY DEF Inv, TypeOK, Decided, Requests
  <2>5. InTime'
        BY DEF Inv, TypeOK, InTime, ReturnsInTime, Limited, Deadline, Requests
  <2> QED BY <2>1, <2>2, <2>3, <2>4, <2>5 DEF Inv
<1>7. ASSUME NEW r \in Requests, Head(r) PROVE Inv'
  <2> USE <1>7 DEF Head, remote
  <2>1. TypeOK'
        BY DEF Inv, TypeOK, Requests
  <2>2. OneAtATime'
        BY DEF Inv, TypeOK, OneAtATime, Requests
  <2>3. OwnChannel'
        BY DEF Inv, TypeOK, OwnChannel, Requests
  <2>4. Decided'
        BY DEF Inv, TypeOK, Decided, Requests
  <2>5. InTime'
        BY DEF Inv, TypeOK, InTime, ReturnsInTime, Limited, Deadline, Requests
  <2> QED BY <2>1, <2>2, <2>3, <2>4, <2>5 DEF Inv
<1>8. ASSUME NEW r \in Requests, Body(r) PROVE Inv'
  <2>1. PICK b \in Bodies : Send(r, Answer(decision[r], b))
        BY <1>8 DEF Body
  <2>2. decision[r] \in Statuses
        BY <1>8 DEF Body, Inv, TypeOK, Decided
  <2>3. decision[r] # "none"
        BY <1>8 DEF Body, Inv, Decided
  <2> QED BY <1>8, <2>1, <2>2, <2>3, AnswerProps, SendStep DEF Body
<1>9. ASSUME NEW r \in Requests, Fail(r) \/ Panic(r) PROVE Inv'
  <2>1. PICK k \in {"error", "closed"} : Send(r, Bare(k))
        BY <1>9 DEF Fail, Panic
  <2>2. Bare(k) \in Channels /\ Bare(k).kind = k
        BY BareProps
  <2>3. helper[r] \notin {"none", "ended"}
        BY <1>9 DEF Fail, Panic, Limited
  <2>4. UNCHANGED <<now, path, next, waiting, started, remote, result>>
        BY <1>9 DEF Fail, Panic
  <2> QED BY <2>1, <2>2, <2>3, <2>4, SendStep
<1>10. ASSUME NEW r \in Requests, Hang(r) PROVE Inv'
  <2> USE <1>10 DEF Hang, remote
  <2>1. TypeOK'
        BY DEF Inv, TypeOK, Requests
  <2>2. OneAtATime'
        BY DEF Inv, TypeOK, OneAtATime, Requests
  <2>3. OwnChannel'
        BY DEF Inv, TypeOK, OwnChannel, Requests
  <2>4. Decided'
        BY DEF Inv, TypeOK, Decided, Requests
  <2>5. InTime'
        BY DEF Inv, TypeOK, InTime, ReturnsInTime, Limited, Deadline, Requests
  <2> QED BY <2>1, <2>2, <2>3, <2>4, <2>5 DEF Inv
<1>11. ASSUME NEW r \in Requests, Decide(r) PROVE Inv'
  <2> USE <1>11 DEF Decide
  <2>1. TypeOK'
        BY DEF Inv, TypeOK, Requests
  <2>2. OneAtATime'
        BY DEF Inv, TypeOK, OneAtATime, Requests
  <2>3. OwnChannel'
        BY DEF Inv, TypeOK, OwnChannel, Requests
  <2>4. Decided'
        BY DEF Inv, TypeOK, Decided, Requests, Statuses
  <2>5. InTime'
        BY DEF Inv, TypeOK, InTime, ReturnsInTime, Limited, Deadline, Requests
  <2> QED BY <2>1, <2>2, <2>3, <2>4, <2>5 DEF Inv
<1>12. CASE UNCHANGED vars
      BY <1>12 DEF vars, remote, Inv, TypeOK, OneAtATime, OwnChannel, Decided, InTime,
                   ReturnsInTime, Limited, Deadline
<1> QED BY <1>1, <1>2, <1>3, <1>4, <1>5, <1>6, <1>7, <1>8, <1>9, <1>10, <1>11, <1>12
        DEF Next, HelperStep

THEOREM InvHolds == Spec => []Inv
<1>1. Init => Inv
      BY InitInv
<1>2. Inv /\ [Next]_vars => Inv'
      BY NextInv
<1> QED BY <1>1, <1>2, PTL DEF Spec

\* Requests, helpers, channels and limits keep their types in every state.
THEOREM Typed == Spec => []TypeOK
BY InvHolds, PTL DEF Inv

\* No call waits past timeout + ABANDON_AFTER, whatever its helper does.
THEOREM Prompt == Spec => []ReturnsInTime
BY InvHolds, PTL DEF Inv, InTime

-----------------------------------------------------------------------------
\* Once a status has been read, the call does not look like being offline: its
\* helper ends by the client's limit, before the caller gives up.
THEOREM NoFalseNetwork == Spec => NetworkMeansNoAnswer
<1> DEFINE Step == \A r \in Requests : result[r] # "network" /\ result'[r] = "network"
                     => helper[r] # "reading" /\ channel[r].kind # "answer"
<1>1. Inv /\ [Next]_vars => [Step]_vars
  <2> SUFFICES ASSUME Inv, Next, NEW r \in Requests,
                      result[r] # "network", result'[r] = "network"
               PROVE  helper[r] # "reading" /\ channel[r].kind # "answer"
      BY DEF vars
  <2>1. CASE Post
    <3>1. r = next
          BY <2>1 DEF Post, Return, Inv, TypeOK
    <3>2. helper[r] = "none" /\ channel[r] = Bare("empty")
          BY <2>1, <3>1 DEF Inv, TypeOK, OneAtATime, OwnChannel, Requests
    <3> QED BY <3>2, BareProps
  <2>2. ASSUME NEW q \in Requests, Receive(q)
        PROVE  helper[r] # "reading" /\ channel[r].kind # "answer"
    <3>1. r = q /\ Outcome(r, channel[r]) = "network"
          BY <2>2 DEF Receive, Return, ChannelOf, Inv, TypeOK
    <3>2. channel[r] \in Channels
          BY DEF Inv, TypeOK
    <3>3. channel[r].kind # "empty" /\ helper[r] # "reading"
          BY <2>2, <3>1, <3>2, ChannelProps
          DEF Receive, Holds, ChannelOf, Inv, OwnChannel
    <3>4. channel[r].kind # "answer"
          BY <3>1, <3>2, ChannelProps, DecodeProps DEF Outcome, Inv, TypeOK
    <3> QED BY <3>3, <3>4
  <2>3. ASSUME NEW q \in Requests, Abandon(q)
        PROVE  helper[r] # "reading" /\ channel[r].kind # "answer"
    <3>1. r = q /\ channel[r].kind = "empty" /\ now >= Deadline(r)
          BY <2>3 DEF Abandon, Return, GivesUp, Holds, ChannelOf, Inv, TypeOK
    <3>2. ~Limited(r)
          BY <3>1, HttpAssumption DEF Deadline, Inv, TypeOK, InTime
    <3> QED BY <3>1, <3>2 DEF Limited
  <2>4. ASSUME NEW q \in Requests, HelperStep(q) \/ Panic(q) \/ Hang(q) \/ Decide(q)
        PROVE  FALSE
        BY <2>4 DEF HelperStep, Connect, Head, Body, Fail, Panic, Hang, Decide
  <2>5. CASE Tick
        BY <2>5 DEF Tick
  <2> QED BY <2>1, <2>2, <2>3, <2>4, <2>5 DEF Next
<1> QED BY <1>1, InvHolds, PTL DEF Spec, NetworkMeansNoAnswer

-----------------------------------------------------------------------------
(* Every step is a step of Request, or changes nothing Request shows. *)

LEMMA CallerInit == Init => Caller!Init
BY HttpAssumption DEF Init, Caller!Init, State, Requests

\* A call that ends closes its request and no other.
LEMMA CloseStep ==
  ASSUME Inv, NEW r \in Requests, NEW x \in Results,
         result[r] = "none",
         (r < next /\ next' = next) \/ (r = next /\ next' = next + 1),
         result' = [result EXCEPT ![r] = x],
         UNCHANGED <<path, decision>>,
         \/ x = "network"
         \/ r < next /\ decision[r] # "none" /\ x \in Allowed(path[r], decision[r])
  PROVE  Caller!Close(r, x)
<1>1. State[r] = IF r < next THEN "open" ELSE "unsent"
      BY DEF State, Requests, Inv, TypeOK
<1>2. State' = [State EXCEPT ![r] = "closed"]
  <2>1. State' \in [Requests -> {"unsent", "open", "closed"}]
        /\ State \in [Requests -> {"unsent", "open", "closed"}]
        BY DEF State
  <2>2. State'[r] = "closed"
    <3>1. result'[r] # "none"
          BY DEF Inv, TypeOK, Results
    <3> QED BY <3>1 DEF State
  <2>3. ASSUME NEW q \in Requests, q # r PROVE State'[q] = State[q]
    <3>1. result'[q] = result[q]
          BY <2>3 DEF Inv, TypeOK
    <3>2. q < next' <=> q < next
          BY <2>3 DEF Inv, TypeOK, Requests
    <3> QED BY <3>1, <3>2 DEF State
  <2> QED BY <2>1, <2>2, <2>3
<1> QED BY <1>1, <1>2 DEF Caller!Close

LEMMA CallerNext == Inv /\ [Next]_vars => [Caller!Next]_Caller!vars
<1> SUFFICES ASSUME Inv, [Next]_vars PROVE [Caller!Next]_Caller!vars
    OBVIOUS
<1>1. CASE Post /\ waiting' # 0
  <2>1. next \in Requests /\ next' = next + 1 /\ UNCHANGED <<path, decision, result>>
        BY <1>1 DEF Post, Return, remote
  <2>2. State[next] = "unsent"
        BY <2>1 DEF State, Requests, Inv, OneAtATime, TypeOK
  <2>3. State' = [State EXCEPT ![next] = "open"]
    <3>1. result[next] = "none"
          BY <2>1 DEF Inv, OneAtATime, TypeOK, Requests
    <3>2. State'[next] = "open"
          BY <2>1, <3>1 DEF State, Inv, TypeOK
    <3>3. ASSUME NEW q \in Requests, q # next PROVE State'[q] = State[q]
      <4>1. q < next' <=> q < next
            BY <2>1, <3>3 DEF Inv, TypeOK, Requests
      <4> QED BY <2>1, <4>1 DEF State
    <3> QED BY <2>1, <3>2, <3>3 DEF State
  <2> QED BY <2>1, <2>2, <2>3 DEF Caller!Next, Caller!Open
<1>2. CASE Post /\ waiting' = 0
  <2>1. next \in Requests /\ next' = next + 1 /\ UNCHANGED <<path, decision>>
        /\ result' = [result EXCEPT ![next] = "network"]
        BY <1>2 DEF Post, Return, remote, Requests
  <2>2. result[next] = "none" /\ "network" \in Results
        BY <2>1 DEF Inv, OneAtATime, TypeOK, Requests, Results
  <2>3. Caller!Close(next, "network")
        BY <2>1, <2>2, CloseStep DEF Requests
  <2> QED BY <2>1, <2>2, <2>3 DEF Caller!Next
<1>3. ASSUME NEW r \in Requests, Receive(r) PROVE Caller!Next
  <2> DEFINE m == channel[r]
             x == Outcome(r, m)
  <2>1. m \in Channels /\ result[r] = "none" /\ r < next
        BY <1>3 DEF Receive, Inv, TypeOK, OneAtATime
  <2>2. result' = [result EXCEPT ![r] = x] /\ UNCHANGED <<path, decision, next>>
        BY <1>3 DEF Receive, Return, ChannelOf, remote
  <2>3. CASE m.kind = "answer"
    <3>1. decision[r] # "none" /\ m.status = decision[r]
          BY <2>1, <2>3, BareProps DEF Inv, OwnChannel
    <3>2. x \in Results /\ x \in Allowed(path[r], decision[r])
          BY <2>1, <2>3, <3>1, ChannelProps, DecodeProps DEF Outcome, Inv, TypeOK
    <3>3. Caller!Close(r, x)
          BY <2>1, <2>2, <3>1, <3>2, CloseStep DEF Requests, Inv, TypeOK
    <3> QED BY <3>2, <3>3 DEF Caller!Next
  <2>4. CASE m.kind # "answer"
    <3>1. x = "network" /\ x \in Results
          BY <2>4 DEF Outcome, Results
    <3>2. Caller!Close(r, x)
          BY <2>1, <2>2, <3>1, CloseStep DEF Requests, Inv, TypeOK
    <3> QED BY <3>1, <3>2 DEF Caller!Next
  <2> QED BY <2>3, <2>4
<1>4. ASSUME NEW r \in Requests, Abandon(r) PROVE Caller!Next
  <2>1. result[r] = "none" /\ r < next /\ "network" \in Results
        BY <1>4 DEF Abandon, Inv, TypeOK, OneAtATime, Results
  <2>2. result' = [result EXCEPT ![r] = "network"] /\ UNCHANGED <<path, decision, next>>
        BY <1>4 DEF Abandon, Return, remote
  <2>3. Caller!Close(r, "network")
        BY <2>1, <2>2, CloseStep DEF Requests, Inv, TypeOK
  <2> QED BY <2>1, <2>3 DEF Caller!Next
<1>5. ASSUME NEW r \in Requests, Decide(r) PROVE Caller!Next
  <2>1. PICK s \in Statuses : decision' = [decision EXCEPT ![r] = s]
        BY <1>5 DEF Decide
  <2>2. State' = State /\ State[r] # "unsent" /\ UNCHANGED <<path, result>>
        BY <1>5 DEF Decide, State, Inv, OneAtATime, TypeOK, Requests
  <2>3. Caller!Decide(r, s)
        BY <1>5, <2>1, <2>2 DEF Decide, Caller!Decide
  <2> QED BY <2>3 DEF Caller!Next
<1>6. ASSUME NEW r \in Requests, HelperStep(r) \/ Panic(r) \/ Hang(r)
      PROVE  UNCHANGED Caller!vars
      BY <1>6 DEF HelperStep, Connect, Head, Body, Fail, Panic, Hang, remote,
                  Caller!vars, State
<1>7. CASE Tick \/ UNCHANGED vars
      BY <1>7 DEF Tick, vars, remote, Caller!vars, State
<1> QED BY <1>1, <1>2, <1>3, <1>4, <1>5, <1>6, <1>7 DEF Next

\* What a caller is told is the server's decision on that very request, once;
\* an abandoned helper changes nothing.
THEOREM RequestsServed == Spec => ServesRequests
<1>1. Init => Caller!Init
      BY CallerInit
<1>2. Inv /\ [Next]_vars => [Caller!Next]_Caller!vars
      BY CallerNext
<1> QED BY <1>1, <1>2, InvHolds, PTL DEF Spec, ServesRequests, Caller!Spec
=============================================================================
