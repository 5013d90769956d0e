------------------------------ MODULE HttpCall ------------------------------
(***************************************************************************)
(* Http::post and Sdk::call of src/src/http.rs: a caller's requests, each  *)
(* run on a helper thread that answers over a channel of its own and is    *)
(* abandoned a while after the client's own time limit.                    *)
(*                                                                         *)
(* A request has a number.  A body is abstracted to whether it was read    *)
(* and can be decoded; an answer to its class of status.  The server and   *)
(* the network are external.  A helper is "hung" in something no limit of  *)
(* the client ends, such as a host name lookup that never returns.         *)
(***************************************************************************)
EXTENDS Integers

CONSTANTS
  MaxRequests,    \* bound: requests the caller makes, one after the other
  MaxTime,        \* bound: the clock's last value
  Timeout,        \* Http.timeout, the client's limit on a whole request
  AbandonAfter    \* ABANDON_AFTER

ASSUME HttpAssumption ==
  /\ MaxRequests \in Nat /\ MaxTime \in Nat
  /\ Timeout \in Nat /\ AbandonAfter \in Nat \ {0}

Requests == 1 .. MaxRequests
Paths == {"token", "deactivate", "other"}   \* activate and renew get a token
Statuses == {"2xx", "401", "403", "404", "409", "else"}
Bodies == {"sound", "empty", "garbled", "cut"}   \* empty: a token or chain of ""
Results == {"ok", "not_found", "expired", "blocked", "seat_limit",
            "wrong_project", "server", "network"}

\* A channel holds nothing, an answer or the client's error, or its sender is
\* gone.
Bare(k) == [kind |-> k, status |-> "none", body |-> "none"]
Answer(s, b) == [kind |-> "answer", status |-> s, body |-> b]
Channels == {Bare("empty"), Bare("closed"), Bare("error")}
              \cup {Answer(s, b) : s \in Statuses, b \in Bodies}

VARIABLES
  now,        \* the monotonic clock
  path,       \* where each request goes
  next,       \* the request to make next
  waiting,    \* the request the caller waits for, or 0
  started,    \* when each request was made
  helper,     \* where each request's helper thread is
  channel,    \* what each request's channel holds
  left,       \* the requests that left the machine
  decision,   \* what the server decided on each request
  result      \* what each call returned

vars == <<now, path, next, waiting, started, helper, channel, left,
          decision, result>>
remote == <<left, decision>>

Init ==
  /\ now = 0 /\ next = 1 /\ waiting = 0
  /\ path \in [Requests -> Paths]
  /\ started = [r \in Requests |-> 0]
  /\ helper = [r \in Requests |-> "none"]
  /\ channel = [r \in Requests |-> Bare("empty")]
  /\ left = {} /\ decision = [r \in Requests |-> "none"]
  /\ result = [r \in Requests |-> "none"]

\* Within reach of the client's limit on the whole request.
Limited(r) == helper[r] \in {"connecting", "sent", "reading"}

-----------------------------------------------------------------------------
(* The caller.  Definitions named Faulty... are bugs the code could have had *)
(* (README.md).                                                              *)

FaultyChannelOf(r) == 1

\* mpsc::channel() is called once per request.
ChannelOf(r) == r

\* Sdk::post refuses a token or a chain that is empty.
Decodes(p, body) == body = "sound" \/ (body = "empty" /\ p # "token")

FaultyDecode(p, status, body) ==
  IF body = "cut" THEN "network"
  ELSE CASE status = "2xx" -> IF Decodes(p, body) THEN "ok" ELSE "server"
         [] status = "404" -> "not_found"
         [] status = "403" -> "expired"
         [] status = "409" -> IF p = "deactivate" THEN "blocked" ELSE "seat_limit"
         [] status = "401" -> "wrong_project"
         [] OTHER -> "server"

\* Sdk::call and Sdk::post on an answer: only a 2xx needs its body.
Decode(p, status, body) ==
  CASE status = "2xx" -> IF Decodes(p, body) THEN "ok" ELSE "server"
    [] status = "404" -> "not_found"
    [] status = "403" -> "expired"
    [] status = "409" -> IF p = "deactivate" THEN "blocked" ELSE "seat_limit"
    [] status = "401" -> "wrong_project"
    [] OTHER -> "server"

FaultyOutcome(r, m) ==
  CASE m.kind = "answer" -> Decode(path[r], m.status, m.body)
    [] m.kind = "error" -> "server"
    [] OTHER -> "network"

Outcome(r, m) ==
  IF m.kind = "answer" THEN Decode(path[r], m.status, m.body) ELSE "network"

Holds(r) == channel[ChannelOf(r)].kind

Deadline(r) == started[r] + Timeout + AbandonAfter

FaultyGivesUp(r) == FALSE

\* recv_timeout(timeout + ABANDON_AFTER) ran out.
GivesUp(r) == Holds(r) = "empty" /\ now >= Deadline(r)

\* The receiver goes away with the call.
Return(r, x) ==
  /\ result' = [result EXCEPT ![r] = x]
  /\ waiting' = 0
  /\ channel' = [channel EXCEPT ![ChannelOf(r)] = Bare("empty")]

\* The helper is spawned, or cannot be: then nothing is sent.
Post ==
  /\ waiting = 0 /\ next \in Requests
  /\ now + Timeout + AbandonAfter <= MaxTime
  /\ next' = next + 1
  /\ started' = [started EXCEPT ![next] = now]
  /\ \/ /\ waiting' = next
        /\ helper' = [helper EXCEPT ![next] = "connecting"]
        /\ UNCHANGED <<channel, result>>
     \/ Return(next, "network") /\ UNCHANGED helper
  /\ UNCHANGED <<now, path, remote>>

Receive(r) ==
  /\ waiting = r /\ Holds(r) # "empty"
  /\ Return(r, Outcome(r, channel[ChannelOf(r)]))
  /\ UNCHANGED <<now, path, next, started, helper, remote>>

Abandon(r) ==
  /\ waiting = r /\ GivesUp(r)
  /\ Return(r, "network")
  /\ UNCHANGED <<now, path, next, started, helper, remote>>

-----------------------------------------------------------------------------
(* The helper thread.  A message to a caller that is gone is dropped.        *)

Send(r, m) ==
  /\ helper' = [helper EXCEPT ![r] = "ended"]
  /\ channel' = IF waiting # 0 /\ ChannelOf(waiting) = ChannelOf(r)
                THEN [channel EXCEPT ![ChannelOf(r)] = m] ELSE channel

\* The request leaves the machine, unless its time is over.
Connect(r) ==
  /\ helper[r] = "connecting" /\ now <= started[r] + Timeout
  /\ helper' = [helper EXCEPT ![r] = "sent"]
  /\ left' = left \cup {r}
  /\ UNCHANGED <<now, path, next, waiting, started, channel, decision, result>>

FaultyHead(r) ==
  /\ helper[r] = "sent"
  /\ helper' = [helper EXCEPT ![r] = "reading"]
  /\ UNCHANGED <<now, path, next, waiting, started, channel, remote, result>>

Head(r) ==
  /\ helper[r] = "sent" /\ decision[r] # "none"
  /\ helper' = [helper EXCEPT ![r] = "reading"]
  /\ UNCHANGED <<now, path, next, waiting, started, channel, remote, result>>

\* The body is read, or cut short: the status counts either way.
Body(r) ==
  /\ helper[r] = "reading"
  /\ \E b \in Bodies : Send(r, Answer(decision[r], b))
  /\ UNCHANGED <<now, path, next, waiting, started, remote, result>>

\* No answer: refused, reset, or one of the client's limits ran out; a hang may
\* end in an error too, at any time.
Fail(r) ==
  /\ helper[r] \in {"connecting", "sent", "hung"}
  /\ Send(r, Bare("error"))
  /\ UNCHANGED <<now, path, next, waiting, started, remote, result>>

\* A panic drops the sender.
Panic(r) ==
  /\ Limited(r) \/ helper[r] = "hung"
  /\ Send(r, Bare("closed"))
  /\ UNCHANGED <<now, path, next, waiting, started, remote, result>>

HelperStep(r) == Connect(r) \/ Head(r) \/ Body(r) \/ Fail(r)

-----------------------------------------------------------------------------
(* The environment *)

Hang(r) ==
  /\ helper[r] = "connecting"
  /\ helper' = [helper EXCEPT ![r] = "hung"]
  /\ UNCHANGED <<now, path, next, waiting, started, channel, remote, result>>

\* A request that left is decided at most once, even if nobody waits for it.
Decide(r) ==
  /\ r \in left /\ decision[r] = "none"
  /\ \E s \in Statuses : decision' = [decision EXCEPT ![r] = s]
  /\ UNCHANGED <<now, path, next, waiting, started, helper, channel, left, result>>

\* What the client's limit covers ends by it, and a caller whose wait is over
\* runs before the clock does.
Tick ==
  /\ now < MaxTime
  /\ \A r \in Requests : Limited(r) => now < started[r] + Timeout
  /\ \A r \in Requests : waiting = r => Holds(r) = "empty" /\ ~GivesUp(r)
  /\ now' = now + 1
  /\ UNCHANGED <<path, next, waiting, started, helper, channel, remote, result>>

Next ==
  \/ Post \/ Tick
  \/ \E r \in Requests :
       Receive(r) \/ Abandon(r) \/ HelperStep(r) \/ Panic(r) \/ Hang(r) \/ Decide(r)

Spec == Init /\ [][Next]_vars

\* The caller runs and time passes; a helper that does not hang gets on.
FairSpec ==
  /\ Spec
  /\ WF_vars(Tick)
  /\ \A r \in Requests : WF_vars(Receive(r) \/ Abandon(r))
  /\ \A r \in Requests : WF_vars(Limited(r) /\ HelperStep(r))

-----------------------------------------------------------------------------
(* Properties *)

TypeOK ==
  /\ now \in 0 .. MaxTime
  /\ path \in [Requests -> Paths]
  /\ next \in 1 .. MaxRequests + 1
  /\ waiting \in {0} \cup 1 .. next - 1
  /\ started \in [Requests -> 0 .. MaxTime]
  /\ helper \in [Requests -> {"none", "connecting", "hung", "sent",
                              "reading", "ended"}]
  /\ channel \in [Requests -> Channels]
  /\ left \subseteq Requests
  /\ decision \in [Requests -> Statuses \cup {"none"}]
  /\ result \in [Requests -> Results \cup {"none"}]

\* "A call returns LatteError::Network by then even when something no client
\* timeout covers hangs": no caller waits past timeout + ABANDON_AFTER.
ReturnsInTime == waiting # 0 => now <= Deadline(waiting)

\* Network means that no response came: once the status of an answer has
\* reached the helper the call reports that status, however the body ends,
\* unless the helper itself dies.  A rejection with a broken body still counts
\* as one, and does not look like being offline.
NetworkMeansNoAnswer ==
  [][\A r \in Requests : result[r] # "network" /\ result'[r] = "network"
       => helper[r] # "reading" /\ channel[r].kind # "answer"]_vars

\* Every call returns although its helper may hang for ever.
EveryCallReturns == \A r \in Requests : waiting = r ~> waiting # r

\* What the caller is told is the server's decision on that very request, once,
\* and an abandoned helper changes nothing.
Allowed(p, s) ==
  CASE s = "2xx" -> {"ok", "server"}
    [] s = "404" -> {"not_found"}
    [] s = "403" -> {"expired"}
    [] s = "409" -> {IF p = "deactivate" THEN "blocked" ELSE "seat_limit"}
    [] s = "401" -> {"wrong_project"}
    [] OTHER -> {"server"}

State == [r \in Requests |-> CASE result[r] # "none" -> "closed"
                               [] result[r] = "none" /\ r < next -> "open"
                               [] OTHER -> "unsent"]
Caller == INSTANCE Request WITH state <- State
ServesRequests == Caller!Spec
=============================================================================
