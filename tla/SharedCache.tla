---------------------------- MODULE SharedCache ----------------------------
(***************************************************************************)
(* Several processes of one machine with one cache file (src/src/http.rs). *)
(* Each has its own `Sdk` handle, so its own renewal mutex: nothing but    *)
(* the file system and the server stands between them.  In each runs a     *)
(* host thread, calling one method after the other for as long as the      *)
(* program lives, and at most one background renewal that still counts.    *)
(*                                                                         *)
(* There is one activation, and a token of it is told by its age alone:    *)
(* RENEW_AFTER divides "young" from "due".  What last_attempt and in_flight *)
(* forbid together is one mark, which RENEW_RETRY, or twice that, takes    *)
(* away.  A renewal taken over gives its place up to its successor: its    *)
(* outcome is dropped whatever it is.  Sdk.tla has the threads of one      *)
(* process in detail; the server and the network are external.             *)
(***************************************************************************)
EXTENDS Integers

CONSTANTS
  Procs,        \* the processes, all of which check
  Users,        \* those whose host also activates, renews and deactivates
  MaxMishaps    \* bound: processes that die, threads that panic or cannot be
                \* spawned, writes that fail, and times the clock is set back

ASSUME SharedAssumption ==
  /\ Users \subseteq Procs
  /\ MaxMishaps \in Nat

VARIABLES
  cache,     \* the file: "none", or a "young" or "due" token
  seat,      \* the server's record: "held", "free" or "revoked"
  late,      \* what was given up on and may still reach the server
  host,      \* where each host thread is
  renewal,   \* where each background renewal is
  mark,      \* each process's last attempt: "never", "recent" or "past"
  lapsed,    \* history: requests since whose start the seat was once not held
  mishaps

state == <<cache, seat, late, host, renewal, mark, mishaps>>
vars == <<state, lapsed>>

Posting == {"activate", "renew", "deactivate"}

Init ==
  /\ cache \in {"none", "young", "due"} /\ seat \in {"held", "free"}
  /\ cache # "none" => seat = "held"
  /\ late = {}
  /\ host = [p \in Procs |-> "idle"]
  /\ renewal = [p \in Procs |-> "none"]
  /\ mark = [p \in Procs |-> "never"]
  /\ lapsed = {} /\ mishaps = 0

\* renew_and_store holds the mutex from its holds test to its write.
Locked(p) == renewal[p] \in {"save", "clear"}

Goto(p, l) == host' = [host EXCEPT ![p] = l]

Mishap == mishaps < MaxMishaps /\ mishaps' = mishaps + 1

-----------------------------------------------------------------------------
(* The host thread.  Definitions named Faulty... are bugs the code could     *)
(* have had (README.md).                                                     *)

\* check finds nothing to renew, or goes on to renew_in_background.
Check(p) ==
  /\ host[p] = "idle" /\ cache = "due"
  /\ Goto(p, "due")
  /\ UNCHANGED <<cache, seat, late, renewal, mark, mishaps>>

FaultyMarked(p) == mark[p] # "never"

\* An attempt is running or was made a moment ago.
Marked(p) == mark[p] = "recent"

Skip(p) ==
  /\ host[p] = "due"
  /\ Locked(p) \/ Marked(p)
  /\ Goto(p, "idle")
  /\ UNCHANGED <<cache, seat, late, renewal, mark, mishaps>>

\* The renewal starts, over a stuck one if need be, or cannot be spawned.
Start(p) ==
  /\ host[p] = "due" /\ ~Locked(p) /\ ~Marked(p)
  /\ Goto(p, "idle")
  /\ mark' = [mark EXCEPT ![p] = "recent"]
  /\ \/ renewal' = [renewal EXCEPT ![p] = "posting"] /\ UNCHANGED mishaps
     \/ renewal' = [renewal EXCEPT ![p] = "none"] /\ Mishap
  /\ UNCHANGED <<cache, seat, late>>

\* activate misses its fast path; renew stamps last_attempt first.
Begin(p, op) ==
  /\ p \in Users /\ host[p] = "idle"
  /\ op = "renew" => ~Locked(p)
  /\ Goto(p, op)
  /\ mark' = IF op = "renew" THEN [mark EXCEPT ![p] = "recent"] ELSE mark
  /\ UNCHANGED <<cache, seat, late, renewal, mishaps>>

\* post_and_handle_invalidation, save_to_cache, and deactivate's clear_cache.
FaultyThen(op, answer) ==
  CASE op = "deactivate" /\ answer = "rejected" -> "idle"
    [] answer = "granted" /\ op # "deactivate" -> "save"
    [] OTHER -> "clear"

Then(op, answer) ==
  IF op = "deactivate" THEN IF answer = "granted" THEN "clear" ELSE "idle"
  ELSE CASE answer = "granted" -> "save"
         [] answer = "rejected" -> "clear"
         [] OTHER -> "idle"

\* The write a thread is at, under its process's own mutex; it may fail.
HostWrite(p) ==
  /\ host[p] \in {"save", "clear"} /\ ~Locked(p)
  /\ cache' = IF host[p] = "save" THEN "young" ELSE "none"
  /\ Goto(p, "idle")
  /\ UNCHANGED <<seat, late, renewal, mark, mishaps>>

HostWriteFails(p) ==
  /\ host[p] \in {"save", "clear"} /\ ~Locked(p)
  /\ Goto(p, "idle") /\ Mishap
  /\ UNCHANGED <<cache, seat, late, renewal, mark>>

-----------------------------------------------------------------------------
(* The background renewal: renew_and_store *)

FaultyOutcome(answer) == IF answer = "granted" THEN "save" ELSE "none"

Outcome(answer) == IF answer = "granted" THEN "save" ELSE "clear"

\* With the mutex, it finds whether the file still holds the activation.
Record(p) ==
  /\ renewal[p] \in {"granted", "rejected"}
  /\ renewal' = [renewal EXCEPT ![p] =
       IF cache = "none" THEN "none" ELSE Outcome(renewal[p])]
  /\ UNCHANGED <<cache, seat, late, host, mark, mishaps>>

Write(p) ==
  /\ renewal[p] \in {"save", "clear"}
  /\ cache' = IF renewal[p] = "save" THEN "young" ELSE "none"
  /\ renewal' = [renewal EXCEPT ![p] = "none"]
  /\ UNCHANGED <<seat, late, host, mark, mishaps>>

\* The write fails, or the thread panics: at its write, or before.
Dropped(p) ==
  /\ renewal[p] # "none" /\ Mishap
  /\ renewal' = [renewal EXCEPT ![p] = "none"]
  /\ UNCHANGED <<cache, seat, late, host, mark>>

-----------------------------------------------------------------------------
(* The server and the network *)

SeatAfter(op) == IF op = "activate" THEN "held"
                 ELSE IF op = "deactivate" /\ seat = "held" THEN "free" ELSE seat

Grants(op) == CASE op = "activate" -> seat # "revoked"
                [] op = "deactivate" -> TRUE
                [] OTHER -> seat = "held"

Take(op) == seat' = IF Grants(op) THEN SeatAfter(op) ELSE seat

FaultyDecision(op) == IF Grants(op) THEN "granted" ELSE "failed"

Decision(op) == IF Grants(op) THEN "granted" ELSE "rejected"

AnswerHost(p) ==
  /\ host[p] \in Posting
  /\ Take(host[p])
  /\ Goto(p, Then(host[p], Decision(host[p])))
  /\ UNCHANGED <<cache, late, renewal, mark, mishaps>>

\* The request took effect but the answer is lost or of no use, or the request
\* did not arrive, for now.
FailHost(p) ==
  /\ host[p] \in Posting
  /\ Goto(p, Then(host[p], "failed"))
  /\ \/ Take(host[p]) /\ UNCHANGED late
     \/ /\ late' \in {late, late \cup ({host[p]} \ {"renew"})}
        /\ UNCHANGED seat
  /\ UNCHANGED <<cache, renewal, mark, mishaps>>

AnswerRenewal(p) ==
  /\ renewal[p] = "posting"
  /\ renewal' = [renewal EXCEPT ![p] = Decision("renew")]
  /\ UNCHANGED <<cache, seat, late, host, mark, mishaps>>

\* A failure is only recorded in the process's memory.
FailRenewal(p) ==
  /\ renewal[p] = "posting"
  /\ renewal' = [renewal EXCEPT ![p] = "none"]
  /\ UNCHANGED <<cache, seat, late, host, mark, mishaps>>

Arrive ==
  /\ \E op \in late : Take(op) /\ late' = late \ {op}
  /\ UNCHANGED <<cache, host, renewal, mark, mishaps>>

\* The seller's portal, and the end of the licence.
Release ==
  /\ seat = "held"
  /\ seat' \in {"free", "revoked"}
  /\ UNCHANGED <<cache, late, host, renewal, mark, mishaps>>

-----------------------------------------------------------------------------
(* Time and crashes *)

Age ==
  /\ cache = "young"
  /\ cache' = "due"
  /\ UNCHANGED <<seat, late, host, renewal, mark, mishaps>>

Elapse(p) ==
  /\ mark[p] = "recent"
  /\ mark' = [mark EXCEPT ![p] = "past"]
  /\ UNCHANGED <<cache, seat, late, host, renewal, mishaps>>

\* The clock is set back: every token and every attempt looks new again.
StepBack ==
  /\ Mishap
  /\ cache' = IF cache = "due" THEN "young" ELSE cache
  /\ mark' = [p \in Procs |-> IF mark[p] = "never" THEN "never" ELSE "recent"]
  /\ UNCHANGED <<seat, late, host, renewal>>

\* A process dies at any point, its request perhaps on its way, and another is
\* started.
Crash(p) ==
  /\ Mishap
  /\ late' \in {late, late \cup ({host[p]} \cap {"activate", "deactivate"})}
  /\ host' = [host EXCEPT ![p] = "idle"]
  /\ renewal' = [renewal EXCEPT ![p] = "none"]
  /\ mark' = [mark EXCEPT ![p] = "never"]
  /\ UNCHANGED <<cache, seat>>

-----------------------------------------------------------------------------
HostStep(p) ==
  Skip(p) \/ Start(p) \/ AnswerHost(p) \/ FailHost(p) \/ HostWrite(p) \/ HostWriteFails(p)

\* The requests under way; a renewal stands for those it took over as well.
Requests == {<<p, "host">> : p \in {q \in Procs : host[q] \notin {"idle", "due"}}}
              \cup {<<p, "renewal">> : p \in {q \in Procs : renewal[q] # "none"}}

Remember ==
  lapsed' = IF seat' = "held" THEN lapsed \cap Requests' ELSE Requests'

Step ==
  \/ \E p \in Procs :
       \/ Check(p) \/ HostStep(p)
       \/ \E op \in Posting : Begin(p, op)
       \/ AnswerRenewal(p) \/ FailRenewal(p)
       \/ Record(p) \/ Write(p) \/ Dropped(p)
       \/ Elapse(p) \/ Crash(p)
  \/ Arrive \/ Release \/ Age \/ StepBack

Next == Step /\ Remember

Spec == Init /\ [][Next]_vars

\* Threads run and time passes, and a host that is in no other call checks.  The
\* server may fail a renewal any number of times, but not every time, and a
\* renewal is not overtaken for ever between its answer and the mutex.
FairSpec ==
  /\ Spec /\ WF_state(Age)
  /\ \A p \in Procs :
       /\ WF_state(Elapse(p)) /\ WF_state(Check(p)) /\ WF_state(HostStep(p))
       /\ WF_state(Write(p))
  /\ SF_state(\E p \in Procs : AnswerRenewal(p))
  /\ SF_state(\E p \in Procs : Record(p))

-----------------------------------------------------------------------------
(* Properties *)

TypeOK ==
  /\ cache \in {"none", "young", "due"} /\ seat \in {"held", "free", "revoked"}
  /\ late \subseteq {"activate", "deactivate"}
  /\ host \in [Procs -> {"idle", "due", "save", "clear"} \cup Posting]
  /\ renewal \in [Procs -> {"none", "posting", "granted", "rejected", "save",
                             "clear"}]
  /\ mark \in [Procs -> {"never", "recent", "past"}]
  /\ lapsed \subseteq Procs \X {"host", "renewal"}
  /\ mishaps \in 0 .. MaxMishaps

\* A token leaves the file only for what the server said of it: in a call during
\* which the seat was, at some moment, not held.  A server that cannot be
\* reached, or fails, costs no process the token of another.
LostForCause ==
  [][cache # "none" /\ cache' = "none" =>
       \E p \in Procs :
         \/ host[p] = "clear" /\ host'[p] = "idle" /\ <<p, "host">> \in lapsed
         \/ renewal[p] = "clear" /\ renewal'[p] = "none"
            /\ <<p, "renewal">> \in lapsed]_vars

\* Once the seat is gone for good the file ends up empty for good, although a
\* renewal of one process may write a token another has just deleted, a process
\* may die between the server's answer and its delete, or never see the answer.
Forgotten == <>[](seat # "held") => <>[](cache = "none")

\* While the seat is held, no token stays due for renewal for ever.
KeepsFresh == <>[](seat = "held") => []<>(cache # "due")
=============================================================================
