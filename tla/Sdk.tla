-------------------------------- MODULE Sdk --------------------------------
(***************************************************************************)
(* One process's `Sdk` handle and its clones (src/src/http.rs): the host   *)
(* threads that call it, the detached background renewals `check` starts,  *)
(* the renewal mutex, the unlocked renewal_failed flag and the cache file. *)
(*                                                                         *)
(* A thread is a caller or a background renewal; renewal number n is the   *)
(* thread n.  An action is one stretch of code between two points where    *)
(* another thread can be noticed: a clock read, a file read, a lock, the   *)
(* network.  What runs under the mutex and touches nothing that is read    *)
(* without it is one action; a flag store followed by a file write is two. *)
(*                                                                         *)
(* The server and the network are external.  A reply may be lost before or *)
(* after the request took effect, and a request the SDK gave up on may     *)
(* still arrive later (`late`).  Licence key and activation id name the    *)
(* same thing here, an element of Aids.                                    *)
(***************************************************************************)
EXTENDS Integers

CONSTANTS
  Callers,      \* host threads that share the handle
  Aids,         \* activations the server knows
  NoAid,        \* the argument of a call that has none
  NoToken,      \* the cache file is missing or unreadable
  Free,         \* the renewal mutex is not held
  Ops,          \* the methods the host calls
  Seals,        \* kinds of token in a fresh cache and in answers
  Expiries,     \* licence ends the server may sign
  Grace,        \* the offline tolerance it signs
  RenewAfter,   \* RENEW_AFTER, and validate.rs's MAX_RENEWAL_TIME
  RenewRetry,   \* RENEW_RETRY
  MaxAge,       \* validate.rs's MAX_AGE
  ChainEnd,     \* when the certificates above every token run out
  DiskFaults,   \* whether a save or a clear of the file may fail
  StartTime, MaxTime,   \* bounds: the clock's first and last value
  MaxCalls,             \* bound: calls the host makes
  MaxAttempts,          \* bound: background renewals of one process
  MaxCrashes            \* bound: restarts of the process

AllOps == {"check", "activate", "renew", "deactivate", "machines"}
AllSeals == {"good", "foreign", "bad"}  \* foreign: issued to another machine
Attempts == 1 .. MaxAttempts
Threads == Callers \cup Attempts
Never == -1
NoCall == [op |-> "none", aid |-> NoAid]

Tokens == [aid : Aids, iat : Nat, exp : Nat, seal : AllSeals]
CallRecords == [op : AllOps \cup {"none"}, aid : Aids \cup {NoAid}]

ASSUME ConstantsAssumption ==
  /\ Ops \subseteq AllOps /\ Seals \subseteq AllSeals
  /\ Expiries \subseteq Nat /\ Grace \in Nat
  /\ RenewAfter \in Nat /\ RenewRetry \in Nat
  /\ MaxAge \in Nat /\ ChainEnd \in Nat
  /\ DiskFaults \in BOOLEAN
  /\ StartTime \in Nat /\ MaxTime \in Nat
  /\ MaxCalls \in Nat /\ MaxAttempts \in Nat /\ MaxCrashes \in Nat

ASSUME NamesAssumption ==
  /\ Callers \cap Attempts = {}
  /\ Free \notin Threads
  /\ NoToken \notin Tokens

V == INSTANCE Validate WITH MaxRenewalTime <- RenewAfter

VARIABLES
  clock,          \* the system clock
  cache,          \* the token in the cache file, or NoToken
  renewalFailed,  \* Sdk.renewal_failed
  lock,           \* who holds the Sdk.renewal mutex
  attempt, inFlight, lastAttempt,    \* Renewal's three fields
  pc, call,       \* where each thread is, and in which call
  tok,            \* the token it has loaded or received
  seen,           \* the clock value it last kept
  outcome,        \* what its call has come to, and then returned
  seat,           \* the server's record of each activation
  late,           \* requests given up on that may still arrive
  calls, crashes,
  gone            \* history: activations dropped since the last activate began

mutex == <<lock, attempt, inFlight, lastAttempt>>
thread == <<pc, call, tok, seen, outcome>>
server == <<seat, late>>
bounds == <<calls, crashes>>
vars == <<clock, cache, renewalFailed, mutex, thread, server, bounds, gone>>

-----------------------------------------------------------------------------
(* Tokens *)

LicenceOf(t) ==
  [machine |-> IF t.seal = "foreign" THEN "other" ELSE "this",
   issued |-> t.iat, expires |-> t.exp, grace |-> Grace]

Verifies(t, now) == t.seal # "bad" /\ now <= ChainEnd

Verdict(t, now) == V!ValidateAt(LicenceOf(t), "this", now)

FaultyUsable(t, now) == Verifies(t, now)

\* verify_and_validate, and what cached_license accepts.
Usable(t, now) == Verifies(t, now) /\ Verdict(t, now) = "Ok"

\* Valid, and old enough for in_grace_period once a renewal has failed.
Ageing(t, now) == V!InGracePeriod(LicenceOf(t), now, TRUE)

FaultyHoldsActivation(a) == TRUE

HoldsActivation(a) ==
  cache # NoToken /\ Verifies(cache, clock) /\ cache.aid = a

Since(now, then) == IF now >= then THEN now - then ELSE 0

-----------------------------------------------------------------------------
(* Control of a thread.  A definition named Faulty... is not part of the     *)
(* model: it is a bug the code could have had, and what it replaces comes    *)
(* right after it; README.md lists which property each one breaks.           *)

Goto(t, l) == pc' = [pc EXCEPT ![t] = l]

Return(t, result) ==
  /\ pc' = [pc EXCEPT ![t] = "idle"]
  /\ call' = [call EXCEPT ![t] = NoCall]
  /\ tok' = [tok EXCEPT ![t] = NoToken]
  /\ seen' = [seen EXCEPT ![t] = 0]
  /\ outcome' = [outcome EXCEPT ![t] = result]

\* What every thread is before its first step, and again after a crash.
All(x) == [t \in Threads |-> x]

\* A process starts with whatever an earlier one left in the file.
Init ==
  /\ clock = StartTime
  /\ cache \in {NoToken} \cup
       [aid : Aids, iat : 1 .. StartTime, exp : Expiries, seal : Seals]
  /\ renewalFailed = FALSE
  /\ lock = Free /\ attempt = 0 /\ inFlight = Never /\ lastAttempt = Never
  /\ pc = All("idle") /\ call = All(NoCall) /\ tok = All(NoToken)
  /\ seen = All(0) /\ outcome = All("none")
  /\ seat \in [Aids -> {"free", "held"}]
  /\ cache # NoToken => seat[cache.aid] = "held"
  /\ late = {} /\ calls = 0 /\ crashes = 0 /\ gone = {}

Arguments(op) == IF op = "check" THEN {NoAid} ELSE Aids

Entry(op) == CASE op \in {"check", "activate"} -> "load"
               [] op = "renew" -> "clock"
               [] OTHER -> "post"

\* The host calls a method; a new activate ends what a drop promised.
Begin(c, op, a) ==
  /\ pc[c] = "idle" /\ calls < MaxCalls
  /\ calls' = calls + 1
  /\ Goto(c, Entry(op))
  /\ call' = [call EXCEPT ![c] = [op |-> op, aid |-> a]]
  /\ outcome' = [outcome EXCEPT ![c] = "none"]
  /\ gone' = IF op = "activate" THEN {} ELSE gone
  /\ UNCHANGED <<clock, cache, renewalFailed, mutex, tok, seen, server, crashes>>

-----------------------------------------------------------------------------
(* check, and the fast path of activate *)

Load(c) ==
  /\ pc[c] = "load"
  /\ IF cache = NoToken /\ call[c].op = "check"
     THEN Return(c, "not_activated")
     ELSE /\ tok' = [tok EXCEPT ![c] = cache]
          /\ Goto(c, IF cache = NoToken THEN "post"
                     ELSE IF call[c].op = "check" THEN "verdict" ELSE "fast")
          /\ UNCHANGED <<call, seen, outcome>>
  /\ UNCHANGED <<clock, cache, renewalFailed, mutex, server, bounds, gone>>

\* cached_license: any cached licence but a usable one for this key misses.
Fast(c) ==
  /\ pc[c] = "fast"
  /\ IF Usable(tok[c], clock) /\ tok[c].aid = call[c].aid
     THEN Return(c, IF renewalFailed /\ Ageing(tok[c], clock)
                    THEN "in_grace" ELSE "ok")
     ELSE /\ tok' = [tok EXCEPT ![c] = NoToken]
          /\ Goto(c, "post")
          /\ UNCHANGED <<call, seen, outcome>>
  /\ UNCHANGED <<clock, cache, renewalFailed, mutex, server, bounds, gone>>

\* The verdict; a token of this machine goes on to the renewal whatever it is.
CheckVerdict(c) ==
  /\ pc[c] = "verdict"
  /\ IF ~Verifies(tok[c], clock) \/ LicenceOf(tok[c]).machine # "this"
     THEN Return(c, "not_activated")
     ELSE /\ outcome' = [outcome EXCEPT ![c] =
               CASE Verdict(tok[c], clock) = "Ok" ->
                      IF Ageing(tok[c], clock) THEN "ageing" ELSE "ok"
                 [] Verdict(tok[c], clock) = "HardExpired" -> "expired"
                 [] OTHER -> "not_activated"]
          /\ Goto(c, "due")
          /\ UNCHANGED <<call, tok, seen>>
  /\ UNCHANGED <<clock, cache, renewalFailed, mutex, server, bounds, gone>>

\* renew_in_background reads the clock a second time, before the mutex.
CheckDue(c) ==
  /\ pc[c] = "due"
  /\ seen' = [seen EXCEPT ![c] = clock]
  /\ Goto(c, IF Since(clock, tok[c].iat) < RenewAfter THEN "flag" ELSE "try")
  /\ UNCHANGED <<clock, cache, renewalFailed, mutex, call, tok, outcome, server,
                 bounds, gone>>

FaultyRunning(now) == inFlight # Never /\ Since(now, inFlight) <= RenewRetry

Running(now) == inFlight # Never /\ Since(now, inFlight) <= 2 * RenewRetry

FaultyRetriedRecently(now) == Running(now)

RetriedRecently(now) ==
  lastAttempt # Never /\ Since(now, lastAttempt) < RenewRetry

FaultyCheckSkip(c) ==
  /\ pc[c] = "try" /\ lock = Free
  /\ Running(seen[c]) \/ RetriedRecently(seen[c])
  /\ Goto(c, "flag")
  /\ UNCHANGED <<clock, cache, renewalFailed, mutex, call, tok, seen, outcome,
                 server, bounds, gone>>

\* try_lock would block, or the renewal is not due.
CheckSkip(c) ==
  /\ pc[c] = "try"
  /\ lock # Free \/ Running(seen[c]) \/ RetriedRecently(seen[c])
  /\ Goto(c, "flag")
  /\ UNCHANGED <<clock, cache, renewalFailed, mutex, call, tok, seen, outcome,
                 server, bounds, gone>>

\* The renewal starts, or its thread cannot be spawned.
CheckStart(c) ==
  LET n == attempt + 1 IN
  /\ pc[c] = "try"
  /\ lock = Free /\ ~Running(seen[c]) /\ ~RetriedRecently(seen[c])
  /\ attempt < MaxAttempts
  /\ attempt' = n /\ lastAttempt' = seen[c]
  /\ seen' = [seen EXCEPT ![n] = seen[c]]
  /\ \/ /\ inFlight' = seen[c]
        /\ pc' = [pc EXCEPT ![c] = "flag", ![n] = "post"]
        /\ call' = [call EXCEPT ![n] = [op |-> "renew", aid |-> tok[c].aid]]
     \/ /\ inFlight' = Never
        /\ Goto(c, "flag")
        /\ UNCHANGED call
  /\ UNCHANGED <<clock, cache, renewalFailed, lock, tok, outcome, server,
                 bounds, gone>>

FaultyCheckFlag(c) ==
  /\ pc[c] = "flag"
  /\ Return(c, IF renewalFailed THEN "in_grace" ELSE outcome[c])
  /\ UNCHANGED <<clock, cache, renewalFailed, mutex, server, bounds, gone>>

CheckFlag(c) ==
  /\ pc[c] = "flag"
  /\ Return(c, IF outcome[c] # "ageing" THEN outcome[c]
               ELSE IF renewalFailed THEN "in_grace" ELSE "ok")
  /\ UNCHANGED <<clock, cache, renewalFailed, mutex, server, bounds, gone>>

-----------------------------------------------------------------------------
(* renew stamps last_attempt: the clock is read before the mutex is taken. *)

RenewClock(c) ==
  /\ pc[c] = "clock"
  /\ seen' = [seen EXCEPT ![c] = clock]
  /\ Goto(c, "stamp")
  /\ UNCHANGED <<clock, cache, renewalFailed, mutex, call, tok, outcome, server,
                 bounds, gone>>

RenewStamp(c) ==
  /\ pc[c] = "stamp" /\ lock = Free
  /\ lastAttempt' = seen[c]
  /\ Goto(c, "post")
  /\ UNCHANGED <<clock, cache, renewalFailed, lock, attempt, inFlight, call, tok,
                 seen, outcome, server, bounds, gone>>

-----------------------------------------------------------------------------
(* The server and the network *)

Grants(r) == CASE r.op = "activate" -> seat[r.aid] # "revoked"
               [] r.op = "deactivate" -> TRUE
               [] OTHER -> seat[r.aid] = "held"

SeatAfter(r) == CASE r.op = "activate" -> "held"
                  [] r.op = "deactivate" /\ seat[r.aid] = "held" -> "free"
                  [] OTHER -> seat[r.aid]

ChangesSeat(r) == r.op \in {"activate", "deactivate"}

Take(r) == seat' = IF Grants(r) THEN [seat EXCEPT ![r.aid] = SeatAfter(r)] ELSE seat

\* A 2xx the SDK can decode; the token may still fail its checks.
AnswerOk(t) ==
  /\ Grants(call[t]) /\ Take(call[t])
  /\ outcome' = [outcome EXCEPT ![t] = "ok"]
  /\ IF call[t].op \in {"activate", "renew"}
     THEN \E e \in Expiries, s \in Seals :
            tok' = [tok EXCEPT ![t] = [aid |-> call[t].aid, iat |-> clock,
                                       exp |-> e, seal |-> s]]
     ELSE UNCHANGED tok

\* A 2xx that is empty or cannot be decoded.
AnswerGarbled(t) ==
  /\ Grants(call[t]) /\ Take(call[t])
  /\ outcome' = [outcome EXCEPT ![t] = "server"]
  /\ UNCHANGED tok

\* 404, 403 or 401.
AnswerRejected(t) ==
  /\ ~Grants(call[t])
  /\ outcome' = [outcome EXCEPT ![t] = "rejected"]
  /\ UNCHANGED <<tok, seat>>

\* 5xx, 429, and the 409 of a seat limit or a deactivation policy.
AnswerError(t) ==
  /\ outcome' = [outcome EXCEPT ![t] = "server"]
  /\ UNCHANGED <<tok, seat>>

Answer(t) ==
  /\ pc[t] = "post"
  /\ AnswerOk(t) \/ AnswerGarbled(t) \/ AnswerRejected(t) \/ AnswerError(t)
  /\ Goto(t, "reply")
  /\ UNCHANGED <<clock, cache, renewalFailed, mutex, call, seen, late, bounds,
                 gone>>

\* No answer in time: the request may never arrive, or arrive later.
Abandon(t) ==
  /\ pc[t] = "post"
  /\ outcome' = [outcome EXCEPT ![t] = "network"]
  /\ Goto(t, "reply")
  /\ late' \in IF ChangesSeat(call[t]) THEN {late, late \cup {call[t]}} ELSE {late}
  /\ UNCHANGED <<clock, cache, renewalFailed, mutex, call, tok, seen, seat,
                 bounds, gone>>

LateArrival ==
  /\ \E r \in late : Take(r) /\ late' = late \ {r}
  /\ UNCHANGED <<clock, cache, renewalFailed, mutex, thread, bounds, gone>>

\* The seller deactivates the licence in the dashboard.
Revoke ==
  /\ \E a \in Aids : seat[a] = "held" /\ seat' = [seat EXCEPT ![a] = "revoked"]
  /\ UNCHANGED <<clock, cache, renewalFailed, mutex, thread, late, bounds, gone>>

-----------------------------------------------------------------------------
(* The rest of activate, renew and deactivate *)

\* post_and_handle_invalidation, and what each method does with the answer.
Receive(c) ==
  LET op == call[c].op  rejected == outcome[c] = "rejected" IN
  /\ pc[c] = "reply"
  /\ \/ /\ \/ op \in {"activate", "renew"} /\ rejected
           \/ op = "deactivate" /\ outcome[c] = "ok"
        /\ Goto(c, "clear")
        /\ UNCHANGED <<call, tok, seen, outcome>>
     \/ /\ op = "renew" /\ ~rejected
        /\ Goto(c, "note")
        /\ UNCHANGED <<call, tok, seen, outcome>>
     \/ /\ op = "activate" /\ outcome[c] = "ok"
        /\ Goto(c, "accept")
        /\ UNCHANGED <<call, tok, seen, outcome>>
     \/ /\ \/ op = "machines"
           \/ op = "activate" /\ outcome[c] \in {"server", "network"}
           \/ op = "deactivate" /\ outcome[c] # "ok"
        /\ Return(c, outcome[c])
  /\ UNCHANGED <<clock, cache, renewalFailed, mutex, server, bounds, gone>>

\* clear_cache, up to the flag.
ClearBegin(c) ==
  /\ pc[c] = "clear" /\ lock = Free
  /\ lock' = c
  /\ renewalFailed' = FALSE
  /\ Goto(c, "clearing")
  /\ UNCHANGED <<clock, cache, attempt, inFlight, lastAttempt, call, tok, seen,
                 outcome, server, bounds, gone>>

FileAfter(t) == {t} \cup IF DiskFaults THEN {cache} ELSE {}

Activating == \E c \in Callers : pc[c] # "idle" /\ call[c].op = "activate"

\* History: the file lost its token because `a` was released or rejected.
Drop(a) == gone' = IF Activating THEN gone ELSE gone \cup {a}

\* clear_cache removes the file and unlocks; renew goes on to its record.
ClearEnd(c) ==
  /\ pc[c] = "clearing"
  /\ cache' \in FileAfter(NoToken)
  /\ lock' = Free
  /\ IF call[c].op = "renew"
     THEN Goto(c, "note") /\ UNCHANGED <<call, tok, seen, outcome>>
     ELSE Return(c, outcome[c])
  /\ Drop(call[c].aid)
  /\ UNCHANGED <<clock, renewalFailed, attempt, inFlight, lastAttempt, server, bounds>>

\* note_renewal: the flag stands for an activation the file still holds.
FaultyNoted(t) == outcome[t] = "network"

Noted(t) == outcome[t] = "network" /\ HoldsActivation(call[t].aid)

RenewNote(c) ==
  /\ pc[c] = "note" /\ lock = Free
  /\ renewalFailed' = Noted(c)
  /\ IF outcome[c] = "ok"
     THEN Goto(c, "accept") /\ UNCHANGED <<call, tok, seen, outcome>>
     ELSE Return(c, outcome[c])
  /\ UNCHANGED <<clock, cache, mutex, server, bounds, gone>>

Accept(c) ==
  /\ pc[c] = "accept"
  /\ IF Usable(tok[c], clock)
     THEN Goto(c, "save") /\ UNCHANGED <<call, tok, seen, outcome>>
     ELSE Return(c, "server")
  /\ UNCHANGED <<clock, cache, renewalFailed, mutex, server, bounds, gone>>

FaultySaveBegin(c) ==
  /\ pc[c] = "save" /\ lock = Free
  /\ lock' = c
  /\ Goto(c, "saving")
  /\ UNCHANGED <<clock, cache, renewalFailed, attempt, inFlight, lastAttempt, call,
                 tok, seen, outcome, server, bounds, gone>>

\* save_to_cache, up to the flag.
SaveBegin(c) ==
  /\ pc[c] = "save" /\ lock = Free
  /\ lock' = c
  /\ renewalFailed' = FALSE
  /\ Goto(c, "saving")
  /\ UNCHANGED <<clock, cache, attempt, inFlight, lastAttempt, call, tok, seen,
                 outcome, server, bounds, gone>>

\* save_to_cache writes the file unconditionally and unlocks.
SaveEnd(c) ==
  /\ pc[c] = "saving"
  /\ cache' \in FileAfter(tok[c])
  /\ lock' = Free
  /\ Return(c, "ok")
  /\ UNCHANGED <<clock, renewalFailed, attempt, inFlight, lastAttempt, server,
                 bounds, gone>>

-----------------------------------------------------------------------------
(* renew_and_store, the background renewal *)

FaultyLatest(n) == TRUE

\* Only the latest renewal owns in_flight and gets its outcome recorded.
Latest(n) == attempt = n

BackgroundVerify(n) ==
  /\ pc[n] = "reply"
  /\ outcome' = [outcome EXCEPT ![n] =
       IF @ = "ok" /\ ~Usable(tok[n], clock) THEN "server" ELSE @]
  /\ Goto(n, "record")
  /\ UNCHANGED <<clock, cache, renewalFailed, mutex, call, tok, seen, server,
                 bounds, gone>>

\* A newer renewal has taken over: the outcome is dropped.
BackgroundStale(n) ==
  /\ pc[n] = "record" /\ lock = Free /\ ~Latest(n)
  /\ Goto(n, "drop")
  /\ UNCHANGED <<clock, cache, renewalFailed, mutex, call, tok, seen, outcome,
                 server, bounds, gone>>

\* Note the outcome and keep the mutex if the file is to be written.
BackgroundRecord(n) ==
  LET writes == /\ HoldsActivation(call[n].aid)
                /\ outcome[n] \in {"ok", "rejected"} IN
  /\ pc[n] = "record" /\ lock = Free /\ Latest(n)
  /\ renewalFailed' = Noted(n)
  /\ lock' = IF writes THEN n ELSE Free
  /\ Goto(n, IF writes THEN "write" ELSE "drop")
  /\ UNCHANGED <<clock, cache, attempt, inFlight, lastAttempt, call, tok, seen,
                 outcome, server, bounds, gone>>

BackgroundWrite(n) ==
  /\ pc[n] = "write"
  /\ cache' \in FileAfter(IF outcome[n] = "ok" THEN tok[n] ELSE NoToken)
  /\ lock' = Free
  /\ Goto(n, "drop")
  /\ IF outcome[n] = "rejected" THEN Drop(call[n].aid) ELSE UNCHANGED gone
  /\ UNCHANGED <<clock, renewalFailed, attempt, inFlight, lastAttempt, call, tok,
                 seen, outcome, server, bounds>>

FaultyPanicKeepsMutex(n) ==
  /\ pc[n] \in {"post", "reply", "record", "write"}
  /\ Goto(n, IF lock = n THEN "idle" ELSE "drop")
  /\ UNCHANGED <<clock, cache, renewalFailed, mutex, call, tok, seen, outcome,
                 server, bounds, gone>>

FaultyPanicKeepsMark(n) ==
  /\ pc[n] \in {"post", "reply", "record", "write"}
  /\ lock' = IF lock = n THEN Free ELSE lock
  /\ Goto(n, "idle")
  /\ UNCHANGED <<clock, cache, renewalFailed, attempt, inFlight, lastAttempt, call,
                 tok, seen, outcome, server, bounds, gone>>

\* A panic unwinds to InFlight's drop, releasing the mutex on the way.
BackgroundPanic(n) ==
  /\ pc[n] \in {"post", "reply", "record", "write"}
  /\ lock' = IF lock = n THEN Free ELSE lock
  /\ Goto(n, "drop")
  /\ UNCHANGED <<clock, cache, renewalFailed, attempt, inFlight, lastAttempt, call,
                 tok, seen, outcome, server, bounds, gone>>

\* InFlight::drop.  seen[n] keeps when renewal n started.
BackgroundDrop(n) ==
  /\ pc[n] = "drop" /\ lock = Free
  /\ inFlight' = IF Latest(n) THEN Never ELSE inFlight
  /\ Goto(n, "idle")
  /\ call' = [call EXCEPT ![n] = NoCall]
  /\ tok' = [tok EXCEPT ![n] = NoToken]
  /\ outcome' = [outcome EXCEPT ![n] = "none"]
  /\ UNCHANGED <<clock, cache, renewalFailed, lock, attempt, lastAttempt, seen,
                 server, bounds, gone>>

-----------------------------------------------------------------------------
(* The environment *)

Tick ==
  /\ clock < MaxTime
  /\ clock' = clock + 1
  /\ UNCHANGED <<cache, renewalFailed, mutex, thread, server, bounds, gone>>

\* The process dies and starts again: the file stays, memory does not.
Crash ==
  /\ crashes < MaxCrashes
  /\ crashes' = crashes + 1
  /\ renewalFailed' = FALSE
  /\ lock' = Free /\ attempt' = 0 /\ inFlight' = Never /\ lastAttempt' = Never
  /\ pc' = All("idle") /\ call' = All(NoCall) /\ tok' = All(NoToken)
  /\ seen' = All(0) /\ outcome' = All("none")
  /\ late' \in {late, late \cup
       {call[c] : c \in {x \in Callers : pc[x] = "post" /\ ChangesSeat(call[x])}}}
  /\ UNCHANGED <<clock, cache, seat, calls, gone>>

\* Nothing is left within the bounds.
Quiescent ==
  /\ clock = MaxTime /\ calls = MaxCalls
  /\ \A t \in Threads : pc[t] = "idle"
  /\ UNCHANGED vars

CheckStep(c) ==
  \/ call[c].op = "check" /\ Load(c)
  \/ CheckVerdict(c) \/ CheckDue(c) \/ CheckSkip(c) \/ CheckStart(c) \/ CheckFlag(c)

CallerStep(c) ==
  \/ Load(c) \/ Fast(c)
  \/ CheckVerdict(c) \/ CheckDue(c) \/ CheckSkip(c) \/ CheckStart(c) \/ CheckFlag(c)
  \/ RenewClock(c) \/ RenewStamp(c)
  \/ Answer(c) \/ Abandon(c) \/ Receive(c)
  \/ ClearBegin(c) \/ ClearEnd(c) \/ RenewNote(c)
  \/ Accept(c) \/ SaveBegin(c) \/ SaveEnd(c)

RenewalStep(n) ==
  \/ Answer(n) \/ Abandon(n)
  \/ BackgroundVerify(n) \/ BackgroundStale(n) \/ BackgroundRecord(n)
  \/ BackgroundWrite(n) \/ BackgroundDrop(n)

HostCall == \E c \in Callers, op \in Ops : \E a \in Arguments(op) : Begin(c, op, a)

Next ==
  \/ HostCall
  \/ \E c \in Callers : CallerStep(c)
  \/ \E n \in Attempts : RenewalStep(n) \/ BackgroundPanic(n)
  \/ LateArrival \/ Revoke \/ Tick \/ Crash \/ Quiescent

Spec == Init /\ [][Next]_vars

\* Every thread is scheduled; a request always ends, by answer or by timeout.
FairSpec ==
  /\ Spec
  /\ \A c \in Callers : WF_vars(CallerStep(c))
  /\ \A n \in Attempts : WF_vars(RenewalStep(n))

-----------------------------------------------------------------------------
(* Properties *)

CallerPcs == {"idle", "load", "fast", "verdict", "due", "try", "flag", "clock",
              "stamp", "post", "reply", "clear", "clearing", "note", "accept",
              "save", "saving"}
RenewalPcs == {"idle", "post", "reply", "record", "write", "drop"}

\* Types, the bound each counter is under, and that a verdict still waiting
\* for the flag is never what a call returns.
TypeOK ==
  /\ clock \in Nat
  /\ cache \in Tokens \cup {NoToken}
  /\ renewalFailed \in BOOLEAN
  /\ lock \in Threads \cup {Free}
  /\ attempt \in 0 .. MaxAttempts
  /\ inFlight \in Nat \cup {Never} /\ lastAttempt \in Nat \cup {Never}
  /\ pc \in [Threads -> CallerPcs \cup RenewalPcs]
  /\ call \in [Threads -> CallRecords]
  /\ tok \in [Threads -> Tokens \cup {NoToken}]
  /\ seen \in [Threads -> Nat]
  /\ outcome \in [Threads -> {"none", "ok", "ageing", "in_grace", "expired",
                              "not_activated", "network", "server", "rejected"}]
  /\ \A t \in Threads : outcome[t] = "ageing" => pc[t] \in {"due", "try", "flag"}
  /\ seat \in [Aids -> {"free", "held", "revoked"}]
  /\ late \subseteq CallRecords
  /\ calls \in 0 .. MaxCalls /\ crashes \in 0 .. MaxCrashes
  /\ gone \subseteq Aids

\* The mutex is held exactly by the thread between a flag store and the file
\* write after it: no path of http.rs returns, panics or dies holding it.
LockHeldByWriter ==
  \A t \in Threads : lock = t <=> pc[t] \in {"clearing", "saving", "write"}

\* in_flight is set only while the renewal it stands for is still running, so
\* no early return, panic, takeover or failed spawn can stop every later one.
InFlightOwned ==
  inFlight # Never => /\ attempt >= 1
                      /\ pc[attempt] # "idle"
                      /\ seen[attempt] = inFlight

\* Two background renewals overlap only if the later one began more than
\* 2 * RENEW_RETRY after the earlier (the takeover of a stuck one).
SingleFlight ==
  \A m, n \in Attempts :
    m < n /\ pc[m] # "idle" /\ pc[n] # "idle" => seen[n] - seen[m] > 2 * RenewRetry

\* "At most one request per five minutes": a background renewal starts at
\* least RENEW_RETRY after every earlier one of this process.
RetrySpacing ==
  [][\A n \in Attempts : pc[n] = "idle" /\ pc'[n] = "post" =>
       \A m \in 1 .. n - 1 : seen'[n] - seen[m] >= RenewRetry]_vars

\* A renewal about to write is the latest one, holds the mutex, and the file
\* still holds the activation it renewed: a deactivate, a re-activation or a
\* takeover cannot slip in between the test and the write.
WriteGuarded ==
  \A n \in Attempts : pc[n] = "write" =>
    /\ lock = n /\ attempt = n
    /\ cache # NoToken /\ cache.aid = call[n].aid

\* While renewal_failed is set the file holds a token, whatever calls overlap,
\* and the flag stays set only as long as the same activation stays cached: the
\* failed renewal of one activation is never held against the next.
FlagNeedsToken == renewalFailed => cache # NoToken
FlagFollowsActivation ==
  [][renewalFailed /\ renewalFailed' =>
       cache # NoToken /\ cache' # NoToken /\ cache'.aid = cache.aid]_vars

\* The field's doc: the flag says that the last attempt failed and "nothing has
\* succeeded since", so no attempt sets it once a later attempt has begun and a
\* token issued after its own beginning is cached.
FlagNotOutdated ==
  [][~renewalFailed /\ renewalFailed' /\ cache # NoToken =>
       \A t \in Threads : pc'[t] # pc[t] /\ seen[t] < lastAttempt
                            => cache.iat <= seen[t]]_vars

\* What a thread has heard from the server and not yet acted on.
Asks == {"activate", "renew"}
Granted(t) == outcome[t] = "ok" /\ call[t].op \in Asks
Refused(t) == \/ outcome[t] = "rejected" /\ call[t].op \in Asks
              \/ outcome[t] = "ok" /\ call[t].op = "deactivate"
Unanswered(t) == outcome[t] = "network" /\ call[t].op = "renew"

WithToken == {"reply", "note", "accept", "save", "saving", "record", "write"}
WithRefusal == {"reply", "clear", "clearing", "record", "write"}
WithSilence == {"reply", "note", "record"}

NoNews == [kind |-> "none", aid |-> NoAid, token |-> NoToken]
Told(t, kind, token) == [kind |-> kind, aid |-> call[t].aid, token |-> token]
News(t) ==
  CASE pc[t] \in WithToken /\ Granted(t) -> Told(t, "granted", tok[t])
    [] pc[t] \in WithRefusal /\ Refused(t) -> Told(t, "gone", NoToken)
    [] pc[t] \in WithSilence /\ Unanswered(t) -> Told(t, "silent", NoToken)
    [] OTHER -> NoNews

H == INSTANCE Handle WITH
       Agents <- Threads, Renewers <- Attempts, cached <- cache,
       failed <- renewalFailed, news <- [t \in Threads |-> News(t)]

\* However calls and renewals overlap, crash or fail to write, the file and the
\* flag follow the server: a token is written only if it was granted and
\* verifies for this machine, removed only on the server's word, replaced by a
\* renewal only under its own activation, and each answer is used once.
FollowsServer == H!Spec

\* The cached token of one activation is only ever replaced by a newer one.
CacheNeverRegresses ==
  [][cache # NoToken /\ cache' # NoToken /\ cache'.aid = cache.aid
       => cache'.iat >= cache.iat]_vars

\* Once an activation has been deactivated, or dropped because the server
\* rejected its renewal, it stays out of the cache until the next activate.
Revived == cache # NoToken /\ cache.aid \in gone
NoResurrection == ~Revived

\* Whatever the host calls and the disk does, the one way a dropped activation
\* gets back into the cache is the write of a `renew` the host itself called:
\* no background renewal, and no activate, ever brings one back.
OnlyRenewRevives ==
  [][cache' # cache /\ ~Revived /\ Revived' =>
       \E c \in Callers :
         pc[c] = "saving" /\ call[c].op = "renew" /\ pc'[c] = "idle"]_vars

\* A thread inside `check` can always go on by itself, whatever every other
\* thread is suspended in: it waits neither on the network nor on the mutex.
CheckNeverWaits ==
  \A c \in Callers : pc[c] # "idle" /\ call[c].op = "check" => ENABLED CheckStep(c)

\* Every call returns, and no set of calls and renewals deadlocks on the mutex.
CallsReturn == \A c \in Callers : pc[c] # "idle" ~> pc[c] = "idle"

\* The running mark of a background renewal is always cleared in the end, so
\* a later check can renew again.
MarkCleared == inFlight # Never ~> inFlight = Never
=============================================================================
