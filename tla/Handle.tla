------------------------------- MODULE Handle -------------------------------
(***************************************************************************)
(* What the cache and renewal_failed of an `Sdk` handle (src/src/http.rs)  *)
(* may do, whatever calls and renewals overlap: each change of the file is *)
(* the work of one agent who holds news of the server's decision, and uses *)
(* it up.  When the news is acted on, if ever, is left open.               *)
(***************************************************************************)
CONSTANTS
  Agents,       \* who talks to the server
  Renewers,     \* the agents the host did not call
  Aids, NoAid,
  Tokens, NoToken

VARIABLES
  cached,       \* the token in the file, or NoToken
  failed,       \* renewal_failed
  seat,         \* the server's record of each activation
  news          \* what each agent has heard and not used

vars == <<cached, failed, seat, news>>

SeatStates == {"free", "held", "revoked"}
NoNews == [kind |-> "none", aid |-> NoAid, token |-> NoToken]

Init ==
  /\ cached \in Tokens \cup {NoToken}
  /\ failed = FALSE
  /\ seat \in [Aids -> SeatStates]
  /\ news = [a \in Agents |-> NoNews]

\* The seats change for reasons of their own.
Serve ==
  /\ UNCHANGED <<cached, failed, news>>
  /\ seat' \in [Aids -> SeatStates]

\* News is true when it is heard: a seat is held where a token is granted, and
\* not held where it is gone; silence says nothing.
Hear(a, n) ==
  /\ news[a] = NoNews
  /\ news' = [news EXCEPT ![a] = n]
  /\ n.aid \in Aids
  /\ seat' \in [Aids -> SeatStates]
  /\ \/ /\ n.kind = "granted" /\ seat'[n.aid] = "held"
        /\ n.token \in Tokens /\ n.token.aid = n.aid
     \/ n.kind = "gone" /\ seat'[n.aid] # "held" /\ n.token = NoToken
     \/ n.kind = "silent" /\ seat' = seat /\ n.token = NoToken
  /\ UNCHANGED <<cached, failed>>

Use(a, kind) ==
  /\ news[a].kind = kind
  /\ news' = [news EXCEPT ![a] = NoNews]
  /\ UNCHANGED seat

\* A renewer may only touch the activation it asked about.
Concerns(a) == cached # NoToken /\ cached.aid = news[a].aid

\* Silence about the cached activation puts the flag up.
Doubt(a) ==
  /\ Use(a, "silent") /\ Concerns(a)
  /\ failed' = TRUE
  /\ UNCHANGED cached

\* The flag is down whenever the file changes.
Rewrite(a) == ~failed /\ UNCHANGED failed /\ (a \in Renewers => Concerns(a))

\* A granted token is kept if it verifies for this machine.
Keep(a) ==
  /\ Use(a, "granted") /\ Rewrite(a)
  /\ news[a].token.seal = "good"
  /\ cached' = news[a].token

Forget(a) ==
  /\ Use(a, "gone") /\ Rewrite(a)
  /\ cached' = NoToken

\* News may be dropped, and the flag lowered, at any time: an overtaken
\* renewal, a panic, a crash, a failed write.
GiveUp ==
  /\ failed' \in {failed, FALSE}
  /\ UNCHANGED <<cached, seat>>
  /\ \E A \in SUBSET Agents :
       news' = [a \in Agents |-> IF a \in A THEN NoNews ELSE news[a]]

Next ==
  \/ Serve
  \/ \E a \in Agents :
       Doubt(a) \/ Keep(a) \/ Forget(a) \/ Hear(a, news'[a])
  \/ GiveUp

Spec == Init /\ [][Next]_vars
=============================================================================
