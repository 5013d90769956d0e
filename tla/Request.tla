------------------------------ MODULE Request ------------------------------
(***************************************************************************)
(* What a caller of the network may rely on: a request is decided by the   *)
(* server at most once, perhaps after its caller has given up; the caller  *)
(* is told once, and anything but "network" is the server's own decision   *)
(* on this very request.                                                   *)
(***************************************************************************)
CONSTANTS Requests, Paths, Statuses, Results,
          Allowed(_, _)     \* what may be made of a status at a path

VARIABLES state,      \* "unsent", "open" or "closed", for each request
          path, decision, result

vars == <<state, path, decision, result>>

Init ==
  /\ state = [r \in Requests |-> "unsent"]
  /\ path \in [Requests -> Paths]
  /\ decision = [r \in Requests |-> "none"]
  /\ result = [r \in Requests |-> "none"]

Open(r) ==
  /\ state[r] = "unsent"
  /\ state' = [state EXCEPT ![r] = "open"]
  /\ UNCHANGED <<path, decision, result>>

\* The request reaches the server: while it is open, or late.
Decide(r, s) ==
  /\ state[r] # "unsent" /\ decision[r] = "none"
  /\ decision' = [decision EXCEPT ![r] = s]
  /\ UNCHANGED <<state, path, result>>

\* "network" may also be told of a request that never left.
Close(r, x) ==
  /\ state[r] # "closed"
  /\ \/ x = "network"
     \/ /\ state[r] = "open" /\ decision[r] # "none"
        /\ x \in Allowed(path[r], decision[r])
  /\ state' = [state EXCEPT ![r] = "closed"]
  /\ result' = [result EXCEPT ![r] = x]
  /\ UNCHANGED <<path, decision>>

Next ==
  \E r \in Requests :
    Open(r) \/ (\E s \in Statuses : Decide(r, s)) \/ (\E x \in Results : Close(r, x))

Spec == Init /\ [][Next]_vars
=============================================================================
