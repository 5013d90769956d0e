----------------------------- MODULE MCStorage -----------------------------
(* Two or three processes sharing one cache path. *)
EXTENDS Storage

CONSTANTS p1, p2, p3, t1, t2, t3

TwoProcesses == {p1, p2}
ThreeThreads == {t1, t2, t3}
\* p1 has two threads, so one COUNTER serves two saves at a time.
SharedProcess == [t \in ThreeThreads |-> IF t = t3 THEN p2 ELSE p1]

ThreeProcesses == {p1, p2, p3}
OneEach == [t \in ThreeThreads |-> CASE t = t1 -> p1 [] t = t2 -> p2 [] OTHER -> p3]
=============================================================================
