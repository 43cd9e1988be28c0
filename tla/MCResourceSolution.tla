------------------------- MODULE MCResourceSolution ------------------------
(* Instances of ResourceSolution for TLC. *)
EXTENDS ResourceSolution

CONSTANTS t1, t2, none, nobody

TwoThreads == {t1, t2}
TwoTypes == {"r", "s"}

(* Two types, one of each: the classical deadlock of two threads. *)
TotalTwo == [r \in TwoTypes |-> 1]
MaxTwo == [t \in Threads |-> [r \in TwoTypes |-> 1]]
=============================================================================
