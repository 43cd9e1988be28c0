------------------------- MODULE MCResourceManager -------------------------
(* Instances of ResourceManager for TLC. *)
EXTENDS ResourceManager

CONSTANTS t1, t2, none

TwoThreads == {t1, t2}
TwoTypes == {"r", "s"}

(* Two types, one of each: the classical deadlock of two threads. *)
TotalTwo == [r \in TwoTypes |-> 1]
MaxTwo == [t \in Threads |-> [r \in TwoTypes |-> 1]]
=============================================================================
