------------------------- MODULE MCBoatingSolution -------------------------
(* Instances of BoatingSolution for TLC. *)
EXTENDS BoatingSolution, TLC

CONSTANTS v1, v2, v3, none, main

ThreeVisitors == {v1, v2, v3}

AnyVisitor == Permutations(Visitors)
=============================================================================
