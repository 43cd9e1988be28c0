----------------------------- MODULE MCBoating -----------------------------
(* Instances of Boating for TLC. *)
EXTENDS Boating

CONSTANTS v1, v2, v3, none, main

ThreeVisitors == {v1, v2, v3}
=============================================================================
