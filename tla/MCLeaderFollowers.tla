------------------------- MODULE MCLeaderFollowers --------------------------
(* Values for the constants of LeaderFollowers. *)
EXTENDS LeaderFollowers

CONSTANTS p1, p2, p3

ThreeProcesses == {p1, p2, p3}
=============================================================================
