----------------------------- MODULE MCBallGame -----------------------------
(* Instances of BallGame for TLC. *)
EXTENDS BallGame
=============================================================================
