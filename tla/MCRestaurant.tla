---------------------------- MODULE MCRestaurant ----------------------------
(* Values for the constants of Restaurant. *)
EXTENDS Restaurant, TLC

CONSTANTS c1, c2, c3, cookC, cookD

BothCooks == {cookC, cookD}
ThreeCustomers == {c1, c2, c3}

Anybody == Permutations(ThreeCustomers) \cup Permutations(BothCooks)
=============================================================================
