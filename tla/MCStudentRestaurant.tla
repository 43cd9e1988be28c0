------------------------ MODULE MCStudentRestaurant -------------------------
(* Values for the constants of StudentRestaurant. *)
EXTENDS StudentRestaurant, TLC

CONSTANTS c1, c2, c3, cookC, cookD

BothCooks == {cookC, cookD}
ThreeCustomers == {c1, c2, c3}

Anybody == Permutations(ThreeCustomers) \cup Permutations(BothCooks)
=============================================================================
