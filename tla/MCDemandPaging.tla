--------------------------- MODULE MCDemandPaging ---------------------------
(* Values for the constants of DemandPaging. *)
EXTENDS DemandPaging

(* Arrays of three pages or one. *)
Sizes == [p \in Procs |-> IF p = 2 THEN 2 ELSE 7]
=============================================================================
