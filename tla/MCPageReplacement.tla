------------------------- MODULE MCPageReplacement -------------------------
(* Values for the constants of PageReplacement. *)
EXTENDS PageReplacement

(* Eight elements, one to a page, of which a search uses up to three. *)
Sizes == [p \in Procs |-> 8]
=============================================================================
