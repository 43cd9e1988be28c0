------------------------------ MODULE Vectors ------------------------------
(* Vectors of resource counts, as the arrays of the resource managers of   *)
(* Lab A8 are: functions from resource types to integers.                  *)
EXTENDS Integers

Add(u, w) == [r \in DOMAIN u |-> u[r] + w[r]]
Sub(u, w) == [r \in DOMAIN u |-> u[r] - w[r]]
Leq(u, w) == \A r \in DOMAIN u : u[r] <= w[r]
IsZero(u) == \A r \in DOMAIN u : u[r] = 0

(* The two halves of a request: what it asks for and what it gives back,   *)
(* the latter as a vector of counts.                                       *)
Wanted(q)   == [r \in DOMAIN q |-> IF q[r] > 0 THEN q[r] ELSE 0]
Returned(q) == [r \in DOMAIN q |-> IF q[r] < 0 THEN -q[r] ELSE 0]
=============================================================================
