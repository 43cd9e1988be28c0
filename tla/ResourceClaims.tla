--------------------------- MODULE ResourceClaims ---------------------------
(* What a session of Lab A8 is about: the threads, the types of resources, *)
(* what there is of each, and the claims that the threads announce.        *)
EXTENDS Integers, FiniteSets, Vectors

CONSTANTS Threads,    (* the user threads                                  *)
          Resources,  (* the resource types                                *)
          Total,      (* what there is of each type                        *)
          maxNeed,    (* the most each thread may need of each type        *)
          Cap,        (* a bound on Total                                  *)
          None        (* no request                                        *)

Counts == [Resources -> 0..Cap]
Zero == [r \in Resources |-> 0]

(* No thread claims more than there is: geninput writes such claims only.  *)
ASSUME ClaimsAssumption ==
    /\ IsFiniteSet(Threads)
    /\ Cap \in Nat
    /\ Total \in Counts
    /\ maxNeed \in [Threads -> Counts]
    /\ \A t \in Threads : Leq(maxNeed[t], Total)
    /\ None \notin [Resources -> Int]

(* The threads of S can finish in the order given when the k-th of them    *)
(* needs no more than work[k], which is `avail' and what the threads       *)
(* before it hold.                                                         *)
Orders(S) ==
    {order \in [1..Cardinality(S) -> S] :
        /\ \A i, j \in 1..Cardinality(S) : order[i] = order[j] => i = j
        /\ \A t \in S : \E i \in 1..Cardinality(S) : order[i] = t}

FinishInOrder(S, avail, alloc, nd, order, work) ==
    /\ work[1] = avail
    /\ \A k \in 1..Cardinality(S) :
          /\ Leq(nd[order[k]], work[k])
          /\ work[k + 1] = Add(work[k], alloc[order[k]])
    /\ \A i, j \in 1..(Cardinality(S) + 1) : i <= j => Leq(work[i], work[j])

Safe(S, avail, alloc, nd) ==
    \E order \in Orders(S), work \in [1..(Cardinality(S) + 1) -> Counts] :
        FinishInOrder(S, avail, alloc, nd, order, work)
=============================================================================
