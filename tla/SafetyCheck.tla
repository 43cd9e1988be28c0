---------------------------- MODULE SafetyCheck ----------------------------
(* The pure part of both resource managers of Lab A8: the scripts their    *)
(* threads follow and the safety check of the banker's algorithm.          *)
EXTENDS Vectors, FiniteSets, FiniteSetsExt

(* The requests geninput may write next for a thread that holds `held': it *)
(* returns at most what it holds and asks at most up to its claim `max'.   *)
ScriptRequests(held, max) ==
    {q \in [DOMAIN max -> UNION {-max[r]..max[r] : r \in DOMAIN max}] :
        Leq(Returned(q), held) /\ Leq(Add(held, Wanted(q)), max)}

(* What is free once the threads of F have finished. *)
Work(avail, alloc, F) ==
    [r \in DOMAIN avail |-> avail[r] + MapThenSumSet(LAMBDA i : alloc[i][r], F)]

(* The check of the code: let every thread finish whose need is met, until *)
(* none is left that can; the state is safe when all of S have finished.   *)
issafe(S, avail, alloc, nd) ==
    LET finish[F \in SUBSET S] ==
            LET more == {i \in S \ F : Leq(nd[i], Work(avail, alloc, F))}
            IN  IF more = {} THEN F ELSE finish[F \cup more]
    IN  finish[{}] = S
=============================================================================
