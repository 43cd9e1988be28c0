---------------------------- MODULE RideService ----------------------------
(***************************************************************************)
(* What the boating session of Lab A7 promises, without its threads,       *)
(* semaphores and barriers: every boat carries one visitor at a time, no   *)
(* visitor boards twice, and the session closes only when every visitor    *)
(* has had a complete ride.                                                *)
(***************************************************************************)
CONSTANTS Boats,     (* the boats                                          *)
          Visitors,  (* the visitors                                       *)
          NoVisitor  (* aboard[b] when boat b is empty                     *)

VARIABLES aboard,    (* the visitor each boat is carrying                  *)
          boarded,   (* the visitors that have boarded some boat           *)
          served,    (* the visitors whose ride has ended                  *)
          closed     (* whether the session is over                        *)

vars == <<aboard, boarded, served, closed>>

Init == /\ aboard = [b \in Boats |-> NoVisitor]
        /\ boarded = {}
        /\ served = {}
        /\ closed = FALSE

(* An empty boat takes a visitor who never boarded before. *)
Board(b, v) == /\ ~closed
               /\ aboard[b] = NoVisitor
               /\ v \notin boarded
               /\ aboard' = [aboard EXCEPT ![b] = v]
               /\ boarded' = boarded \cup {v}
               /\ UNCHANGED <<served, closed>>

(* A ride ends, the only one its visitor will have. *)
Finish(b) == /\ ~closed
             /\ aboard[b] # NoVisitor
             /\ aboard[b] \notin served
             /\ aboard' = [aboard EXCEPT ![b] = NoVisitor]
             /\ served' = served \cup {aboard[b]}
             /\ UNCHANGED <<boarded, closed>>

(* The session ends with nobody on the water and nobody left on shore. *)
Close == /\ ~closed
         /\ served = Visitors
         /\ \A b \in Boats : aboard[b] = NoVisitor
         /\ closed' = TRUE
         /\ UNCHANGED <<aboard, boarded, served>>

Next == \/ \E b \in Boats, v \in Visitors : Board(b, v)
        \/ \E b \in Boats : Finish(b)
        \/ Close

Spec == Init /\ [][Next]_vars
=============================================================================
