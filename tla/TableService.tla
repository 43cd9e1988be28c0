---------------------------- MODULE TableService ----------------------------
(***************************************************************************)
(* What the restaurant of lab A6 promises its customers: a table if one is *)
(* free, an order that is passed to the kitchen once, cooked in its turn   *)
(* by one of the cooks, and served to the customer it was cooked for.      *)
(***************************************************************************)
EXTENDS Integers, Sequences

CONSTANTS Cooks, Customers, NumTables, None

VARIABLES free,      (* the number of free tables                          *)
          stage,     (* of each customer                                   *)
          orders,    (* the customers whose orders are to be cooked        *)
          stove,     (* the customer each cook is cooking for, or None     *)
          ready      (* the customers whose food is cooked, not yet served *)

vars == <<free, stage, orders, stove, ready>>

Init ==
    /\ free = NumTables
    /\ stage = [c \in Customers |-> "outside"]
    /\ orders = <<>>
    /\ stove = [k \in Cooks |-> None]
    /\ ready = {}

Becomes(c, from, to) == stage[c] = from /\ stage' = [stage EXCEPT ![c] = to]

TurnAway(c) == Becomes(c, "outside", "gone") /\ UNCHANGED <<free, orders, stove, ready>>

Sit(c) ==
    /\ free > 0 /\ free' = free - 1
    /\ Becomes(c, "outside", "seated")
    /\ UNCHANGED <<orders, stove, ready>>

Order(c) ==
    /\ Becomes(c, "seated", "ordered")
    /\ orders' = Append(orders, c)
    /\ UNCHANGED <<free, stove, ready>>

StartCooking(k) ==
    /\ orders # <<>> /\ stove[k] = None
    /\ stove' = [stove EXCEPT ![k] = Head(orders)]
    /\ orders' = Tail(orders)
    /\ UNCHANGED <<free, stage, ready>>

FinishCooking(k) ==
    /\ stove[k] # None
    /\ ready' = ready \cup {stove[k]}
    /\ stove' = [stove EXCEPT ![k] = None]
    /\ UNCHANGED <<free, stage, orders>>

Eat(c) ==
    /\ c \in ready /\ ready' = ready \ {c}
    /\ Becomes(c, "ordered", "eating")
    /\ UNCHANGED <<free, orders, stove>>

Leave(c) ==
    /\ Becomes(c, "eating", "gone")
    /\ free' = free + 1
    /\ UNCHANGED <<orders, stove, ready>>

Next ==
    \/ \E c \in Customers : TurnAway(c) \/ Sit(c) \/ Order(c) \/ Eat(c) \/ Leave(c)
    \/ \E k \in Cooks : StartCooking(k) \/ FinishCooking(k)

Spec == Init /\ [][Next]_vars
=============================================================================
