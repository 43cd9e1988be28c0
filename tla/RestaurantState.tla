--------------------------- MODULE RestaurantState --------------------------
(***************************************************************************)
(* What the two restaurants of Lab A6 have in common: the cooks, waiters   *)
(* and customers are processes that share integers under a semaphore mutex *)
(* and call one another with the semaphores cook, waiter[x], customer[c].  *)
(***************************************************************************)
EXTENDS Integers, FiniteSets, Sequences, Functions

CONSTANTS
    Cooks,         (* 'C' and 'D'                                          *)
    NumWaiters,    (* 5                                                    *)
    NumTables,     (* 10                                                   *)
    Customers,     (* the lines of customers.txt                           *)
    None           (* the 0 that stands for nobody and for no order        *)

Waiters == 0..(NumWaiters - 1)
Orders == [waiter : Waiters, customer : Customers]

ASSUME RestaurantAssumption ==
    /\ IsFiniteSet(Cooks) /\ IsFiniteSet(Customers)
    /\ None \notin Customers /\ None \notin Orders
    /\ NumWaiters \in Nat \ {0} /\ NumTables \in Nat

VARIABLES
    late,              (* that the clock is past closing time              *)
    next_waiter,       (* who gets the next customer                       *)
    queue,             (* per waiter: who has come                         *)
    food_ready,        (* per waiter: the customer to serve                *)
    cookqueue,         (* the orders                                       *)
    cook, waiter, customer,    (* semaphores                               *)
    removed,           (* the semaphores have been removed                 *)
    kpc, hand,         (* the cooks: program counter, order in preparation *)
    wpc, cno,          (* the waiters: counter, customer in hand           *)
    cpc, w,            (* the customers: counter, their waiter             *)
    lost               (* history: whose food was announced in vain        *)

guests == <<cpc, w>>

(* What P needs of a semaphore of value s, and what P and V leave.  Once   *)
(* the semaphores are removed semop fails, and the callers do not look.    *)
MayPass(s) == s > 0 \/ removed
Down(s) == IF removed THEN s ELSE s - 1
Up(s) == IF removed THEN s ELSE s + 1

CookMoves(k, from, to) == kpc[k] = from /\ kpc' = [kpc EXCEPT ![k] = to]
WaiterMoves(x, from, to) == wpc[x] = from /\ wpc' = [wpc EXCEPT ![x] = to]
CustomerMoves(c, from, to) == cpc[c] = from /\ cpc' = [cpc EXCEPT ![c] = to]

(* The customers whose orders are to be cooked. *)
orders == [i \in DOMAIN cookqueue |-> cookqueue[i].customer]
=============================================================================
