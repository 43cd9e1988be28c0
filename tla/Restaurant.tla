----------------------------- MODULE Restaurant -----------------------------
(***************************************************************************)
(* Lab A6, A6/LA6_Solution: the cooks, the waiters and the customers of a  *)
(* restaurant are processes that share the integers M[] under the SysV     *)
(* semaphore mutex, and call one another with the semaphores cook,         *)
(* waiter[w] and customer[c].                                              *)
(*                                                                         *)
(* Each section between P(mutex) and V(mutex) is one step, each P or V of  *)
(* another semaphore outside a section is one too.  The clock of the       *)
(* restaurant is kept only as far as the code tests it: `late' says that   *)
(* it is past 240 minutes, and as settime never sets it back, any delay    *)
(* may make it late but nothing makes it early again.                      *)
(*                                                                         *)
(* The model starts when newsemshm is done, with all processes attached.   *)
(* A customer process may be delayed at will before its first step.        *)
(***************************************************************************)
EXTENDS RestaurantState

VARIABLES
    no_of_empty_tables,
    order_pending,     (* orders not yet cooked                            *)
    new_customer,      (* per waiter, M[C]: how many have come             *)
    S                  (* the waiters' local: orders not yet served        *)

counters == <<no_of_empty_tables, next_waiter>>
kitchen == <<cookqueue, order_pending, food_ready>>
hall == <<new_customer, queue>>
cooks == <<kpc, hand>>
waiters == <<wpc, cno, S>>
vars == <<late, counters, kitchen, hall, cook, waiter, customer, removed,
          cooks, waiters, guests, lost>>

(* newsemshm and the start of cmain and wmain *)
Init ==
    /\ late = FALSE
    /\ no_of_empty_tables = NumTables /\ next_waiter = 0 /\ order_pending = 0
    /\ food_ready = [x \in Waiters |-> None]
    /\ new_customer = [x \in Waiters |-> 0]
    /\ queue = [x \in Waiters |-> <<>>]
    /\ cookqueue = <<>>
    /\ cook = 0
    /\ waiter = [x \in Waiters |-> 0]
    /\ customer = [c \in Customers |-> 0]
    /\ removed = FALSE
    /\ kpc = [k \in Cooks |-> "idle"] /\ hand = [k \in Cooks |-> None]
    /\ wpc = [x \in Waiters |-> "idle"] /\ cno = [x \in Waiters |-> None]
    /\ S = [x \in Waiters |-> 0]
    /\ cpc = [c \in Customers |-> "arriving"] /\ w = [c \in Customers |-> 0]
    /\ lost = {}

(* settime: a new time that is not earlier; a customer comes in time *)
settime == late' \in {late, TRUE}

-----------------------------------------------------------------------------
(* cook.c *)

CookWakes(k) ==
    /\ MayPass(cook)
    /\ CookMoves(k, "idle", "woken")
    /\ cook' = Down(cook)
    /\ UNCHANGED <<late, counters, kitchen, hall, waiter, customer, removed,
                   hand, waiters, guests, lost>>

(* "Why am I woken up?" *)
CookWondersWhy(k) ==
    /\ cookqueue = <<>>
    /\ CookMoves(k, "woken", "checking")
    /\ UNCHANGED <<late, counters, kitchen, hall, cook, waiter, customer,
                   removed, hand, waiters, guests, lost>>

PrepareOrder(k) ==
    /\ cookqueue # <<>>
    /\ CookMoves(k, "woken", "cooking")
    /\ hand' = [hand EXCEPT ![k] = Head(cookqueue)]
    /\ cookqueue' = Tail(cookqueue)
    /\ UNCHANGED <<late, counters, order_pending, food_ready, hall, cook,
                   waiter, customer, removed, waiters, guests, lost>>

(* The order is announced in its waiter's one place for it, whatever is    *)
(* there, ...                                                              *)
FinishOrder(k) ==
    LET x == hand[k].waiter IN
    /\ CookMoves(k, "cooking", "prepared")
    /\ settime
    /\ food_ready' = [food_ready EXCEPT ![x] = hand[k].customer]
    /\ lost' = (lost \cup {food_ready[x]}) \ {None}
    /\ order_pending' = order_pending - 1
    /\ UNCHANGED <<counters, cookqueue, hall, cook, waiter, customer, removed,
                   hand, waiters, guests>>

(* ... and the waiter is called afterwards. *)
CallWaiter(k) ==
    /\ CookMoves(k, "prepared", "checking")
    /\ waiter' = [waiter EXCEPT ![hand[k].waiter] = Up(@)]
    /\ hand' = [hand EXCEPT ![k] = None]
    /\ UNCHANGED <<late, counters, kitchen, hall, cook, customer, removed,
                   waiters, guests, lost>>

CookLeaves(k) ==
    /\ late /\ cookqueue = <<>>
    /\ CookMoves(k, "checking", "gone")
    /\ waiter' = IF order_pending = 0 THEN [x \in Waiters |-> Up(waiter[x])] ELSE waiter
    /\ UNCHANGED <<late, counters, kitchen, hall, cook, customer, removed,
                   hand, waiters, guests, lost>>

CookStays(k) ==
    /\ ~late \/ cookqueue # <<>>
    /\ CookMoves(k, "checking", "idle")
    /\ UNCHANGED <<late, counters, kitchen, hall, cook, waiter, customer,
                   removed, hand, waiters, guests, lost>>

-----------------------------------------------------------------------------
(* waiter.c *)

WaiterWakes(x) ==
    /\ MayPass(waiter[x])
    /\ WaiterMoves(x, "idle", "woken")
    /\ waiter' = [waiter EXCEPT ![x] = Down(@)]
    /\ UNCHANGED <<late, counters, kitchen, hall, cook, customer, removed,
                   cooks, cno, S, guests, lost>>

(* Mutant of FetchFood: the announcement is not cleared. *)
FetchFoodKeeps(x) ==
    /\ food_ready[x] # None
    /\ WaiterMoves(x, "woken", "serving")
    /\ cno' = [cno EXCEPT ![x] = food_ready[x]]
    /\ UNCHANGED <<late, counters, kitchen, hall, cook, waiter, customer,
                   removed, cooks, S, guests, lost>>

(* Food comes before new customers: take the announcement, ...             *)
FetchFood(x) ==
    /\ food_ready[x] # None
    /\ WaiterMoves(x, "woken", "serving")
    /\ cno' = [cno EXCEPT ![x] = food_ready[x]]
    /\ food_ready' = [food_ready EXCEPT ![x] = None]
    /\ UNCHANGED <<late, counters, cookqueue, order_pending, hall, cook, waiter,
                   customer, removed, cooks, S, guests, lost>>

(* ... and serve the customer. *)
ServeFood(x) ==
    /\ WaiterMoves(x, "serving", "checking")
    /\ customer' = [customer EXCEPT ![cno[x]] = Up(@)]
    /\ S' = [S EXCEPT ![x] = @ - 1]
    /\ cno' = [cno EXCEPT ![x] = None]
    /\ UNCHANGED <<late, counters, kitchen, hall, cook, waiter, removed, cooks,
                   guests, lost>>

TakeOrder(x) ==
    /\ food_ready[x] = None /\ new_customer[x] # 0 /\ queue[x] # <<>>
    /\ WaiterMoves(x, "woken", "noting")
    /\ cno' = [cno EXCEPT ![x] = Head(queue[x])]
    /\ queue' = [queue EXCEPT ![x] = Tail(@)]
    /\ new_customer' = [new_customer EXCEPT ![x] = @ - 1]
    /\ UNCHANGED <<late, counters, kitchen, cook, waiter, customer, removed,
                   cooks, S, guests, lost>>

(* A minute later the customer is told and the order is queued, ...        *)
PlaceOrder(x) ==
    /\ WaiterMoves(x, "noting", "placed")
    /\ settime
    /\ customer' = [customer EXCEPT ![cno[x]] = Up(@)]
    /\ cookqueue' = Append(cookqueue, [waiter |-> x, customer |-> cno[x]])
    /\ order_pending' = order_pending + 1
    /\ cno' = [cno EXCEPT ![x] = None]
    /\ UNCHANGED <<counters, food_ready, hall, cook, waiter, removed, cooks, S,
                   guests, lost>>

(* Mutant of CallCook: a cook is only called when no order was waiting. *)
CallCookIfFirst(x) ==
    /\ WaiterMoves(x, "placed", "checking")
    /\ S' = [S EXCEPT ![x] = @ + 1]
    /\ cook' = IF Len(cookqueue) = 1 THEN Up(cook) ELSE cook
    /\ UNCHANGED <<late, counters, kitchen, hall, waiter, customer, removed,
                   cooks, cno, guests, lost>>

(* ... and a cook is called. *)
CallCook(x) ==
    /\ WaiterMoves(x, "placed", "checking")
    /\ S' = [S EXCEPT ![x] = @ + 1]
    /\ cook' = Up(cook)
    /\ UNCHANGED <<late, counters, kitchen, hall, waiter, customer, removed,
                   cooks, cno, guests, lost>>

(* Called for nothing; or, "Where is the customer?" *)
WaiterFindsNothing(x) ==
    /\ food_ready[x] = None /\ (new_customer[x] = 0 \/ queue[x] = <<>>)
    /\ WaiterMoves(x, "woken", "checking")
    /\ UNCHANGED <<late, counters, kitchen, hall, cook, waiter, customer,
                   removed, cooks, cno, S, guests, lost>>

NothingToServe(x) == late /\ queue[x] = <<>> /\ S[x] = 0

WaiterLeaves(x) ==
    /\ NothingToServe(x)
    /\ WaiterMoves(x, "checking", "gone")
    /\ UNCHANGED <<late, counters, kitchen, hall, cook, waiter, customer,
                   removed, cooks, cno, S, guests, lost>>

WaiterStays(x) ==
    /\ ~NothingToServe(x)
    /\ WaiterMoves(x, "checking", "idle")
    /\ UNCHANGED <<late, counters, kitchen, hall, cook, waiter, customer,
                   removed, cooks, cno, S, guests, lost>>

-----------------------------------------------------------------------------
(* customer.c *)

(* Due after closing time, or there is no table. *)
TurnAway(c) ==
    /\ CustomerMoves(c, "arriving", "gone")
    /\ UNCHANGED <<late, counters, kitchen, hall, cook, waiter, customer,
                   removed, cooks, waiters, w, lost>>

(* The clock may be late already: the customer only looks at when it was   *)
(* due itself.                                                             *)
TakeTable(c) ==
    /\ no_of_empty_tables # 0
    /\ CustomerMoves(c, "arriving", "calling")
    /\ no_of_empty_tables' = no_of_empty_tables - 1
    /\ w' = [w EXCEPT ![c] = next_waiter]
    /\ next_waiter' = (next_waiter + 1) % NumWaiters
    /\ new_customer' = [new_customer EXCEPT ![next_waiter] = @ + 1]
    /\ queue' = [queue EXCEPT ![next_waiter] = Append(@, c)]
    /\ UNCHANGED <<late, kitchen, cook, waiter, customer, removed, cooks,
                   waiters, lost>>

(* Mutant of CallForWaiter: the customer relies on the call of the one     *)
(* before it in the queue.                                                 *)
CallForWaiterIfFirst(c) ==
    /\ CustomerMoves(c, "calling", "ordering")
    /\ waiter' = [waiter EXCEPT ![w[c]] = IF new_customer[w[c]] = 1 THEN Up(@) ELSE @]
    /\ UNCHANGED <<late, counters, kitchen, hall, cook, customer, removed,
                   cooks, waiters, w, lost>>

CallForWaiter(c) ==
    /\ CustomerMoves(c, "calling", "ordering")
    /\ waiter' = [waiter EXCEPT ![w[c]] = Up(@)]
    /\ UNCHANGED <<late, counters, kitchen, hall, cook, customer, removed,
                   cooks, waiters, w, lost>>

(* The two waits on the customer's own semaphore: first the order is       *)
(* placed, ...                                                             *)
OrderPlaced(c) ==
    /\ MayPass(customer[c])
    /\ CustomerMoves(c, "ordering", "hungry")
    /\ customer' = [customer EXCEPT ![c] = Down(@)]
    /\ UNCHANGED <<late, counters, kitchen, hall, cook, waiter, removed, cooks,
                   waiters, w, lost>>

(* Mutant of GetFood: the customer does not wait a second time. *)
GetFoodAtOnce(c) ==
    /\ CustomerMoves(c, "hungry", "eating")
    /\ UNCHANGED <<late, counters, kitchen, hall, cook, waiter, customer,
                   removed, cooks, waiters, w, lost>>

(* ... then the food is served. *)
GetFood(c) ==
    /\ MayPass(customer[c])
    /\ CustomerMoves(c, "hungry", "eating")
    /\ customer' = [customer EXCEPT ![c] = Down(@)]
    /\ UNCHANGED <<late, counters, kitchen, hall, cook, waiter, removed, cooks,
                   waiters, w, lost>>

FinishEating(c) ==
    /\ CustomerMoves(c, "eating", "gone")
    /\ settime
    /\ no_of_empty_tables' = no_of_empty_tables + 1
    /\ UNCHANGED <<next_waiter, kitchen, hall, cook, waiter, customer, removed,
                   cooks, waiters, w, lost>>

(* main: when all customers are gone, delsemshm *)
Close ==
    /\ ~removed /\ \A c \in Customers : cpc[c] = "gone"
    /\ removed' = TRUE
    /\ UNCHANGED <<late, counters, kitchen, hall, cook, waiter, customer, cooks,
                   waiters, guests, lost>>

-----------------------------------------------------------------------------
CookStep(k) ==
    \/ CookWakes(k) \/ CookWondersWhy(k) \/ PrepareOrder(k) \/ FinishOrder(k)
    \/ CallWaiter(k) \/ CookLeaves(k) \/ CookStays(k)

WaiterStep(x) ==
    \/ WaiterWakes(x) \/ FetchFood(x) \/ ServeFood(x) \/ TakeOrder(x)
    \/ PlaceOrder(x) \/ CallCook(x) \/ WaiterFindsNothing(x)
    \/ WaiterLeaves(x) \/ WaiterStays(x)

CustomerStep(c) ==
    \/ TurnAway(c) \/ TakeTable(c) \/ CallForWaiter(c) \/ OrderPlaced(c)
    \/ GetFood(c) \/ FinishEating(c)

Next ==
    \/ \E k \in Cooks : CookStep(k)
    \/ \E x \in Waiters : WaiterStep(x)
    \/ \E c \in Customers : CustomerStep(c)
    \/ Close

Spec == Init /\ [][Next]_vars

-----------------------------------------------------------------------------
(* Properties *)

(* The shape of the state; order_pending counts the orders not yet cooked, *)
(* and new_customer those in the queue.                                    *)
TypeOK ==
    /\ late \in BOOLEAN /\ removed \in BOOLEAN
    /\ no_of_empty_tables \in 0..NumTables /\ next_waiter \in Waiters
    /\ food_ready \in [Waiters -> Customers \cup {None}]
    /\ queue \in [Waiters -> Seq(Customers)] /\ cookqueue \in Seq(Orders)
    /\ \A x \in Waiters : new_customer[x] = Len(queue[x])
    /\ cook \in Nat /\ waiter \in [Waiters -> Nat] /\ customer \in [Customers -> 0..2]
    /\ kpc \in [Cooks -> {"idle", "woken", "cooking", "prepared", "checking", "gone"}]
    /\ hand \in [Cooks -> Orders \cup {None}]
    /\ wpc \in [Waiters -> {"idle", "woken", "serving", "noting", "placed",
                            "checking", "gone"}]
    /\ cno \in [Waiters -> Customers \cup {None}] /\ S \in [Waiters -> Nat]
    /\ cpc \in [Customers -> {"arriving", "calling", "ordering", "hungry",
                              "eating", "gone"}]
    /\ w \in [Customers -> Waiters] /\ lost \subseteq Customers
    /\ order_pending = Len(cookqueue) + Cardinality({k \in Cooks : kpc[k] = "cooking"})

CallsComing(x) ==
    Cardinality({c \in Customers : cpc[c] = "calling" /\ w[c] = x})
        + Cardinality({k \in Cooks : kpc[k] = "prepared" /\ hand[k].waiter = x})

(* There is a call for every order, so that "Why am I woken up?" is never  *)
(* asked before the end; and no waiter sleeps through a duty: for every    *)
(* customer in the queue and for food that is ready a call has been or     *)
(* will be made, or the waiter is awake because of it.                     *)
CallsAddUp ==
    ~removed =>
        /\ Len(cookqueue) = cook + Cardinality({k \in Cooks : kpc[k] = "woken"})
                                 + Cardinality({x \in Waiters : wpc[x] = "placed"})
        /\ \A x \in Waiters :
              Len(queue[x]) + (IF food_ready[x] = None THEN 0 ELSE 1)
                 <= waiter[x] + CallsComing(x) + (IF wpc[x] = "woken" THEN 1 ELSE 0)

(* Where a customer who sits at a table stands in the hall's queue, and    *)
(* where the order is afterwards.                                          *)
HallPlaces(c) ==
    {<<"queue", i>> : i \in {i \in DOMAIN queue[w[c]] : queue[w[c]][i] = c}}
        \cup {<<"noting", x>> : x \in {x \in Waiters : wpc[x] = "noting" /\ cno[x] = c}}

KitchenPlaces(c) ==
    LET order == [waiter |-> w[c], customer |-> c] IN
    {<<"cookqueue", i>> : i \in {i \in DOMAIN cookqueue : cookqueue[i] = order}}
        \cup {<<"cooking", k>> : k \in {k \in Cooks : kpc[k] = "cooking" /\ hand[k] = order}}
        \cup {<<"ready", x>> : x \in {x \in Waiters : food_ready[x] = c /\ x = w[c]}}
        \cup {<<"serving", x>> : x \in {x \in Waiters : wpc[x] = "serving" /\ cno[x] = c}}

(* How often c has been called since it sat down. *)
Told(c) == customer[c] + (IF cpc[c] = "hungry" THEN 1 ELSE 0)
Waiting(c) == cpc[c] \in {"calling", "ordering", "hungry"}

(* A customer at a table is in the queue, has its order in exactly one     *)
(* place, has been served, or is one whose food was announced in vain; its *)
(* semaphore says which.                                                   *)
EveryOrderSomewhere ==
    TypeOK /\ \A c \in Customers :
        LET inHall == Cardinality(HallPlaces(c))
            kitchenOrLost == Cardinality(KitchenPlaces(c)) + (IF c \in lost THEN 1 ELSE 0)
        IN  IF Waiting(c)
            THEN /\ inHall = IF Told(c) = 0 THEN 1 ELSE 0
                 /\ kitchenOrLost = IF Told(c) = 1 THEN 1 ELSE 0
                 /\ Told(c) \in 0..2
            ELSE inHall = 0 /\ kitchenOrLost = 0

(* The customers see a restaurant that cooks what is ordered, in the order *)
(* it is ordered, and feeds each with its own food.                        *)
stage ==
    [c \in Customers |->
        CASE cpc[c] = "arriving" -> "outside"
          [] Waiting(c) -> IF Told(c) = 0 THEN "seated" ELSE "ordered"
          [] cpc[c] \in {"eating", "gone"} -> cpc[c]]
stove == [k \in Cooks |-> IF kpc[k] = "cooking" THEN hand[k].customer ELSE None]
ready == {c \in Customers : stage[c] = "ordered" /\ c \notin Range(orders)
                                                 /\ c \notin Range(stove)}

Guests == INSTANCE TableService WITH free <- no_of_empty_tables

ImplementsTableService == Guests!Spec

(* What a customer can wait for in vain: a waiter who left with the        *)
(* customer in the queue, an order that no cook is left for, or food       *)
(* whose announcement was overwritten by that of another customer's.       *)
WaiterLeft(c) == wpc[w[c]] = "gone" /\ \E i \in DOMAIN queue[w[c]] : queue[w[c]][i] = c
CooksLeft(c) ==
    /\ \A k \in Cooks : kpc[k] = "gone"
    /\ \E i \in DOMAIN cookqueue : cookqueue[i].customer = c

(* No process can go on: the staff is gone or waits to be called, so do    *)
(* the customers, and main waits for them or is done.  (Written out, so    *)
(* that it can be reasoned about: it is ~ENABLED Next.)                    *)
Hangs ==
    /\ \A k \in Cooks : kpc[k] = "gone" \/ (kpc[k] = "idle" /\ ~MayPass(cook))
    /\ \A x \in Waiters : wpc[x] = "gone" \/ (wpc[x] = "idle" /\ ~MayPass(waiter[x]))
    /\ \A c \in Customers :
          cpc[c] = "gone" \/ (cpc[c] \in {"ordering", "hungry"} /\ ~MayPass(customer[c]))
    /\ removed \/ \E c \in Customers : cpc[c] # "gone"

(* The session hangs only for customers who wait for one of these reasons; *)
(* everybody else is served, and the staff goes home after the last one.   *)
UnservedExplained ==
    Hangs =>
        \A c \in Customers : Waiting(c) => c \in lost \/ WaiterLeft(c) \/ CooksLeft(c)

=============================================================================
