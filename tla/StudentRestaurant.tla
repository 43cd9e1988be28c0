------------------------- MODULE StudentRestaurant --------------------------
(***************************************************************************)
(* Lab A6, the student's program (A6/22CS30056_Sumit_Kumar): cooks,        *)
(* waiters and customers as in Restaurant, with other protocols.  A        *)
(* customer is told before its order is placed; a cook leaves only after   *)
(* an order, a waiter only after an order or when it is called for         *)
(* nothing; and each of the three programs removes all semaphores when its *)
(* own children are gone.                                                  *)
(*                                                                         *)
(* A section between Wait(mutex) and Signal(mutex) is a step, each other   *)
(* semop is one too.  Of the clock the model keeps `late', that it is past *)
(* END_TIME.  A cook sets it to what it read before plus the time spent,   *)
(* and so can set it back.                                                 *)
(*                                                                         *)
(* The model starts when the three programs have set the semaphores.  Once *)
(* they are removed the sections are no longer exclusive; what that could  *)
(* spoil is the number of tables and the ends of queues that nobody serves *)
(* any more, so the model only lets the tests of the tables come out       *)
(* either way.                                                             *)
(*                                                                         *)
(* In the program's shared_mem the cells 0 to 3 are the time, the number   *)
(* of empty tables, the next waiter and the orders pending.  What has the  *)
(* same name in both programs has an S here (or an s), so that one module  *)
(* can reason about both.                                                  *)
(***************************************************************************)
EXTENDS RestaurantState

VARIABLES
    tables,            (* shared_mem[1]                                    *)
    began              (* the cooks: late when the cook began              *)

sHall == <<tables, next_waiter, queue>>
sKitchen == <<cookqueue, food_ready>>
semaphores == <<cook, waiter, customer, removed>>
sCooks == <<kpc, hand, began>>
sWaiters == <<wpc, cno>>
sVars == <<late, sHall, sKitchen, semaphores, sCooks, sWaiters, guests, lost>>

SInit ==
    /\ late = FALSE
    /\ tables = NumTables /\ next_waiter = 0
    /\ queue = [x \in Waiters |-> <<>>]
    /\ food_ready = [x \in Waiters |-> None] /\ cookqueue = <<>>
    /\ cook = 0 /\ waiter = [x \in Waiters |-> 0]
    /\ customer = [c \in Customers |-> 0] /\ removed = FALSE
    /\ kpc = [y \in Cooks |-> "idle"] /\ hand = [y \in Cooks |-> None]
    /\ began = [y \in Cooks |-> FALSE]
    /\ wpc = [x \in Waiters |-> "idle"] /\ cno = [x \in Waiters |-> None]
    /\ cpc = [c \in Customers |-> "arriving"] /\ w = [c \in Customers |-> 0]
    /\ lost = {}

(* "if (new_time > shared_mem[0])": not earlier than it was *)
ClockAdvances == late' \in {late, TRUE}

-----------------------------------------------------------------------------
(* cook.c *)

SCookWakes(y) ==
    /\ MayPass(cook)
    /\ CookMoves(y, "idle", "woken")
    /\ cook' = Down(cook)
    /\ UNCHANGED <<late, sHall, sKitchen, waiter, customer, removed, hand, began,
                   sWaiters, guests, lost>>

(* The front of the queue is taken without asking whether there is one.    *)
(* When there is none it is 0 for a waiter and a customer.                 *)
SPrepareOrder(y) ==
    /\ CookMoves(y, "woken", "cooking")
    /\ IF cookqueue = <<>>
       THEN UNCHANGED <<hand, cookqueue>>
       ELSE /\ hand' = [hand EXCEPT ![y] = Head(cookqueue)]
            /\ cookqueue' = Tail(cookqueue)
    /\ began' = [began EXCEPT ![y] = late]
    /\ UNCHANGED <<late, sHall, food_ready, semaphores, sWaiters, guests, lost>>

WaiterOf(y) == IF hand[y] = None THEN 0 ELSE hand[y].waiter

(* The clock is set to when the cook began, and 5 minutes per person.      *)
ClockSet(y) ==
    \/ late' = began[y]
    \/ late' = TRUE /\ hand[y] # None

(* The announcement overwrites what is in its place; after closing time    *)
(* and with nothing to cook the cook leaves.                               *)
SFinishOrder(y) ==
    /\ kpc[y] = "cooking"
    /\ ClockSet(y)
    /\ LET x == WaiterOf(y) IN
       /\ food_ready' = [food_ready EXCEPT ![x] = IF hand[y] = None THEN None
                                                  ELSE hand[y].customer]
       /\ lost' = (lost \cup {food_ready[x]}) \ {None}
    /\ kpc' = [kpc EXCEPT ![y] = IF late' /\ cookqueue = <<>> THEN "leaving" ELSE "prepared"]
    /\ UNCHANGED <<sHall, cookqueue, semaphores, hand, began, sWaiters, guests>>

SCallWaiter(y) ==
    /\ CookMoves(y, "prepared", "idle") \/ CookMoves(y, "leaving", "gone")
    /\ waiter' = [waiter EXCEPT ![WaiterOf(y)] = Up(@)]
    /\ hand' = [hand EXCEPT ![y] = None] /\ began' = [began EXCEPT ![y] = FALSE]
    /\ UNCHANGED <<late, sHall, sKitchen, cook, customer, removed, sWaiters, guests, lost>>

-----------------------------------------------------------------------------
(* waiter.c *)

SWaiterWakes(x) ==
    /\ MayPass(waiter[x])
    /\ WaiterMoves(x, "idle", "woken")
    /\ waiter' = [waiter EXCEPT ![x] = Down(@)]
    /\ UNCHANGED <<late, sHall, sKitchen, cook, customer, removed, sCooks, cno,
                   guests, lost>>

SFetchFood(x) ==
    /\ food_ready[x] # None
    /\ WaiterMoves(x, "woken", "serving")
    /\ cno' = [cno EXCEPT ![x] = food_ready[x]]
    /\ food_ready' = [food_ready EXCEPT ![x] = None]
    /\ UNCHANGED <<late, sHall, cookqueue, semaphores, sCooks, guests, lost>>

(* Raises the semaphore of the customer in hand. *)
Tells(x) ==
    /\ customer' = [customer EXCEPT ![cno[x]] = Up(@)]
    /\ UNCHANGED <<late, sHall, sKitchen, cook, waiter, removed, sCooks, guests, lost>>

SServeFood(x) ==
    /\ WaiterMoves(x, "serving", "idle")
    /\ Tells(x)
    /\ cno' = [cno EXCEPT ![x] = None]

STakeOrder(x) ==
    /\ food_ready[x] = None /\ queue[x] # <<>>
    /\ WaiterMoves(x, "woken", "noting")
    /\ cno' = [cno EXCEPT ![x] = Head(queue[x])]
    /\ queue' = [queue EXCEPT ![x] = Tail(@)]
    /\ UNCHANGED <<late, tables, next_waiter, sKitchen, semaphores, sCooks, guests, lost>>

(* The customer is told first ...                                          *)
TellCustomer(x) ==
    /\ WaiterMoves(x, "noting", "placing")
    /\ Tells(x)
    /\ UNCHANGED cno

SNothingToServe(x) == queue[x] = <<>> /\ food_ready[x] = None

(* Mutant of PlaceOrder: a waiter who leaves does not call a cook. *)
SPlaceOrderSilently(x) ==
    /\ wpc[x] = "placing"
    /\ ClockAdvances
    /\ cookqueue' = Append(cookqueue, [waiter |-> x, customer |-> cno[x]])
    /\ cno' = [cno EXCEPT ![x] = None]
    /\ wpc' = [wpc EXCEPT ![x] = IF late' /\ SNothingToServe(x) THEN "gone" ELSE "placed"]
    /\ UNCHANGED <<sHall, food_ready, semaphores, sCooks, guests, lost>>

(* ... and a minute later the order is placed.  After closing time, with   *)
(* nobody in the queue and no food to serve, the waiter calls a cook in    *)
(* the same section and leaves; orders that are cooked do not count.       *)
SPlaceOrder(x) ==
    /\ wpc[x] = "placing"
    /\ ClockAdvances
    /\ cookqueue' = Append(cookqueue, [waiter |-> x, customer |-> cno[x]])
    /\ cno' = [cno EXCEPT ![x] = None]
    /\ IF late' /\ SNothingToServe(x)
       THEN wpc' = [wpc EXCEPT ![x] = "gone"] /\ cook' = Up(cook)
       ELSE wpc' = [wpc EXCEPT ![x] = "placed"] /\ UNCHANGED cook
    /\ UNCHANGED <<sHall, food_ready, waiter, customer, removed, sCooks, guests, lost>>

SCallCook(x) ==
    /\ WaiterMoves(x, "placed", "idle")
    /\ cook' = Up(cook)
    /\ UNCHANGED <<late, sHall, sKitchen, waiter, customer, removed, sCooks, cno,
                   guests, lost>>

FindNothing(x) ==
    /\ SNothingToServe(x)
    /\ WaiterMoves(x, "woken", IF late THEN "gone" ELSE "idle")
    /\ UNCHANGED <<late, sHall, sKitchen, semaphores, sCooks, cno, guests, lost>>

-----------------------------------------------------------------------------
(* customer.c *)

(* It is after closing time, by the customer's own time or by the clock,   *)
(* or there is no table.                                                   *)
STurnAway(c) ==
    /\ CustomerMoves(c, "arriving", "gone")
    /\ ClockAdvances
    /\ late' \/ tables = 0 \/ removed
    /\ UNCHANGED <<sHall, sKitchen, semaphores, sCooks, sWaiters, w, lost>>

STakeTable(c) ==
    /\ ~late /\ (tables # 0 \/ removed)
    /\ CustomerMoves(c, "arriving", "calling")
    /\ tables' = IF removed THEN tables ELSE tables - 1
    /\ w' = [w EXCEPT ![c] = next_waiter]
    /\ next_waiter' = (next_waiter + 1) % NumWaiters
    /\ queue' = [queue EXCEPT ![next_waiter] = Append(@, c)]
    /\ UNCHANGED <<late, sKitchen, semaphores, sCooks, sWaiters, lost>>

(* Mutant of CallForWaiter: the customer relies on the call of the one     *)
(* before it in the queue.                                                 *)
SCallForWaiterIfFirst(c) ==
    /\ CustomerMoves(c, "calling", "ordering")
    /\ waiter' = [waiter EXCEPT ![w[c]] = IF Len(queue[w[c]]) = 1 THEN Up(@) ELSE @]
    /\ UNCHANGED <<late, sHall, sKitchen, cook, customer, removed, sCooks, sWaiters,
                   w, lost>>

SCallForWaiter(c) ==
    /\ CustomerMoves(c, "calling", "ordering")
    /\ waiter' = [waiter EXCEPT ![w[c]] = Up(@)]
    /\ UNCHANGED <<late, sHall, sKitchen, cook, customer, removed, sCooks, sWaiters,
                   w, lost>>

(* Waits for its semaphore. *)
IsTold(c) ==
    /\ MayPass(customer[c])
    /\ customer' = [customer EXCEPT ![c] = Down(@)]
    /\ UNCHANGED <<late, sHall, sKitchen, cook, waiter, removed, sCooks, sWaiters, w, lost>>

OrderTaken(c) == CustomerMoves(c, "ordering", "told") /\ IsTold(c)

NoteTime(c) ==
    /\ CustomerMoves(c, "told", "hungry")
    /\ ClockAdvances
    /\ UNCHANGED <<sHall, sKitchen, semaphores, sCooks, sWaiters, w, lost>>

(* Mutant of GetFood: the customer does not wait a second time. *)
SGetFoodAtOnce(c) ==
    /\ CustomerMoves(c, "hungry", "eating")
    /\ UNCHANGED <<late, sHall, sKitchen, semaphores, sCooks, sWaiters, w, lost>>

SGetFood(c) == CustomerMoves(c, "hungry", "eating") /\ IsTold(c)

SFinishEating(c) ==
    /\ CustomerMoves(c, "eating", "gone")
    /\ ClockAdvances
    /\ tables' = IF removed THEN tables ELSE tables + 1
    /\ UNCHANGED <<next_waiter, queue, sKitchen, semaphores, sCooks, sWaiters, w, lost>>

-----------------------------------------------------------------------------
(* main of each program: wait for the children, then remove everything.    *)
AllGone ==
    \/ \A y \in Cooks : kpc[y] = "gone"
    \/ \A x \in Waiters : wpc[x] = "gone"
    \/ \A c \in Customers : cpc[c] = "gone"

Remove ==
    /\ ~removed /\ AllGone
    /\ removed' = TRUE
    /\ UNCHANGED <<late, sHall, sKitchen, cook, waiter, customer, sCooks, sWaiters,
                   guests, lost>>

SCookStep(y) == SCookWakes(y) \/ SPrepareOrder(y) \/ SFinishOrder(y) \/ SCallWaiter(y)
SWaiterStep(x) ==
    \/ SWaiterWakes(x) \/ SFetchFood(x) \/ SServeFood(x) \/ STakeOrder(x)
    \/ TellCustomer(x) \/ SPlaceOrder(x) \/ SCallCook(x) \/ FindNothing(x)
SCustomerStep(c) ==
    \/ STurnAway(c) \/ STakeTable(c) \/ SCallForWaiter(c) \/ OrderTaken(c)
    \/ NoteTime(c) \/ SGetFood(c) \/ SFinishEating(c)

SNext ==
    \/ \E y \in Cooks : SCookStep(y)
    \/ \E x \in Waiters : SWaiterStep(x)
    \/ \E c \in Customers : SCustomerStep(c)
    \/ Remove

SSpec == SInit /\ [][SNext]_sVars

-----------------------------------------------------------------------------
(* Properties *)

STypeOK ==
    /\ late \in BOOLEAN /\ removed \in BOOLEAN /\ lost \subseteq Customers
    /\ tables \in 0..NumTables /\ next_waiter \in Waiters
    /\ queue \in [Waiters -> Seq(Customers)] /\ cookqueue \in Seq(Orders)
    /\ food_ready \in [Waiters -> Customers \cup {None}]
    /\ cook \in Nat /\ waiter \in [Waiters -> Nat] /\ customer \in [Customers -> 0..2]
    /\ kpc \in [Cooks -> {"idle", "woken", "cooking", "prepared", "leaving", "gone"}]
    /\ hand \in [Cooks -> Orders \cup {None}] /\ began \in [Cooks -> BOOLEAN]
    /\ wpc \in [Waiters -> {"idle", "woken", "serving", "noting", "placing",
                            "placed", "gone"}]
    /\ cno \in [Waiters -> Customers \cup {None}]
    /\ cpc \in [Customers -> {"arriving", "calling", "ordering", "told", "hungry",
                              "eating", "gone"}]
    /\ w \in [Customers -> Waiters]

SCallsComing(x) ==
    Cardinality({c \in Customers : cpc[c] = "calling" /\ w[c] = x})
        + Cardinality({y \in Cooks : kpc[y] \in {"prepared", "leaving"} /\ WaiterOf(y) = x})

(* As long as there are semaphores, there is a call for every order, so    *)
(* that no cook takes one that is not there; and no waiter sleeps through  *)
(* a duty: for every customer in the queue and for food that is ready a    *)
(* call has been or will be made, or the waiter is awake because of it.    *)
CallsCoverDuties ==
    STypeOK /\ (~removed =>
        /\ Len(cookqueue) = cook + Cardinality({y \in Cooks : kpc[y] = "woken"})
                                 + Cardinality({x \in Waiters : wpc[x] = "placed"})
        /\ \A x \in Waiters :
              Len(queue[x]) + (IF food_ready[x] = None THEN 0 ELSE 1)
                 <= waiter[x] + SCallsComing(x) + (IF wpc[x] = "woken" THEN 1 ELSE 0))

(* The customer is in its waiter's queue or in the waiter's hand.          *)
InHall(c) ==
    \/ \E i \in DOMAIN queue[w[c]] : queue[w[c]][i] = c
    \/ wpc[w[c]] \in {"noting", "placing"} /\ cno[w[c]] = c

SWaiting(c) == cpc[c] \in {"calling", "ordering", "told", "hungry"}

(* What the customers see is the service of TableService, though they are  *)
(* told before the order is placed, ...                                    *)
sStage ==
    [c \in Customers |->
        CASE cpc[c] = "arriving" -> "outside"
          [] SWaiting(c) -> IF InHall(c) THEN "seated" ELSE "ordered"
          [] cpc[c] \in {"eating", "gone"} -> cpc[c]]
sStove ==
    [y \in Cooks |-> IF kpc[y] = "cooking" /\ hand[y] # None THEN hand[y].customer ELSE None]
sReady == {c \in Customers : sStage[c] = "ordered" /\ c \notin Range(orders)
                                                 /\ c \notin Range(sStove)}

SGuests == INSTANCE TableService WITH free <- tables, stage <- sStage,
                                    stove <- sStove, ready <- sReady

(* ... until one of the programs removes the semaphores. *)
ServesUntilRemoved ==
    SGuests!Init /\ [][removed \/ SGuests!Next \/ UNCHANGED SGuests!vars]_sVars

(* No process can go on: the staff is gone or waits to be called, so do    *)
(* the customers, and each program waits for its children or has removed   *)
(* the semaphores.  (Written out, so that it can be reasoned about: it is  *)
(* ~ENABLED Next.)                                                         *)
SHangs ==
    /\ \A y \in Cooks : kpc[y] = "gone" \/ (kpc[y] = "idle" /\ ~MayPass(cook))
    /\ \A x \in Waiters : wpc[x] = "gone" \/ (wpc[x] = "idle" /\ ~MayPass(waiter[x]))
    /\ \A c \in Customers :
          cpc[c] = "gone" \/ (cpc[c] \in {"ordering", "hungry"} /\ ~MayPass(customer[c]))
    /\ removed \/ ~AllGone

(* The session hangs only for customers who wait in vain for one of two    *)
(* reasons: their waiter left, or another's food was announced over        *)
(* theirs.  (When all cooks or all waiters leave, the removal of the       *)
(* semaphores ends the wait without food.)                                 *)
WaitsInVainExplained ==
    SHangs =>
        \A c \in Customers : SWaiting(c) => c \in lost \/ wpc[w[c]] = "gone"

=============================================================================
