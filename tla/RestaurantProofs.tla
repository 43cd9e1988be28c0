-------------------------- MODULE RestaurantProofs --------------------------
(***************************************************************************)
(* Proofs about the two restaurants, for any cooks, waiters, tables and    *)
(* customers: the calls cover the orders and the duties, every order is in *)
(* one place, each customer eats what was cooked for it, and a session can *)
(* only hang for the named reasons.                                        *)
(*                                                                         *)
(* Both invariants speak of what a customer has been told and of where its *)
(* order is.  The many steps of the processes have few effects on these:   *)
(* SitsIn, IsAskedIn, IsNotedIn, IsCookedIn, IsReadyIn, IsFetchedIn,       *)
(* IsServedIn and EatsIn are all there are.  Each is shown once to keep    *)
(* the hall and the kitchen in order and to be, or to hide in, a step of   *)
(* the table service; then each program is shown to have no other effects. *)
(***************************************************************************)
EXTENDS Restaurant, StudentRestaurant, FiniteSetTheorems, SequenceTheorems, TLAPS

(* What a pan holds that holds no order. *)
NoOrder == CHOOSE e : e \notin Orders

-----------------------------------------------------------------------------
(* The queues *)

(* A queue is a function on its positions; an entry goes to its end, ...   *)
LEMMA EntryAdded ==
    ASSUME NEW T, NEW s \in Seq(T), NEW e \in T
    PROVE  /\ Append(s, e) \in Seq(T)
           /\ Len(s) \in Nat /\ DOMAIN s = 1..Len(s) /\ Len(Append(s, e)) = Len(s) + 1
           /\ DOMAIN Append(s, e) = 1..(Len(s) + 1)
           /\ \A i \in 1..Len(s) : Append(s, e)[i] = s[i]
           /\ Append(s, e)[Len(s) + 1] = e
BY LenProperties, AppendProperties

(* ... and is taken from its front. *)
LEMMA EntryTaken ==
    ASSUME NEW T, NEW s \in Seq(T), s # <<>>
    PROVE  /\ Tail(s) \in Seq(T) /\ Head(s) \in T /\ Head(s) = s[1]
           /\ Len(s) \in Nat /\ DOMAIN s = 1..Len(s) /\ Len(s) > 0
           /\ Len(Tail(s)) = Len(s) - 1 /\ DOMAIN Tail(s) = 1..(Len(s) - 1)
           /\ \A i \in 1..(Len(s) - 1) : Tail(s)[i] = s[i + 1]
BY LenProperties, HeadTailProperties

(* An order is for a waiter and a customer. *)
LEMMA OrderIs ==
    \A e \in Orders : e.waiter \in Waiters /\ e.customer \in Customers
BY DEF Orders

-----------------------------------------------------------------------------
(* The places of the customers and their orders *)

(* The proofs look at a restaurant s as this record: how far each customer *)
(* is (told), who waits in the hall for which waiter (w, queue, note), and *)
(* where the orders are (cookqueue, pan, food_ready, tray, lost).          *)
PlacesIn(s) ==
    /\ s.told \in [Customers -> 0..3] /\ s.w \in [Customers -> Waiters]
    /\ s.queue \in [Waiters -> Seq(Customers)]
    /\ s.note \in [Waiters -> Customers \cup {None}]
    /\ s.cookqueue \in Seq(Orders) /\ s.pan \in [Cooks -> Orders \cup {NoOrder}]
    /\ s.food_ready \in [Waiters -> Customers \cup {None}]
    /\ s.tray \in [Waiters -> Customers \cup {None}] /\ s.lost \subseteq Customers

(* A customer whose order is not noted is in the queue of its waiter, or   *)
(* its waiter is about to note it.                                         *)
QueuedIn(s, c) == \E i \in DOMAIN s.queue[s.w[c]] : s.queue[s.w[c]][i] = c
HallIn(s) ==
    /\ \A x \in Waiters : \A i \in DOMAIN s.queue[x] :
          s.told[s.queue[x][i]] = 0 /\ s.w[s.queue[x][i]] = x
    /\ \A x \in Waiters : \A i, j \in DOMAIN s.queue[x] :
          s.queue[x][i] = s.queue[x][j] => i = j
    /\ \A x \in Waiters : s.note[x] # None => s.told[s.note[x]] = 0 /\ s.w[s.note[x]] = x
    /\ \A c \in Customers : s.told[c] = 0 => QueuedIn(s, c) \/ s.note[s.w[c]] = c
    /\ \A c \in Customers : ~(QueuedIn(s, c) /\ s.note[s.w[c]] = c)

(* A customer whose order is noted and not served has it in one place.     *)
ToCookIn(s, c)  == \E i \in DOMAIN s.cookqueue : s.cookqueue[i].customer = c
OnStoveIn(s, c) == \E k \in Cooks : s.pan[k] # NoOrder /\ s.pan[k].customer = c
ReadyIn(s, c)   == s.food_ready[s.w[c]] = c
ServingIn(s, c) == s.tray[s.w[c]] = c
OnePlaceIn(s, c) ==
    \/  ToCookIn(s, c) /\ ~OnStoveIn(s, c) /\ ~ReadyIn(s, c) /\ ~ServingIn(s, c)
       /\ c \notin s.lost
    \/ ~ToCookIn(s, c) /\  OnStoveIn(s, c) /\ ~ReadyIn(s, c) /\ ~ServingIn(s, c)
       /\ c \notin s.lost
    \/ ~ToCookIn(s, c) /\ ~OnStoveIn(s, c) /\  ReadyIn(s, c) /\ ~ServingIn(s, c)
       /\ c \notin s.lost
    \/ ~ToCookIn(s, c) /\ ~OnStoveIn(s, c) /\ ~ReadyIn(s, c) /\  ServingIn(s, c)
       /\ c \notin s.lost
    \/ ~ToCookIn(s, c) /\ ~OnStoveIn(s, c) /\ ~ReadyIn(s, c) /\ ~ServingIn(s, c)
       /\ c \in s.lost
KitchenIn(s) ==
    /\ \A i \in DOMAIN s.cookqueue : /\ s.told[s.cookqueue[i].customer] = 1
                                     /\ s.cookqueue[i].waiter = s.w[s.cookqueue[i].customer]
    /\ \A i, j \in DOMAIN s.cookqueue :
          s.cookqueue[i].customer = s.cookqueue[j].customer => i = j
    /\ \A k \in Cooks : s.pan[k] # NoOrder => /\ s.told[s.pan[k].customer] = 1
                                           /\ s.pan[k].waiter = s.w[s.pan[k].customer]
    /\ \A k, l \in Cooks : s.pan[k] # NoOrder /\ s.pan[l] # NoOrder
                              /\ s.pan[k].customer = s.pan[l].customer => k = l
    /\ \A x \in Waiters : s.food_ready[x] # None =>
          s.told[s.food_ready[x]] = 1 /\ s.w[s.food_ready[x]] = x
    /\ \A x \in Waiters : s.tray[x] # None => s.told[s.tray[x]] = 1 /\ s.w[s.tray[x]] = x
    /\ \A c \in s.lost : s.told[c] = 1
    /\ \A c \in Customers : s.told[c] = 1 => OnePlaceIn(s, c)

(* A customer sits down at a table of waiter x, ...                        *)
SitsIn(s, z, c, x) ==
    /\ s.told[c] = 3 /\ z.told = [s.told EXCEPT ![c] = 0]
    /\ z.w = [s.w EXCEPT ![c] = x]
    /\ z.queue = [s.queue EXCEPT ![x] = Append(@, c)]
    /\ z.note = s.note /\ z.cookqueue = s.cookqueue /\ z.pan = s.pan
    /\ z.food_ready = s.food_ready /\ z.tray = s.tray /\ z.lost = s.lost

(* ... is taken from the queue, ...                                        *)
IsAskedIn(s, z, c, x) ==
    /\ s.queue[x] # <<>> /\ c = Head(s.queue[x]) /\ s.note[x] = None
    /\ z.queue = [s.queue EXCEPT ![x] = Tail(@)]
    /\ z.note = [s.note EXCEPT ![x] = c]
    /\ z.told = s.told /\ z.w = s.w /\ z.cookqueue = s.cookqueue /\ z.pan = s.pan
    /\ z.food_ready = s.food_ready /\ z.tray = s.tray /\ z.lost = s.lost

(* ... its order goes to the kitchen, ...                                  *)
IsNotedIn(s, z, c, x) ==
    /\ s.note[x] = c /\ z.note = [s.note EXCEPT ![x] = None]
    /\ z.told = [s.told EXCEPT ![c] = 1]
    /\ z.cookqueue = Append(s.cookqueue, [waiter |-> x, customer |-> c])
    /\ z.w = s.w /\ z.queue = s.queue /\ z.pan = s.pan
    /\ z.food_ready = s.food_ready /\ z.tray = s.tray /\ z.lost = s.lost

(* ... is put on the stove, ...                                            *)
IsCookedIn(s, z, k) ==
    /\ s.cookqueue # <<>> /\ s.pan[k] = NoOrder
    /\ z.pan = [s.pan EXCEPT ![k] = Head(s.cookqueue)]
    /\ z.cookqueue = Tail(s.cookqueue)
    /\ z.told = s.told /\ z.w = s.w /\ z.queue = s.queue /\ z.note = s.note
    /\ z.food_ready = s.food_ready /\ z.tray = s.tray /\ z.lost = s.lost

(* ... and announced, perhaps in the place of another announcement; ...    *)
IsReadyIn(s, z, k) ==
    LET x == s.pan[k].waiter IN
    /\ s.pan[k] # NoOrder /\ z.pan = [s.pan EXCEPT ![k] = NoOrder]
    /\ z.food_ready = [s.food_ready EXCEPT ![x] = s.pan[k].customer]
    /\ z.lost = (s.lost \cup {s.food_ready[x]}) \ {None}
    /\ z.told = s.told /\ z.w = s.w /\ z.queue = s.queue /\ z.note = s.note
    /\ z.cookqueue = s.cookqueue /\ z.tray = s.tray

(* ... it is fetched, ...                                                  *)
IsFetchedIn(s, z, c, x) ==
    /\ s.food_ready[x] = c /\ s.tray[x] = None
    /\ z.food_ready = [s.food_ready EXCEPT ![x] = None]
    /\ z.tray = [s.tray EXCEPT ![x] = c]
    /\ z.told = s.told /\ z.w = s.w /\ z.queue = s.queue /\ z.note = s.note
    /\ z.cookqueue = s.cookqueue /\ z.pan = s.pan /\ z.lost = s.lost

(* ... served, ...                                                         *)
IsServedIn(s, z, c, x) ==
    /\ s.tray[x] = c /\ z.tray = [s.tray EXCEPT ![x] = None]
    /\ z.told = [s.told EXCEPT ![c] = 2]
    /\ z.w = s.w /\ z.queue = s.queue /\ z.note = s.note /\ z.cookqueue = s.cookqueue
    /\ z.pan = s.pan /\ z.food_ready = s.food_ready /\ z.lost = s.lost

(* ... and eaten.                                                          *)
EatsIn(s, z, c) ==
    /\ s.told[c] = 2 /\ z.told = [s.told EXCEPT ![c] = 3]
    /\ z.w = s.w /\ z.queue = s.queue /\ z.note = s.note /\ z.cookqueue = s.cookqueue
    /\ z.pan = s.pan /\ z.food_ready = s.food_ready /\ z.tray = s.tray /\ z.lost = s.lost

SameIn(s, z) ==
    /\ z.told = s.told /\ z.w = s.w /\ z.queue = s.queue /\ z.note = s.note
    /\ z.cookqueue = s.cookqueue /\ z.pan = s.pan /\ z.food_ready = s.food_ready
    /\ z.tray = s.tray /\ z.lost = s.lost

(* What any of the values are not. *)
LEMMA Basics ==
    /\ None \notin Customers /\ NoOrder \notin Orders
    /\ \A e \in Orders : e.waiter \in Waiters /\ e.customer \in Customers
BY RestaurantAssumption, OrderIs, NoSetContainsEverything DEF RestaurantAssumption, NoOrder

-----------------------------------------------------------------------------
(* The hall *)

(* A customer that sits down joins the queue of its waiter; ...            *)
LEMMA SitsHall ==
    ASSUME NEW s, NEW z, PlacesIn(s), HallIn(s), NEW c \in Customers, NEW x \in Waiters,
           SitsIn(s, z, c, x)
    PROVE  HallIn(z)
<1> DEFINE n == Len(s.queue[x])
<1>1. /\ s.queue[x] \in Seq(Customers) /\ n \in Nat /\ DOMAIN s.queue[x] = 1..n
      /\ z.queue = [s.queue EXCEPT ![x] = Append(@, c)] /\ DOMAIN s.queue = Waiters
      /\ \A y \in Waiters : s.queue[y] \in Seq(Customers)
      /\ z.note = s.note
      BY LenProperties DEF PlacesIn, SitsIn
<1>2. /\ DOMAIN z.queue[x] = 1..(n + 1) /\ z.queue[x][n + 1] = c
      /\ \A i \in 1..n : z.queue[x][i] = s.queue[x][i]
      /\ \A y \in Waiters : y # x => z.queue[y] = s.queue[y]
      BY <1>1, EntryAdded
<1>3. /\ s.told[c] = 3 /\ z.told[c] = 0 /\ \A d \in Customers : d # c => z.told[d] = s.told[d]
      /\ z.w[c] = x /\ \A d \in Customers : d # c => z.w[d] = s.w[d] /\ z.w[d] \in Waiters
      BY Basics DEF SitsIn, PlacesIn
<1>4. ASSUME NEW y \in Waiters, NEW i \in DOMAIN s.queue[y]
      PROVE  s.queue[y][i] \in Customers /\ s.queue[y][i] # c
      BY <1>1, <1>3, LenProperties, ElementOfSeq DEF HallIn
<1>5. ASSUME NEW y \in Waiters, s.note[y] # None
      PROVE  s.note[y] \in Customers /\ s.note[y] # c
      BY <1>5, <1>3, Basics DEF HallIn, PlacesIn
<1> HIDE DEF n
<1>6. \A y \in Waiters : \A i \in DOMAIN z.queue[y] :
         z.told[z.queue[y][i]] = 0 /\ z.w[z.queue[y][i]] = y
  <2> SUFFICES ASSUME NEW y \in Waiters, NEW i \in DOMAIN z.queue[y]
               PROVE  z.told[z.queue[y][i]] = 0 /\ z.w[z.queue[y][i]] = y
      OBVIOUS
  <2>1. CASE y # x \/ i # n + 1
    <3>1. i \in DOMAIN s.queue[y] /\ z.queue[y][i] = s.queue[y][i]
          BY <2>1, <1>1, <1>2
    <3> QED BY <3>1, <1>3, <1>4 DEF HallIn
  <2>2. CASE y = x /\ i = n + 1
        BY <2>2, <1>2, <1>3
  <2> QED BY <2>1, <2>2
<1>7. \A y \in Waiters : \A i, j \in DOMAIN z.queue[y] : z.queue[y][i] = z.queue[y][j] => i = j
  <2> SUFFICES ASSUME NEW y \in Waiters, NEW i \in DOMAIN z.queue[y],
                      NEW j \in DOMAIN z.queue[y],
                      z.queue[y][i] = z.queue[y][j]
               PROVE  i = j
      OBVIOUS
  <2>1. CASE y # x
        BY <2>1, <1>2 DEF HallIn
  <2>2. CASE y = x
    <3>1. \A k, l \in 1..n : s.queue[x][k] = s.queue[x][l] => k = l
          BY <1>1 DEF HallIn
    <3>2. \A k \in 1..n : s.queue[x][k] # c
          BY <1>1, <1>4
    <3> QED BY <2>2, <3>1, <3>2, <1>1, <1>2
  <2> QED BY <2>1, <2>2
<1>8. \A y \in Waiters : z.note[y] # None => z.told[z.note[y]] = 0 /\ z.w[z.note[y]] = y
      BY <1>1, <1>3, <1>5 DEF HallIn
<1>9. ASSUME NEW d \in Customers, d # c
      PROVE  QueuedIn(z, d) <=> QueuedIn(s, d)
  <2> DEFINE y == s.w[d]
  <2>1. y \in Waiters /\ z.w[d] = y
        BY <1>9, <1>3
  <2>2. (\E i \in DOMAIN z.queue[y] : z.queue[y][i] = d)
           <=> (\E i \in DOMAIN s.queue[y] : s.queue[y][i] = d)
    <3>1. CASE y # x
          BY <3>1, <2>1, <1>2
    <3>2. CASE y = x
      <4>1. \A i \in DOMAIN z.queue[x] :
                  z.queue[x][i] = d => i \in DOMAIN s.queue[x] /\ s.queue[x][i] = d
            BY <1>1, <1>2, <1>9
      <4>2. \A i \in DOMAIN s.queue[x] :
                  i \in DOMAIN z.queue[x] /\ z.queue[x][i] = s.queue[x][i]
            BY <1>1, <1>2
      <4> QED BY <3>2, <4>1, <4>2
    <3> QED BY <3>1, <3>2
  <2> QED BY <2>1, <2>2 DEF QueuedIn
<1>10. QueuedIn(z, c) /\ z.note[z.w[c]] # c
  <2>1. QueuedIn(z, c)
        BY <1>1, <1>2, <1>3 DEF QueuedIn
  <2>2. s.note[x] # c
        BY <1>5, Basics
  <2> QED BY <2>1, <2>2, <1>1, <1>3
<1>11. \A d \in Customers : d # c => /\ z.told[d] = 0 => QueuedIn(z, d) \/ z.note[z.w[d]] = d
                                     /\ ~(QueuedIn(z, d) /\ z.note[z.w[d]] = d)
       BY <1>1, <1>3, <1>9 DEF HallIn
<1>12. \A d \in Customers : /\ z.told[d] = 0 => QueuedIn(z, d) \/ z.note[z.w[d]] = d
                            /\ ~(QueuedIn(z, d) /\ z.note[z.w[d]] = d)
       BY <1>10, <1>11
<1> QED BY <1>6, <1>7, <1>8, <1>12 DEF HallIn

(* ... is taken from the front of it; ...                                  *)
LEMMA IsAskedHall ==
    ASSUME NEW s, NEW z, PlacesIn(s), HallIn(s), NEW c \in Customers, NEW x \in Waiters,
           IsAskedIn(s, z, c, x)
    PROVE  HallIn(z)
<1> DEFINE n == Len(s.queue[x])
<1>1. /\ s.queue[x] \in Seq(Customers) /\ n \in Nat /\ n > 0 /\ DOMAIN s.queue[x] = 1..n
      /\ z.queue = [s.queue EXCEPT ![x] = Tail(@)] /\ DOMAIN s.queue = Waiters
      /\ c = s.queue[x][1] /\ z.told = s.told /\ z.w = s.w
      BY EntryTaken DEF PlacesIn, IsAskedIn
<1>2. /\ DOMAIN z.queue[x] = 1..(n - 1)
      /\ \A i \in 1..(n - 1) : z.queue[x][i] = s.queue[x][i + 1]
      /\ \A y \in Waiters : y # x => z.queue[y] = s.queue[y]
      BY <1>1, EntryTaken DEF IsAskedIn
<1>3. /\ s.note[x] = None /\ z.note[x] = c /\ \A y \in Waiters : y # x => z.note[y] = s.note[y]
      /\ c # None
      BY Basics DEF IsAskedIn, PlacesIn
<1>4. s.told[c] = 0 /\ s.w[c] = x
      BY <1>1 DEF HallIn
<1>5. \A i \in 1..n : s.queue[x][i] = c => i = 1
      BY <1>1 DEF HallIn
<1> HIDE DEF n
<1>6. \A y \in Waiters : \A i \in DOMAIN z.queue[y] :
         \E k \in DOMAIN s.queue[y] : z.queue[y][i] = s.queue[y][k]
  <2>1. \A i \in 1..(n - 1) : i + 1 \in 1..n
        BY <1>1
  <2> QED BY <2>1, <1>1, <1>2
<1>7. \A y \in Waiters : \A i \in DOMAIN z.queue[y] :
         z.told[z.queue[y][i]] = 0 /\ z.w[z.queue[y][i]] = y
      BY <1>1, <1>6 DEF HallIn
<1>8. \A y \in Waiters : \A i, j \in DOMAIN z.queue[y] : z.queue[y][i] = z.queue[y][j] => i = j
  <2> SUFFICES ASSUME NEW y \in Waiters, NEW i \in DOMAIN z.queue[y],
                      NEW j \in DOMAIN z.queue[y],
                      z.queue[y][i] = z.queue[y][j]
               PROVE  i = j
      OBVIOUS
  <2>1. CASE y # x
        BY <2>1, <1>2 DEF HallIn
  <2>2. CASE y = x
    <3>1. \A k, l \in 1..n : s.queue[x][k] = s.queue[x][l] => k = l
          BY <1>1 DEF HallIn
    <3>2. i \in 1..(n - 1) /\ j \in 1..(n - 1) /\ i + 1 \in 1..n /\ j + 1 \in 1..n
          BY <2>2, <1>1, <1>2
    <3> QED BY <2>2, <3>1, <3>2, <1>2
  <2> QED BY <2>1, <2>2
<1>9. \A y \in Waiters : z.note[y] # None => z.told[z.note[y]] = 0 /\ z.w[z.note[y]] = y
      BY <1>1, <1>3, <1>4 DEF HallIn
<1>10. ~QueuedIn(z, c) /\ z.note[z.w[c]] = c
  <2>1. \A i \in 1..(n - 1) : z.queue[x][i] # c
    <3>1. \A i \in 1..(n - 1) : i + 1 \in 1..n /\ i + 1 # 1
          BY <1>1
    <3> QED BY <3>1, <1>2, <1>5
  <2> QED BY <2>1, <1>1, <1>2, <1>3, <1>4 DEF QueuedIn
<1>11. ASSUME NEW d \in Customers, d # c
       PROVE  (QueuedIn(z, d) <=> QueuedIn(s, d)) /\ (z.note[s.w[d]] = d <=> s.note[s.w[d]] = d)
  <2> DEFINE y == s.w[d]
  <2>1. y \in Waiters
        BY DEF PlacesIn
  <2>2. (\E i \in DOMAIN z.queue[y] : z.queue[y][i] = d)
           <=> (\E i \in DOMAIN s.queue[y] : s.queue[y][i] = d)
    <3>1. CASE y # x
          BY <3>1, <2>1, <1>2
    <3>2. CASE y = x
      <4>1. \A i \in DOMAIN s.queue[x] : s.queue[x][i] = d =>
               i - 1 \in DOMAIN z.queue[x] /\ z.queue[x][i - 1] = d
        <5> SUFFICES ASSUME NEW i \in DOMAIN s.queue[x], s.queue[x][i] = d
                     PROVE  i - 1 \in DOMAIN z.queue[x] /\ z.queue[x][i - 1] = d
            OBVIOUS
        <5>1. i \in 1..n /\ i # 1
              BY <1>1, <1>11
        <5>2. i - 1 \in 1..(n - 1) /\ (i - 1) + 1 = i
              BY <5>1, <1>1
        <5> QED BY <5>2, <1>2
      <4> QED BY <3>2, <4>1, <1>6, <2>1
    <3> QED BY <3>1, <3>2
  <2>3. z.note[y] = d <=> s.note[y] = d
        BY <1>3, <1>11, <2>1, Basics
  <2> QED BY <2>1, <2>2, <2>3, <1>1 DEF QueuedIn
<1>12. \A d \in Customers : d # c => /\ z.told[d] = 0 => QueuedIn(z, d) \/ z.note[z.w[d]] = d
                                     /\ ~(QueuedIn(z, d) /\ z.note[z.w[d]] = d)
       BY <1>1, <1>11 DEF HallIn
<1>13. \A d \in Customers : /\ z.told[d] = 0 => QueuedIn(z, d) \/ z.note[z.w[d]] = d
                            /\ ~(QueuedIn(z, d) /\ z.note[z.w[d]] = d)
       BY <1>10, <1>12
<1> QED BY <1>7, <1>8, <1>9, <1>13 DEF HallIn

(* ... leaves the hall when its order is noted; ...                        *)
LEMMA IsNotedHall ==
    ASSUME NEW s, NEW z, PlacesIn(s), HallIn(s), NEW c \in Customers, NEW x \in Waiters,
           IsNotedIn(s, z, c, x)
    PROVE  HallIn(z)
<1>1. /\ c # None /\ s.note[x] = c /\ s.told[c] = 0 /\ s.w[c] = x
      BY Basics DEF IsNotedIn, HallIn, PlacesIn
<1>2. /\ z.queue = s.queue /\ z.w = s.w
      /\ z.note[x] = None /\ \A y \in Waiters : y # x => z.note[y] = s.note[y]
      /\ z.told[c] = 1 /\ \A d \in Customers : d # c => z.told[d] = s.told[d]
      BY Basics DEF IsNotedIn, PlacesIn
<1>3. ~QueuedIn(s, c)
      BY <1>1 DEF HallIn
<1>4. \A d \in Customers : QueuedIn(z, d) <=> QueuedIn(s, d)
      BY <1>2 DEF QueuedIn
<1>5. ASSUME NEW y \in Waiters, NEW i \in DOMAIN s.queue[y]
      PROVE  s.queue[y][i] \in Customers /\ s.queue[y][i] # c
  <2>1. s.queue[y][i] \in Customers
        BY LenProperties, ElementOfSeq DEF PlacesIn
  <2>2. s.w[s.queue[y][i]] = y
        BY DEF HallIn
  <2> QED BY <2>1, <2>2, <1>1, <1>3 DEF QueuedIn
<1>6. \A y \in Waiters : y # x /\ s.note[y] # None => s.note[y] \in Customers /\ s.note[y] # c
      BY <1>1, Basics DEF HallIn, PlacesIn
<1>7. \A d \in Customers : s.w[d] \in Waiters
      BY DEF PlacesIn
<1>8. \A d \in Customers : /\ z.told[d] = 0 => QueuedIn(z, d) \/ z.note[z.w[d]] = d
                           /\ ~(QueuedIn(z, d) /\ z.note[z.w[d]] = d)
      BY <1>1, <1>2, <1>3, <1>4, <1>7, Basics DEF HallIn
<1>9. \A y \in Waiters : \A i \in DOMAIN z.queue[y] :
         z.told[z.queue[y][i]] = 0 /\ z.w[z.queue[y][i]] = y
      BY <1>2, <1>5 DEF HallIn
<1>10. \A y \in Waiters : z.note[y] # None => z.told[z.note[y]] = 0 /\ z.w[z.note[y]] = y
      BY <1>2, <1>6 DEF HallIn
<1> QED BY <1>2, <1>8, <1>9, <1>10 DEF HallIn

(* ... and does not come back when it is told that its food is served, and *)
(* when it eats.                                                           *)
LEMMA TellsHall ==
    ASSUME NEW s, NEW z, PlacesIn(s), HallIn(s), NEW c \in Customers, NEW n \in {2, 3},
           s.told[c] \in {1, 2},
           z.told = [s.told EXCEPT ![c] = n], z.w = s.w /\ z.queue = s.queue /\ z.note = s.note
    PROVE  HallIn(z)
<1>1. /\ s.told[c] # 0 /\ z.told[c] # 0 /\ \A d \in Customers : d # c => z.told[d] = s.told[d]
      BY Basics DEF PlacesIn
<1>2. ASSUME NEW y \in Waiters, NEW i \in DOMAIN s.queue[y]
      PROVE  s.queue[y][i] \in Customers /\ s.queue[y][i] # c
  <2>1. s.queue[y][i] \in Customers
        BY LenProperties, ElementOfSeq DEF PlacesIn
  <2>2. s.told[s.queue[y][i]] = 0
        BY DEF HallIn
  <2> QED BY <2>1, <2>2, <1>1
<1>3. \A y \in Waiters : s.note[y] # None => s.note[y] \in Customers /\ s.note[y] # c
      BY <1>1, Basics DEF HallIn, PlacesIn
<1>4. \A d \in Customers : QueuedIn(z, d) <=> QueuedIn(s, d)
      BY DEF QueuedIn
<1> QED BY <1>1, <1>2, <1>3, <1>4 DEF HallIn

-----------------------------------------------------------------------------
(* The kitchen *)

(* Who is in the kitchen with an order. *)
LEMMA InKitchen ==
    ASSUME NEW s, PlacesIn(s), KitchenIn(s)
    PROVE  /\ \A i \in DOMAIN s.cookqueue : s.cookqueue[i] \in Orders
                 /\ s.cookqueue[i].customer \in Customers
                 /\ s.told[s.cookqueue[i].customer] = 1
           /\ \A k \in Cooks : s.pan[k] # NoOrder => s.pan[k] \in Orders
                 /\ s.pan[k].customer \in Customers /\ s.told[s.pan[k].customer] = 1
           /\ \A x \in Waiters : s.food_ready[x] # None =>
                 s.food_ready[x] \in Customers /\ s.told[s.food_ready[x]] = 1
           /\ \A x \in Waiters :
                 s.tray[x] # None => s.tray[x] \in Customers /\ s.told[s.tray[x]] = 1
           /\ \A d \in s.lost : d \in Customers /\ s.told[d] = 1
<1>1. \A i \in DOMAIN s.cookqueue : s.cookqueue[i] \in Orders
      BY LenProperties, ElementOfSeq DEF PlacesIn
<1>2. \A k \in Cooks : s.pan[k] # NoOrder => s.pan[k] \in Orders
      BY Basics DEF PlacesIn
<1>3. \A x \in Waiters : s.food_ready[x] # None => s.food_ready[x] \in Customers
      BY DEF PlacesIn
<1>4. \A x \in Waiters : s.tray[x] # None => s.tray[x] \in Customers
      BY Basics DEF PlacesIn
<1> QED BY <1>1, <1>2, <1>3, <1>4, OrderIs DEF KitchenIn, PlacesIn

(* What happens to a customer without an order there is of no concern.     *)
LEMMA OthersKitchen ==
    ASSUME NEW s, NEW z, PlacesIn(s), KitchenIn(s), NEW c \in Customers, s.told[c] # 1,
           z.told[c] # 1,
           \A d \in Customers : d # c => z.told[d] = s.told[d] /\ z.w[d] = s.w[d],
           z.cookqueue = s.cookqueue /\ z.pan = s.pan /\ z.food_ready = s.food_ready
           /\ z.tray = s.tray /\ z.lost = s.lost
    PROVE  KitchenIn(z)
<1>1. ASSUME NEW d \in Customers, s.told[d] = 1
      PROVE  d # c /\ z.told[d] = 1 /\ z.w[d] = s.w[d]
      BY <1>1
<1>2. ASSUME NEW d \in Customers, z.told[d] = 1 PROVE OnePlaceIn(z, d)
  <2>1. d # c /\ s.told[d] = 1 /\ z.w[d] = s.w[d]
        BY <1>2
  <2>2. OnePlaceIn(s, d)
        BY <2>1 DEF KitchenIn
  <2> QED BY <2>1, <2>2 DEF OnePlaceIn, ToCookIn, OnStoveIn, ReadyIn, ServingIn
<1>3. /\ \A i \in DOMAIN z.cookqueue : /\ z.told[z.cookqueue[i].customer] = 1
                                      /\ z.cookqueue[i].waiter = z.w[z.cookqueue[i].customer]
      /\ \A i, j \in DOMAIN z.cookqueue :
            z.cookqueue[i].customer = z.cookqueue[j].customer => i = j
      BY <1>1, InKitchen DEF KitchenIn
<1>4. /\ \A k \in Cooks : z.pan[k] # NoOrder => /\ z.told[z.pan[k].customer] = 1
                                             /\ z.pan[k].waiter = z.w[z.pan[k].customer]
      /\ \A k, l \in Cooks : z.pan[k] # NoOrder /\ z.pan[l] # NoOrder
                              /\ z.pan[k].customer = z.pan[l].customer => k = l
      BY <1>1, InKitchen DEF KitchenIn
<1>5. /\ \A x \in Waiters : z.food_ready[x] # None =>
             z.told[z.food_ready[x]] = 1 /\ z.w[z.food_ready[x]] = x
      /\ \A x \in Waiters : z.tray[x] # None => z.told[z.tray[x]] = 1 /\ z.w[z.tray[x]] = x
      /\ \A d \in z.lost : z.told[d] = 1
      BY <1>1, InKitchen DEF KitchenIn
<1> QED BY <1>2, <1>3, <1>4, <1>5 DEF KitchenIn

(* An order that is noted goes to the end of the queue; ...                *)
LEMMA IsNotedKitchen ==
    ASSUME NEW s, NEW z, PlacesIn(s), HallIn(s), KitchenIn(s), NEW c \in Customers,
           NEW x \in Waiters, IsNotedIn(s, z, c, x)
    PROVE  KitchenIn(z)
<1> DEFINE n == Len(s.cookqueue)
           e == [waiter |-> x, customer |-> c]
<1>1. /\ c # None /\ s.told[c] = 0 /\ s.w[c] = x
      BY Basics DEF IsNotedIn, HallIn, PlacesIn
<1>2. /\ z.told[c] = 1 /\ \A d \in Customers : d # c => z.told[d] = s.told[d]
      /\ z.w = s.w /\ z.pan = s.pan /\ z.food_ready = s.food_ready /\ z.tray = s.tray
      /\ z.lost = s.lost
      /\ z.cookqueue = Append(s.cookqueue, e)
      BY Basics DEF IsNotedIn, PlacesIn
<1>3. /\ s.cookqueue \in Seq(Orders) /\ n \in Nat /\ DOMAIN s.cookqueue = 1..n
      /\ DOMAIN z.cookqueue = 1..(n + 1) /\ z.cookqueue[n + 1] = e
      /\ \A i \in 1..n : z.cookqueue[i] = s.cookqueue[i]
  <2>1. e \in Orders /\ s.cookqueue \in Seq(Orders)
        BY DEF Orders, PlacesIn
  <2> QED BY <2>1, <1>2, EntryAdded
<1>4. e.customer = c /\ e.waiter = x
      OBVIOUS
<1> HIDE DEF n, e
<1>5. /\ \A i \in 1..n : s.cookqueue[i].customer # c
      /\ \A k \in Cooks : s.pan[k] # NoOrder => s.pan[k].customer # c
      /\ \A y \in Waiters : s.food_ready[y] # c /\ s.tray[y] # c
      /\ c \notin s.lost
      BY <1>1, <1>3, InKitchen
<1>6. ASSUME NEW d \in Customers, d # c, z.told[d] = 1 PROVE OnePlaceIn(z, d)
  <2>1. ToCookIn(z, d) <=> ToCookIn(s, d)
    <3>1. \A i \in 1..(n + 1) : z.cookqueue[i].customer = d =>
             i \in 1..n /\ s.cookqueue[i].customer = d
          BY <1>3, <1>4, <1>6
    <3>2. \A i \in 1..n : i \in 1..(n + 1) /\ z.cookqueue[i] = s.cookqueue[i]
          BY <1>3
    <3> QED BY <3>1, <3>2, <1>3 DEF ToCookIn
  <2>2. OnePlaceIn(s, d)
        BY <1>2, <1>6 DEF KitchenIn
  <2> QED BY <2>1, <2>2, <1>2 DEF OnePlaceIn, OnStoveIn, ReadyIn, ServingIn
<1>7. OnePlaceIn(z, c)
  <2>1. ToCookIn(z, c)
    <3>1. n + 1 \in 1..(n + 1)
          BY <1>3
    <3> QED BY <3>1, <1>3, <1>4 DEF ToCookIn
  <2>2. s.w[c] \in Waiters
        BY DEF PlacesIn
  <2> QED BY <2>1, <2>2, <1>2, <1>5 DEF OnePlaceIn, OnStoveIn, ReadyIn, ServingIn
<1>8. \A i \in 1..(n + 1) : i = n + 1 \/ i \in 1..n
      BY <1>3
<1>9. /\ \A i \in 1..n : s.cookqueue[i].customer \in Customers
            /\ s.told[s.cookqueue[i].customer] = 1
            /\ s.cookqueue[i].waiter = s.w[s.cookqueue[i].customer]
      /\ \A i, j \in 1..n : s.cookqueue[i].customer = s.cookqueue[j].customer => i = j
      BY <1>3, InKitchen DEF KitchenIn
<1>10. /\ \A i \in DOMAIN z.cookqueue : /\ z.told[z.cookqueue[i].customer] = 1
                                       /\ z.cookqueue[i].waiter = z.w[z.cookqueue[i].customer]
       /\ \A i, j \in DOMAIN z.cookqueue :
             z.cookqueue[i].customer = z.cookqueue[j].customer => i = j
       BY <1>1, <1>2, <1>3, <1>4, <1>5, <1>8, <1>9
<1>11. /\ \A k \in Cooks : z.pan[k] # NoOrder => /\ z.told[z.pan[k].customer] = 1
                                              /\ z.pan[k].waiter = z.w[z.pan[k].customer]
       /\ \A k, l \in Cooks : z.pan[k] # NoOrder /\ z.pan[l] # NoOrder
                               /\ z.pan[k].customer = z.pan[l].customer => k = l
       BY <1>2, <1>5, InKitchen DEF KitchenIn
<1>12. /\ \A y \in Waiters : z.food_ready[y] # None =>
              z.told[z.food_ready[y]] = 1 /\ z.w[z.food_ready[y]] = y
       /\ \A y \in Waiters : z.tray[y] # None => z.told[z.tray[y]] = 1 /\ z.w[z.tray[y]] = y
       /\ \A d \in z.lost : z.told[d] = 1
       BY <1>2, <1>5, InKitchen DEF KitchenIn
<1> QED BY <1>6, <1>7, <1>10, <1>11, <1>12 DEF KitchenIn

(* ... is taken from the front of it, ...                                  *)
LEMMA IsCookedKitchen ==
    ASSUME NEW s, NEW z, PlacesIn(s), KitchenIn(s), NEW k \in Cooks, IsCookedIn(s, z, k)
    PROVE  KitchenIn(z)
<1> DEFINE n == Len(s.cookqueue)
           e == Head(s.cookqueue)
           c == e.customer
<1>1. /\ n \in Nat /\ n > 0 /\ DOMAIN s.cookqueue = 1..n /\ e = s.cookqueue[1]
      /\ DOMAIN z.cookqueue = 1..(n - 1)
      /\ \A i \in 1..(n - 1) : z.cookqueue[i] = s.cookqueue[i + 1]
      /\ e \in Orders
      BY EntryTaken DEF PlacesIn, IsCookedIn
<1>2. /\ s.pan[k] = NoOrder /\ z.pan[k] = e /\ \A l \in Cooks : l # k => z.pan[l] = s.pan[l]
      /\ z.told = s.told /\ z.w = s.w /\ z.food_ready = s.food_ready /\ z.tray = s.tray
      /\ z.lost = s.lost
      BY Basics DEF IsCookedIn, PlacesIn
<1>3. /\ c \in Customers /\ s.told[c] = 1 /\ e.waiter = s.w[c] /\ e # NoOrder
  <2>1. 1 \in DOMAIN s.cookqueue
        BY <1>1
  <2>2. /\ s.told[s.cookqueue[1].customer] = 1
        /\ s.cookqueue[1].waiter = s.w[s.cookqueue[1].customer]
        BY <2>1 DEF KitchenIn
  <2>3. s.cookqueue[1].customer \in Customers /\ s.cookqueue[1] # NoOrder
        BY <1>1, Basics
  <2> QED BY <1>1, <2>2, <2>3
<1>4. \A i \in 1..n : s.cookqueue[i].customer = c => i = 1
      BY <1>1 DEF KitchenIn
<1>5. ToCookIn(s, c) /\ ~OnStoveIn(s, c) /\ ~ReadyIn(s, c) /\ ~ServingIn(s, c)
      /\ c \notin s.lost
  <2>1. ToCookIn(s, c)
        BY <1>1 DEF ToCookIn
  <2> QED BY <2>1, <1>3 DEF KitchenIn, OnePlaceIn
<1> HIDE DEF n, e, c
<1>6. PICK b \in Customers : b = c
      BY <1>3
<1>7. \A i \in 1..(n - 1) : i + 1 \in 1..n /\ i + 1 # 1
      BY <1>1
<1>8. OnePlaceIn(z, b)
  <2>1. ~ToCookIn(z, b)
        BY <1>1, <1>4, <1>6, <1>7 DEF ToCookIn
  <2>2. OnStoveIn(z, b)
        BY <1>2, <1>3, <1>6 DEF OnStoveIn, c
  <2> QED BY <2>1, <2>2, <1>2, <1>5, <1>6 DEF OnePlaceIn, ReadyIn, ServingIn
<1>9. ASSUME NEW d \in Customers, d # b, z.told[d] = 1 PROVE OnePlaceIn(z, d)
  <2>1. ToCookIn(z, d) <=> ToCookIn(s, d)
    <3>1. \A i \in 1..n :
                s.cookqueue[i].customer = d => i - 1 \in 1..(n - 1) /\ i = (i - 1) + 1
      <4>1. s.cookqueue[1].customer # d
            BY <1>1, <1>6, <1>9 DEF c
      <4> QED BY <4>1, <1>1
    <3>2. \A i \in 1..n : s.cookqueue[i].customer = d => z.cookqueue[i - 1].customer = d
          BY <3>1, <1>1
    <3> QED BY <3>1, <3>2, <1>1, <1>7 DEF ToCookIn
  <2>2. OnStoveIn(z, d) <=> OnStoveIn(s, d)
        BY <1>2, <1>6, <1>9 DEF OnStoveIn, c
  <2>3. OnePlaceIn(s, d)
        BY <1>2, <1>9 DEF KitchenIn
  <2> QED BY <2>1, <2>2, <2>3, <1>2 DEF OnePlaceIn, ReadyIn, ServingIn
<1>10. /\ \A i \in 1..n : s.told[s.cookqueue[i].customer] = 1
                          /\ s.cookqueue[i].waiter = s.w[s.cookqueue[i].customer]
       /\ \A i, j \in 1..n : s.cookqueue[i].customer = s.cookqueue[j].customer => i = j
       BY <1>1 DEF KitchenIn
<1>11. \A i \in DOMAIN z.cookqueue : /\ z.told[z.cookqueue[i].customer] = 1
                                     /\ z.cookqueue[i].waiter = z.w[z.cookqueue[i].customer]
  <2> SUFFICES ASSUME NEW i \in 1..(n - 1)
               PROVE  /\ z.told[z.cookqueue[i].customer] = 1
                      /\ z.cookqueue[i].waiter = z.w[z.cookqueue[i].customer]
      BY <1>1
  <2>1. PICK j \in 1..n : j = i + 1
        BY <1>7
  <2>2. z.cookqueue[i] = s.cookqueue[j]
        BY <1>1, <2>1
  <2> QED BY <2>2, <1>2, <1>10
<1>12. \A i, j \in DOMAIN z.cookqueue :
             z.cookqueue[i].customer = z.cookqueue[j].customer => i = j
  <2> SUFFICES ASSUME NEW i \in 1..(n - 1), NEW j \in 1..(n - 1),
                      z.cookqueue[i].customer = z.cookqueue[j].customer
               PROVE  i = j
      BY <1>1
  <2>1. PICK g \in 1..n, h \in 1..n : g = i + 1 /\ h = j + 1
        BY <1>7
  <2>2. z.cookqueue[i] = s.cookqueue[g] /\ z.cookqueue[j] = s.cookqueue[h]
        BY <1>1, <2>1
  <2>3. g = h
        BY <2>2, <1>10
  <2> QED BY <2>1, <2>3
<1>13. \A l \in Cooks : z.pan[l] # NoOrder => /\ z.told[z.pan[l].customer] = 1
                                           /\ z.pan[l].waiter = z.w[z.pan[l].customer]
       BY <1>2, <1>3 DEF KitchenIn, c
<1>14. \A i, l \in Cooks : z.pan[i] # NoOrder /\ z.pan[l] # NoOrder
                            /\ z.pan[i].customer = z.pan[l].customer => i = l
  <2>1. \A l \in Cooks : s.pan[l] # NoOrder => s.pan[l].customer # c
        BY <1>5 DEF OnStoveIn
  <2> QED BY <2>1, <1>2 DEF KitchenIn, c
<1>15. /\ \A y \in Waiters : z.food_ready[y] # None =>
              z.told[z.food_ready[y]] = 1 /\ z.w[z.food_ready[y]] = y
       /\ \A y \in Waiters : z.tray[y] # None => z.told[z.tray[y]] = 1 /\ z.w[z.tray[y]] = y
       /\ \A d \in z.lost : z.told[d] = 1
       BY <1>2 DEF KitchenIn
<1> QED BY <1>8, <1>9, <1>11, <1>12, <1>13, <1>14, <1>15 DEF KitchenIn

(* ... is announced to its waiter, where it may take the place of another, *)
(* which is then lost, ...                                                 *)
LEMMA IsReadyKitchen ==
    ASSUME NEW s, NEW z, PlacesIn(s), KitchenIn(s), NEW k \in Cooks, IsReadyIn(s, z, k)
    PROVE  KitchenIn(z)
<1> DEFINE e == s.pan[k]
<1>1. PICK c \in Customers, x \in Waiters : c = e.customer /\ x = e.waiter
      BY Basics DEF IsReadyIn, PlacesIn
<1>2. /\ s.pan[k] # NoOrder /\ z.pan[k] = NoOrder
      /\ \A l \in Cooks : l # k => z.pan[l] = s.pan[l]
      /\ z.told = s.told /\ z.w = s.w /\ z.cookqueue = s.cookqueue /\ z.tray = s.tray
      /\ z.lost = (s.lost \cup {s.food_ready[x]}) \ {None}
      BY <1>1, Basics DEF IsReadyIn, PlacesIn
<1>3. z.food_ready[x] = c /\ \A y \in Waiters : y # x => z.food_ready[y] = s.food_ready[y]
      BY <1>1 DEF IsReadyIn, PlacesIn
<1>4. s.told[c] = 1 /\ s.w[c] = x /\ c # None
      BY <1>1, <1>2, Basics DEF KitchenIn
<1>5. ~ToCookIn(s, c) /\ OnStoveIn(s, c) /\ ~ReadyIn(s, c) /\ ~ServingIn(s, c)
      /\ c \notin s.lost
  <2>1. OnStoveIn(s, c)
        BY <1>1, <1>2 DEF OnStoveIn
  <2> QED BY <2>1, <1>4 DEF KitchenIn, OnePlaceIn
<1>6. \A l \in Cooks : l # k /\ s.pan[l] # NoOrder => s.pan[l].customer # c
      BY <1>1, <1>2 DEF KitchenIn
<1> HIDE DEF e
<1>7. OnePlaceIn(z, c)
  <2>1. ~OnStoveIn(z, c)
        BY <1>2, <1>6 DEF OnStoveIn
  <2>2. c \notin z.lost /\ ReadyIn(z, c)
        BY <1>2, <1>3, <1>4, <1>5 DEF ReadyIn
  <2> QED BY <2>1, <2>2, <1>2, <1>5 DEF OnePlaceIn, ToCookIn, ServingIn
<1>8. ASSUME NEW d \in Customers, d # c, z.told[d] = 1 PROVE OnePlaceIn(z, d)
  <2>1. OnStoveIn(z, d) <=> OnStoveIn(s, d)
    <3>1. s.pan[k].customer # d
          BY <1>1, <1>8 DEF e
    <3> QED BY <3>1, <1>2 DEF OnStoveIn
  <2>2. OnePlaceIn(s, d) /\ d # None /\ s.w[d] \in Waiters
        BY <1>2, <1>8, Basics DEF KitchenIn, PlacesIn
  <2>3. CASE s.food_ready[x] = d
    <3>1. s.w[d] = x /\ ReadyIn(s, d)
          BY <2>2, <2>3 DEF KitchenIn, ReadyIn
    <3>2. ~ReadyIn(z, d) /\ d \in z.lost
          BY <3>1, <2>2, <2>3, <1>2, <1>3, <1>8 DEF ReadyIn
    <3> QED BY <3>1, <3>2, <2>1, <2>2, <1>2 DEF OnePlaceIn, ToCookIn, ServingIn
  <2>4. CASE s.food_ready[x] # d
    <3>1. ReadyIn(z, d) <=> ReadyIn(s, d)
          BY <2>2, <2>4, <1>2, <1>3, <1>8 DEF ReadyIn
    <3>2. d \in z.lost <=> d \in s.lost
          BY <2>2, <2>4, <1>2
    <3> QED BY <3>1, <3>2, <2>1, <2>2, <1>2 DEF OnePlaceIn, ToCookIn, ServingIn
  <2> QED BY <2>3, <2>4
<1>9. /\ \A i \in DOMAIN z.cookqueue : /\ z.told[z.cookqueue[i].customer] = 1
                                      /\ z.cookqueue[i].waiter = z.w[z.cookqueue[i].customer]
      /\ \A i, j \in DOMAIN z.cookqueue :
            z.cookqueue[i].customer = z.cookqueue[j].customer => i = j
      BY <1>2 DEF KitchenIn
<1>10. /\ \A l \in Cooks : z.pan[l] # NoOrder => /\ z.told[z.pan[l].customer] = 1
                                              /\ z.pan[l].waiter = z.w[z.pan[l].customer]
       /\ \A i, l \in Cooks : z.pan[i] # NoOrder /\ z.pan[l] # NoOrder
                               /\ z.pan[i].customer = z.pan[l].customer => i = l
       BY <1>2 DEF KitchenIn
<1>11. /\ \A y \in Waiters : z.food_ready[y] # None =>
              z.told[z.food_ready[y]] = 1 /\ z.w[z.food_ready[y]] = y
       /\ \A y \in Waiters : z.tray[y] # None => z.told[z.tray[y]] = 1 /\ z.w[z.tray[y]] = y
       BY <1>2, <1>3, <1>4 DEF KitchenIn
<1>12. \A d \in z.lost : z.told[d] = 1
       BY <1>2 DEF KitchenIn
<1> QED BY <1>7, <1>8, <1>9, <1>10, <1>11, <1>12 DEF KitchenIn

(* ... is fetched by it, ...                                               *)
LEMMA IsFetchedKitchen ==
    ASSUME NEW s, NEW z, PlacesIn(s), KitchenIn(s), NEW c \in Customers, NEW x \in Waiters,
           IsFetchedIn(s, z, c, x)
    PROVE  KitchenIn(z)
<1>1. /\ s.food_ready[x] = c /\ z.food_ready[x] = None
      /\ \A y \in Waiters : y # x => z.food_ready[y] = s.food_ready[y]
      /\ s.tray[x] = None /\ z.tray[x] = c
      /\ \A y \in Waiters : y # x => z.tray[y] = s.tray[y]
      /\ z.told = s.told /\ z.w = s.w /\ z.cookqueue = s.cookqueue /\ z.pan = s.pan
      /\ z.lost = s.lost /\ c # None
      BY Basics DEF IsFetchedIn, PlacesIn
<1>2. s.told[c] = 1 /\ s.w[c] = x
      BY <1>1 DEF KitchenIn
<1>3. ~ToCookIn(s, c) /\ ~OnStoveIn(s, c) /\ ReadyIn(s, c) /\ ~ServingIn(s, c)
      /\ c \notin s.lost
  <2>1. ReadyIn(s, c)
        BY <1>1, <1>2 DEF ReadyIn
  <2> QED BY <2>1, <1>2 DEF KitchenIn, OnePlaceIn
<1>4. OnePlaceIn(z, c)
      BY <1>1, <1>2, <1>3 DEF OnePlaceIn, ToCookIn, OnStoveIn, ReadyIn, ServingIn
<1>5. ASSUME NEW d \in Customers, d # c, z.told[d] = 1 PROVE OnePlaceIn(z, d)
  <2>1. OnePlaceIn(s, d) /\ s.w[d] \in Waiters /\ d # None
        BY <1>1, <1>5, Basics DEF KitchenIn, PlacesIn
  <2>2. (ReadyIn(z, d) <=> ReadyIn(s, d)) /\ (ServingIn(z, d) <=> ServingIn(s, d))
        BY <2>1, <1>1, <1>5 DEF ReadyIn, ServingIn
  <2> QED BY <2>1, <2>2, <1>1 DEF OnePlaceIn, ToCookIn, OnStoveIn
<1>6. /\ \A y \in Waiters : z.food_ready[y] # None =>
              z.told[z.food_ready[y]] = 1 /\ z.w[z.food_ready[y]] = y
      /\ \A y \in Waiters : z.tray[y] # None => z.told[z.tray[y]] = 1 /\ z.w[z.tray[y]] = y
      BY <1>1, <1>2 DEF KitchenIn
<1> QED BY <1>1, <1>4, <1>5, <1>6 DEF KitchenIn

(* ... and served.                                                         *)
LEMMA IsServedKitchen ==
    ASSUME NEW s, NEW z, PlacesIn(s), KitchenIn(s), NEW c \in Customers, NEW x \in Waiters,
           IsServedIn(s, z, c, x)
    PROVE  KitchenIn(z)
<1>1. /\ s.tray[x] = c /\ z.tray[x] = None
      /\ \A y \in Waiters : y # x => z.tray[y] = s.tray[y]
      /\ z.w = s.w /\ z.cookqueue = s.cookqueue /\ z.pan = s.pan
      /\ z.food_ready = s.food_ready /\ z.lost = s.lost /\ c # None
      /\ z.told[c] = 2 /\ \A d \in Customers : d # c => z.told[d] = s.told[d]
      BY Basics DEF IsServedIn, PlacesIn
<1>2. s.told[c] = 1 /\ s.w[c] = x
      BY <1>1 DEF KitchenIn
<1>3. ~ToCookIn(s, c) /\ ~OnStoveIn(s, c) /\ ~ReadyIn(s, c) /\ ServingIn(s, c)
      /\ c \notin s.lost
  <2>1. ServingIn(s, c)
        BY <1>1, <1>2 DEF ServingIn
  <2> QED BY <2>1, <1>2 DEF KitchenIn, OnePlaceIn
<1>4. ASSUME NEW d \in Customers, z.told[d] = 1 PROVE OnePlaceIn(z, d)
  <2>0. s.w[d] \in Waiters /\ d # None
        BY Basics DEF PlacesIn
  <2>1. d # c /\ OnePlaceIn(s, d)
        BY <1>1, <1>4 DEF KitchenIn
  <2>2. ServingIn(z, d) <=> ServingIn(s, d)
        BY <2>0, <2>1, <1>1 DEF ServingIn
  <2> QED BY <2>1, <2>2, <1>1 DEF OnePlaceIn, ToCookIn, OnStoveIn, ReadyIn
<1>5. /\ \A i \in DOMAIN s.cookqueue : s.cookqueue[i].customer # c
      /\ \A k \in Cooks : s.pan[k] # NoOrder => s.pan[k].customer # c
      /\ \A y \in Waiters : s.food_ready[y] # c
      BY <1>2, <1>3, <1>1 DEF ToCookIn, OnStoveIn, ReadyIn, KitchenIn
<1>6. \A y \in Waiters : y # x /\ s.tray[y] # None => s.tray[y] # c
      BY <1>1, <1>2 DEF KitchenIn
<1>7. /\ \A i \in DOMAIN z.cookqueue : /\ z.told[z.cookqueue[i].customer] = 1
                                      /\ z.cookqueue[i].waiter = z.w[z.cookqueue[i].customer]
      /\ \A i, j \in DOMAIN z.cookqueue :
            z.cookqueue[i].customer = z.cookqueue[j].customer => i = j
      BY <1>1, <1>5, InKitchen DEF KitchenIn
<1>8. /\ \A k \in Cooks : z.pan[k] # NoOrder => /\ z.told[z.pan[k].customer] = 1
                                             /\ z.pan[k].waiter = z.w[z.pan[k].customer]
      /\ \A k, l \in Cooks : z.pan[k] # NoOrder /\ z.pan[l] # NoOrder
                              /\ z.pan[k].customer = z.pan[l].customer => k = l
      BY <1>1, <1>5, InKitchen DEF KitchenIn
<1>9. /\ \A y \in Waiters : z.food_ready[y] # None =>
              z.told[z.food_ready[y]] = 1 /\ z.w[z.food_ready[y]] = y
      /\ \A y \in Waiters : z.tray[y] # None => z.told[z.tray[y]] = 1 /\ z.w[z.tray[y]] = y
      /\ \A d \in z.lost : z.told[d] = 1
      BY <1>1, <1>3, <1>5, <1>6, InKitchen DEF KitchenIn
<1> QED BY <1>4, <1>7, <1>8, <1>9 DEF KitchenIn


(* Each of these keeps the hall and the kitchen in order. *)
LEMMA PlacesKept ==
    ASSUME NEW s, NEW z, PlacesIn(s), HallIn(s), KitchenIn(s),
           \/ SameIn(s, z)
           \/ \E c \in Customers, x \in Waiters :
                 \/ SitsIn(s, z, c, x) \/ IsAskedIn(s, z, c, x) \/ IsNotedIn(s, z, c, x)
                 \/ IsFetchedIn(s, z, c, x) \/ IsServedIn(s, z, c, x)
           \/ \E k \in Cooks : IsCookedIn(s, z, k) \/ IsReadyIn(s, z, k)
           \/ \E c \in Customers : EatsIn(s, z, c)
    PROVE  HallIn(z) /\ KitchenIn(z)
<1>2. CASE SameIn(s, z)
      BY <1>2 DEF SameIn, HallIn, KitchenIn, QueuedIn, OnePlaceIn, ToCookIn, OnStoveIn,
                  ReadyIn, ServingIn
<1>3. ASSUME NEW c \in Customers, NEW x \in Waiters, SitsIn(s, z, c, x)
      PROVE  HallIn(z) /\ KitchenIn(z)
  <2>1. /\ s.told[c] # 1 /\ z.told[c] # 1
        /\ \A d \in Customers : d # c => z.told[d] = s.told[d] /\ z.w[d] = s.w[d]
        /\ z.cookqueue = s.cookqueue /\ z.pan = s.pan /\ z.food_ready = s.food_ready
        /\ z.tray = s.tray /\ z.lost = s.lost
        BY <1>3 DEF SitsIn, PlacesIn
  <2>2. HallIn(z)
        BY <1>3, SitsHall
  <2>3. KitchenIn(z)
        BY <2>1, OthersKitchen
  <2> QED BY <2>2, <2>3
<1>4. ASSUME NEW c \in Customers, NEW x \in Waiters, IsAskedIn(s, z, c, x)
      PROVE  HallIn(z) /\ KitchenIn(z)
  <2>1. KitchenIn(z)
    <3>1. /\ z.told = s.told /\ z.w = s.w /\ z.cookqueue = s.cookqueue /\ z.pan = s.pan
          /\ z.food_ready = s.food_ready /\ z.tray = s.tray /\ z.lost = s.lost
          BY <1>4 DEF IsAskedIn
    <3> QED BY ONLY <3>1, KitchenIn(s)
               DEF KitchenIn, OnePlaceIn, ToCookIn, OnStoveIn, ReadyIn, ServingIn
  <2> QED BY <2>1, <1>4, IsAskedHall
<1>5. ASSUME NEW c \in Customers, NEW x \in Waiters, IsNotedIn(s, z, c, x)
      PROVE  HallIn(z) /\ KitchenIn(z)
      BY <1>5, IsNotedHall, IsNotedKitchen
<1>6. ASSUME NEW c \in Customers, NEW x \in Waiters, IsFetchedIn(s, z, c, x)
      PROVE  HallIn(z) /\ KitchenIn(z)
  <2>1. HallIn(z)
    <3>1. z.told = s.told /\ z.w = s.w /\ z.queue = s.queue /\ z.note = s.note
          BY <1>6 DEF IsFetchedIn
    <3> QED BY ONLY <3>1, HallIn(s) DEF HallIn, QueuedIn
  <2> QED BY <2>1, <1>6, IsFetchedKitchen
<1>7. ASSUME NEW c \in Customers, NEW x \in Waiters, IsServedIn(s, z, c, x)
      PROVE  HallIn(z) /\ KitchenIn(z)
  <2>1. s.told[c] = 1
        BY <1>7, Basics DEF IsServedIn, KitchenIn
  <2>2. /\ z.told = [s.told EXCEPT ![c] = 2]
        /\ z.w = s.w /\ z.queue = s.queue /\ z.note = s.note
        BY <1>7 DEF IsServedIn
  <2> QED BY <2>1, <2>2, <1>7, TellsHall, IsServedKitchen
<1>8. ASSUME NEW k \in Cooks, IsCookedIn(s, z, k) \/ IsReadyIn(s, z, k)
      PROVE  HallIn(z) /\ KitchenIn(z)
  <2>1. HallIn(z)
    <3>1. z.told = s.told /\ z.w = s.w /\ z.queue = s.queue /\ z.note = s.note
          BY <1>8 DEF IsCookedIn, IsReadyIn
    <3> QED BY <3>1 DEF HallIn, QueuedIn
  <2> QED BY <2>1, <1>8, IsCookedKitchen, IsReadyKitchen
<1>9. ASSUME NEW c \in Customers, EatsIn(s, z, c)
      PROVE  HallIn(z) /\ KitchenIn(z)
  <2>1. /\ s.told[c] = 2 /\ z.told = [s.told EXCEPT ![c] = 3]
        /\ z.w = s.w /\ z.queue = s.queue /\ z.note = s.note /\ z.cookqueue = s.cookqueue
        /\ z.pan = s.pan /\ z.food_ready = s.food_ready /\ z.tray = s.tray /\ z.lost = s.lost
        BY <1>9 DEF EatsIn
  <2>2. /\ s.told[c] # 1 /\ z.told[c] # 1
        /\ \A d \in Customers : d # c => z.told[d] = s.told[d] /\ z.w[d] = s.w[d]
        BY <2>1 DEF PlacesIn
  <2>3. HallIn(z)
        BY <2>1, TellsHall
  <2>4. KitchenIn(z)
        BY <2>1, <2>2, OthersKitchen
  <2> QED BY <2>3, <2>4
<1> QED BY <1>2, <1>3, <1>4, <1>5, <1>6, <1>7, <1>8, <1>9
-----------------------------------------------------------------------------
(* What the customers see *)

(* A function on 1..n is a sequence. *)
LEMMA FunctionIsSeq ==
    ASSUME NEW T, NEW n \in Nat, NEW f \in [1..n -> T]
    PROVE  f \in Seq(T) /\ Len(f) = n
OBVIOUS

(* What the customers see of a restaurant s in which they are at p: the    *)
(* stage of a customer is what it is told, and where it is when it does    *)
(* not wait; its food is ready when it has left the stove.                 *)
StageIn(s, p) ==
    [c \in Customers |->
        IF s.told[c] = 0 THEN "seated"
        ELSE IF s.told[c] \in {1, 2} THEN "ordered"
        ELSE IF p[c] = "arriving" THEN "outside" ELSE p[c]]
OrdersIn(s) == [i \in DOMAIN s.cookqueue |-> s.cookqueue[i].customer]
StoveIn(s) == [k \in Cooks |-> IF s.pan[k] = NoOrder THEN None ELSE s.pan[k].customer]
IsOutIn(s, c) ==
    \/ s.told[c] = 2
    \/ s.told[c] = 1 /\ (ReadyIn(s, c) \/ ServingIn(s, c) \/ c \in s.lost)
DoneIn(s) == {c \in Customers : IsOutIn(s, c)}

(* The orders are a queue of customers, as long as that of the orders.     *)
LEMMA OrdersAre ==
    ASSUME NEW s, PlacesIn(s)
    PROVE  /\ OrdersIn(s) \in Seq(Customers) /\ Len(OrdersIn(s)) = Len(s.cookqueue)
           /\ Len(s.cookqueue) \in Nat /\ DOMAIN s.cookqueue = 1..Len(s.cookqueue)
           /\ \A i \in DOMAIN s.cookqueue : OrdersIn(s)[i] = s.cookqueue[i].customer
<1>1. Len(s.cookqueue) \in Nat /\ DOMAIN s.cookqueue = 1..Len(s.cookqueue)
      BY LenProperties DEF PlacesIn
<1>2. \A i \in DOMAIN s.cookqueue : s.cookqueue[i] \in Orders
      BY LenProperties, ElementOfSeq DEF PlacesIn
<1>3. OrdersIn(s) \in [1..Len(s.cookqueue) -> Customers]
      BY <1>1, <1>2, Basics DEF OrdersIn
<1>4. OrdersIn(s) \in Seq(Customers) /\ Len(OrdersIn(s)) = Len(s.cookqueue)
      BY <1>1, <1>3, FunctionIsSeq
<1> QED BY <1>1, <1>4 DEF OrdersIn

(* The food that is ready is that of the customers whose order is neither  *)
(* in the queue nor on the stove any more.                                 *)
LEMMA DoneIs ==
    ASSUME NEW s, NEW p, PlacesIn(s), KitchenIn(s), \A c \in Customers : p[c] # "ordered"
    PROVE  DoneIn(s) = {c \in Customers : /\ StageIn(s, p)[c] = "ordered"
                                          /\ c \notin Range(OrdersIn(s))
                                          /\ c \notin Range(StoveIn(s))}
<1> SUFFICES ASSUME NEW c \in Customers
             PROVE  IsOutIn(s, c) <=> /\ StageIn(s, p)[c] = "ordered"
                                      /\ c \notin Range(OrdersIn(s))
                                      /\ c \notin Range(StoveIn(s))
    BY DEF DoneIn
<1>1. c \in Range(OrdersIn(s)) <=> ToCookIn(s, c)
      BY DEF Range, OrdersIn, ToCookIn
<1>2. c \in Range(StoveIn(s)) <=> OnStoveIn(s, c)
      BY Basics DEF Range, StoveIn, OnStoveIn
<1>3. s.told[c] \in 0..3 /\ (StageIn(s, p)[c] = "ordered" <=> s.told[c] \in {1, 2})
  <2>1. s.told[c] \in 0..3
        BY DEF PlacesIn
  <2>2. StageIn(s, p)[c] = IF s.told[c] = 0 THEN "seated"
                           ELSE IF s.told[c] \in {1, 2} THEN "ordered"
                           ELSE IF p[c] = "arriving" THEN "outside" ELSE p[c]
        BY DEF StageIn
  <2> QED BY <2>1, <2>2
<1>4. s.told[c] = 2 => ~ToCookIn(s, c) /\ ~OnStoveIn(s, c)
      BY DEF KitchenIn, ToCookIn, OnStoveIn
<1>5. s.told[c] = 1 => (~ToCookIn(s, c) /\ ~OnStoveIn(s, c)
                           <=> ReadyIn(s, c) \/ ServingIn(s, c) \/ c \in s.lost)
      BY DEF KitchenIn, OnePlaceIn
<1>6. CASE s.told[c] = 1
      BY <1>1, <1>2, <1>3, <1>5, <1>6 DEF IsOutIn
<1>7. CASE s.told[c] = 2
      BY <1>1, <1>2, <1>3, <1>4, <1>7 DEF IsOutIn
<1>8. CASE s.told[c] \notin {1, 2}
      BY <1>3, <1>8 DEF IsOutIn
<1> QED BY <1>6, <1>7, <1>8

(* One customer moves on. *)
LEMMA StageMoves ==
    ASSUME NEW s, NEW z, NEW p, NEW q, NEW c \in Customers,
           \A d \in Customers : d # c => StageIn(z, q)[d] = StageIn(s, p)[d]
    PROVE  StageIn(z, q) = [StageIn(s, p) EXCEPT ![c] = StageIn(z, q)[c]]
<1> DEFINE f == StageIn(s, p) g == StageIn(z, q)
<1>1. f = [d \in Customers |-> f[d]] /\ g = [d \in Customers |-> g[d]]
      BY DEF StageIn
<1> HIDE DEF f, g
<1>2. \A d \in Customers : d # c => g[d] = f[d]
      BY DEF f, g
<1>3. g = [f EXCEPT ![c] = g[c]]
      BY <1>1, <1>2
<1> QED BY <1>3 DEF f, g

(* An order is passed to the kitchen once, ...                             *)
LEMMA SeenNoted ==
    ASSUME NEW s, NEW z, NEW p, PlacesIn(s), PlacesIn(z), HallIn(s), KitchenIn(s),
           KitchenIn(z),
           NEW c \in Customers, NEW x \in Waiters, IsNotedIn(s, z, c, x)
    PROVE  /\ StageIn(s, p)[c] = "seated"
           /\ StageIn(z, p) = [StageIn(s, p) EXCEPT ![c] = "ordered"]
           /\ OrdersIn(z) = Append(OrdersIn(s), c)
           /\ StoveIn(z) = StoveIn(s) /\ DoneIn(z) = DoneIn(s)
<1> DEFINE e == [waiter |-> x, customer |-> c]
<1>0. s.told[c] = 0 /\ s.w[c] = x
  <2>1. s.note[x] = c /\ c # None
        BY Basics DEF IsNotedIn
  <2> QED BY <2>1 DEF HallIn
<1>1. /\ s.told[c] = 0 /\ s.w[c] = x /\ z.told[c] = 1
      /\ \A d \in Customers : d # c => z.told[d] = s.told[d]
      /\ z.cookqueue = Append(s.cookqueue, e)
      /\ z.w = s.w /\ z.pan = s.pan /\ z.food_ready = s.food_ready /\ z.tray = s.tray
      /\ z.lost = s.lost
      BY <1>0 DEF IsNotedIn, PlacesIn
<1>2. /\ e \in Orders /\ s.cookqueue \in Seq(Orders) /\ e.customer = c
      BY DEF Orders, PlacesIn
<1>3. /\ Len(s.cookqueue) \in Nat /\ DOMAIN s.cookqueue = 1..Len(s.cookqueue)
      /\ Len(z.cookqueue) = Len(s.cookqueue) + 1
      /\ DOMAIN z.cookqueue = 1..(Len(s.cookqueue) + 1)
      /\ \A i \in 1..Len(s.cookqueue) : z.cookqueue[i] = s.cookqueue[i]
      /\ z.cookqueue[Len(s.cookqueue) + 1] = e
      BY <1>1, <1>2, EntryAdded
<1> HIDE DEF e
<1>4. OrdersIn(z) = Append(OrdersIn(s), c)
  <2>0. PICK n \in Nat : n = Len(s.cookqueue)
        BY <1>3
  <2>1. PICK o, r : o = OrdersIn(s) /\ r = OrdersIn(z)
        OBVIOUS
  <2>2. /\ o \in Seq(Customers) /\ Len(o) = n /\ r \in Seq(Customers) /\ Len(r) = n + 1
        /\ \A i \in 1..n : o[i] = s.cookqueue[i].customer
        /\ \A i \in 1..(n + 1) : r[i] = z.cookqueue[i].customer
        BY <2>0, <2>1, <1>3, OrdersAre
  <2>3. /\ Append(o, c) \in Seq(Customers) /\ Len(Append(o, c)) = n + 1
        /\ \A i \in 1..n : Append(o, c)[i] = o[i]
        /\ Append(o, c)[n + 1] = c
        BY <2>2, EntryAdded
  <2>4. ASSUME NEW i \in 1..Len(r) PROVE r[i] = Append(o, c)[i]
    <3>1. i = n + 1 \/ i \in 1..n
          BY <2>2
    <3>2. CASE i = n + 1
          BY <3>2, <1>2, <1>3, <2>0, <2>2, <2>3
    <3>3. CASE i \in 1..n
          BY <3>3, <1>3, <2>0, <2>2, <2>3
    <3> QED BY <3>1, <3>2, <3>3
  <2>5. r = Append(o, c)
        BY <2>2, <2>3, <2>4, SeqEqual
  <2> QED BY <2>1, <2>5
<1>5. StageIn(s, p)[c] = "seated" /\ StageIn(z, p) = [StageIn(s, p) EXCEPT ![c] = "ordered"]
  <2>1. \A d \in Customers : d # c => StageIn(z, p)[d] = StageIn(s, p)[d]
        BY <1>1 DEF StageIn
  <2>2. StageIn(s, p)[c] = "seated" /\ StageIn(z, p)[c] = "ordered"
        BY <1>1 DEF StageIn
  <2>3. /\ StageIn(s, p) = [d \in Customers |-> StageIn(s, p)[d]]
        /\ StageIn(z, p) = [d \in Customers |-> StageIn(z, p)[d]]
        BY DEF StageIn
  <2> QED BY ONLY c \in Customers, <2>1, <2>2, <2>3
<1>6. DoneIn(z) = DoneIn(s)
  <2>1. ~IsOutIn(s, c)
        BY <1>1 DEF IsOutIn
  <2>2. ~IsOutIn(z, c)
    <3>1. ToCookIn(z, c)
      <4>1. Len(s.cookqueue) + 1 \in DOMAIN z.cookqueue
            BY <1>3
      <4> QED BY <4>1, <1>2, <1>3 DEF ToCookIn
    <3>2. OnePlaceIn(z, c)
          BY <1>1 DEF KitchenIn
    <3> QED BY <3>1, <3>2, <1>1 DEF IsOutIn, OnePlaceIn
  <2>3. \A d \in Customers : d # c => (IsOutIn(z, d) <=> IsOutIn(s, d))
        BY <1>1 DEF IsOutIn, ReadyIn, ServingIn
  <2> QED BY <2>1, <2>2, <2>3 DEF DoneIn
<1>7. StoveIn(z) = StoveIn(s)
      BY <1>1 DEF StoveIn
<1> QED BY <1>4, <1>5, <1>6, <1>7

(* ... a cook starts with the first order, ...                             *)
LEMMA SeenCooked ==
    ASSUME NEW s, NEW z, NEW p, PlacesIn(s), PlacesIn(z), KitchenIn(s),
           NEW k \in Cooks, IsCookedIn(s, z, k)
    PROVE  /\ OrdersIn(s) # <<>> /\ StoveIn(s)[k] = None
           /\ StoveIn(z) = [StoveIn(s) EXCEPT ![k] = Head(OrdersIn(s))]
           /\ OrdersIn(z) = Tail(OrdersIn(s))
           /\ StageIn(z, p) = StageIn(s, p) /\ DoneIn(z) = DoneIn(s)
<1>1. /\ s.cookqueue # <<>> /\ s.pan[k] = NoOrder
      /\ z.pan = [s.pan EXCEPT ![k] = Head(s.cookqueue)]
      /\ z.cookqueue = Tail(s.cookqueue)
      /\ z.told = s.told /\ z.w = s.w /\ z.food_ready = s.food_ready /\ z.tray = s.tray
      /\ z.lost = s.lost
      BY DEF IsCookedIn
<1>2. PICK n \in Nat : n = Len(s.cookqueue)
      BY OrdersAre
<1>3. /\ Head(s.cookqueue) \in Orders /\ Head(s.cookqueue) = s.cookqueue[1]
      /\ DOMAIN s.cookqueue = 1..n /\ n > 0
      /\ DOMAIN z.cookqueue = 1..(n - 1) /\ Len(z.cookqueue) = n - 1
      /\ \A i \in 1..(n - 1) : z.cookqueue[i] = s.cookqueue[i + 1]
      BY <1>1, <1>2, EntryTaken DEF PlacesIn
<1>4. PICK o, r : o = OrdersIn(s) /\ r = OrdersIn(z)
      OBVIOUS
<1>5. /\ o \in Seq(Customers) /\ Len(o) = n /\ r \in Seq(Customers) /\ Len(r) = n - 1
      /\ \A i \in 1..n : o[i] = s.cookqueue[i].customer
      /\ \A i \in 1..(n - 1) : r[i] = z.cookqueue[i].customer
      BY <1>2, <1>3, <1>4, OrdersAre
<1>6. o # <<>>
      BY <1>3, <1>5
<1>7. /\ Tail(o) \in Seq(Customers) /\ Len(Tail(o)) = n - 1 /\ Head(o) = o[1]
      /\ \A i \in 1..(n - 1) : Tail(o)[i] = o[i + 1]
      BY <1>5, <1>6, EntryTaken
<1>8. Head(o) = Head(s.cookqueue).customer
  <2>1. 1 \in 1..n
        BY <1>3
  <2> QED BY <2>1, <1>3, <1>5, <1>7
<1>9. StoveIn(s)[k] = None /\ StoveIn(z) = [StoveIn(s) EXCEPT ![k] = Head(o)]
  <2>1. z.pan[k] = Head(s.cookqueue) /\ z.pan[k] # NoOrder
        /\ \A l \in Cooks : l # k => z.pan[l] = s.pan[l]
        BY <1>1, <1>3, Basics DEF PlacesIn
  <2>2. StoveIn(s)[k] = None /\ StoveIn(z)[k] = Head(o)
        BY <1>1, <1>8, <2>1 DEF StoveIn
  <2>3. \A l \in Cooks : l # k => StoveIn(z)[l] = StoveIn(s)[l]
        BY <2>1 DEF StoveIn
  <2>4. /\ StoveIn(s) = [l \in Cooks |-> StoveIn(s)[l]]
        /\ StoveIn(z) = [l \in Cooks |-> StoveIn(z)[l]]
        BY DEF StoveIn
  <2> QED BY ONLY k \in Cooks, <2>2, <2>3, <2>4
<1>10. r = Tail(o)
  <2>1. ASSUME NEW i \in 1..(n - 1) PROVE r[i] = Tail(o)[i]
    <3>1. PICK j \in 1..n : j = i + 1
          BY <1>3
    <3>2. r[i] = z.cookqueue[i].customer /\ z.cookqueue[i] = s.cookqueue[j]
          BY <3>1, <1>3, <1>5
    <3>3. Tail(o)[i] = o[j]
          BY <3>1, <1>7
    <3> QED BY <3>2, <3>3, <1>5
  <2> QED BY <2>1, <1>5, <1>7, SeqEqual
<1>11. StageIn(z, p) = StageIn(s, p)
       BY <1>1 DEF StageIn
<1>12. DoneIn(z) = DoneIn(s)
       BY <1>1 DEF DoneIn, IsOutIn, ReadyIn, ServingIn
<1> QED BY <1>4, <1>6, <1>9, <1>10, <1>11, <1>12

(* ... and what it has cooked is out of the kitchen, in the waiter's hands *)
(* or lost.                                                                *)
LEMMA SeenReady ==
    ASSUME NEW s, NEW z, NEW p, PlacesIn(s), KitchenIn(s), NEW k \in Cooks, IsReadyIn(s, z, k)
    PROVE  /\ StoveIn(s)[k] # None /\ StoveIn(z) = [StoveIn(s) EXCEPT ![k] = None]
           /\ DoneIn(z) = DoneIn(s) \cup {StoveIn(s)[k]}
           /\ StageIn(z, p) = StageIn(s, p) /\ OrdersIn(z) = OrdersIn(s)
<1>0. s.pan[k] \in Orders
      BY DEF IsReadyIn, PlacesIn
<1>1. PICK c \in Customers, x \in Waiters : c = s.pan[k].customer /\ x = s.pan[k].waiter
      BY <1>0, Basics
<1>2. /\ s.pan[k] # NoOrder /\ z.pan[k] = NoOrder
      /\ \A l \in Cooks : l # k => z.pan[l] = s.pan[l]
      /\ z.told = s.told /\ z.w = s.w /\ z.cookqueue = s.cookqueue /\ z.tray = s.tray
      /\ z.lost = (s.lost \cup {s.food_ready[x]}) \ {None}
      BY <1>1 DEF IsReadyIn, PlacesIn
<1>3. z.food_ready[x] = c /\ \A y \in Waiters : y # x => z.food_ready[y] = s.food_ready[y]
      BY <1>1 DEF IsReadyIn, PlacesIn
<1>4. s.told[c] = 1 /\ s.w[c] = x /\ c # None /\ None \notin Customers
      BY <1>1, <1>2, Basics DEF KitchenIn
<1>5. StoveIn(s)[k] = c /\ StoveIn(z) = [StoveIn(s) EXCEPT ![k] = None]
      BY <1>1, <1>2 DEF StoveIn
<1>6. IsOutIn(z, c)
      BY <1>2, <1>3, <1>4 DEF IsOutIn, ReadyIn
<1>7. ASSUME NEW d \in Customers, d # c
      PROVE  IsOutIn(z, d) <=> IsOutIn(s, d)
  <2>1. s.w[d] \in Waiters /\ d # None
        BY <1>4 DEF PlacesIn
  <2>2. (ReadyIn(z, d) \/ d \in z.lost) <=> (ReadyIn(s, d) \/ d \in s.lost)
    <3>1. CASE s.w[d] = x
      <4>1. ~ReadyIn(z, d)
            BY <1>2, <1>3, <1>7, <3>1 DEF ReadyIn
      <4>2. d \in z.lost <=> (ReadyIn(s, d) \/ d \in s.lost)
            BY <1>2, <2>1, <3>1 DEF ReadyIn
      <4> QED BY <4>1, <4>2
    <3>2. CASE s.w[d] # x
      <4>1. ReadyIn(z, d) <=> ReadyIn(s, d)
            BY <1>2, <1>3, <2>1, <3>2 DEF ReadyIn
      <4>2. s.food_ready[x] # d
            BY <2>1, <3>2 DEF KitchenIn
      <4>3. d \in z.lost <=> d \in s.lost
            BY <1>2, <2>1, <4>2
      <4> QED BY <4>1, <4>3
    <3> QED BY <3>1, <3>2
  <2>3. ServingIn(z, d) <=> ServingIn(s, d)
        BY <1>2 DEF ServingIn
  <2> QED BY <1>2, <2>2, <2>3 DEF IsOutIn
<1>8. DoneIn(z) = DoneIn(s) \cup {StoveIn(s)[k]}
      BY <1>5, <1>6, <1>7 DEF DoneIn
<1>9. StageIn(z, p) = StageIn(s, p)
      BY <1>2 DEF StageIn
<1>10. OrdersIn(z) = OrdersIn(s)
       BY <1>2 DEF OrdersIn
<1> QED BY <1>4, <1>5, <1>8, <1>9, <1>10

(* A customer sits down, ...                                               *)
LEMMA SeenSitting ==
    ASSUME NEW s, NEW z, NEW p, NEW q, PlacesIn(s), NEW c \in Customers, NEW x \in Waiters,
           SitsIn(s, z, c, x), p[c] = "arriving", \A d \in Customers : d # c => q[d] = p[d]
    PROVE  /\ StageIn(s, p)[c] = "outside"
           /\ StageIn(z, q) = [StageIn(s, p) EXCEPT ![c] = "seated"]
           /\ OrdersIn(z) = OrdersIn(s) /\ StoveIn(z) = StoveIn(s) /\ DoneIn(z) = DoneIn(s)
<1>1. /\ s.told[c] = 3 /\ z.told[c] = 0
      /\ \A d \in Customers : d # c => z.told[d] = s.told[d] /\ z.w[d] = s.w[d]
      /\ z.pan = s.pan /\ z.tray = s.tray /\ z.cookqueue = s.cookqueue
      /\ z.food_ready = s.food_ready /\ z.lost = s.lost
      BY DEF SitsIn, PlacesIn
<1>2. StageIn(s, p)[c] = "outside" /\ StageIn(z, q)[c] = "seated"
      BY <1>1 DEF StageIn
<1>3. \A d \in Customers : d # c => StageIn(z, q)[d] = StageIn(s, p)[d]
      BY <1>1 DEF StageIn
<1>4. StageIn(z, q) = [StageIn(s, p) EXCEPT ![c] = "seated"]
      BY <1>2, <1>3, StageMoves
<1>5. OrdersIn(z) = OrdersIn(s) /\ StoveIn(z) = StoveIn(s)
      BY <1>1 DEF OrdersIn, StoveIn
<1>6. \A d \in Customers : IsOutIn(z, d) <=> IsOutIn(s, d)
      BY <1>1 DEF IsOutIn, ReadyIn, ServingIn
<1> QED BY <1>2, <1>4, <1>5, <1>6 DEF DoneIn

(* ... eats what was cooked for it, ...                                    *)
LEMMA SeenEating ==
    ASSUME NEW s, NEW z, NEW p, NEW q, PlacesIn(s), NEW c \in Customers,
           EatsIn(s, z, c), q[c] = "eating", \A d \in Customers : d # c => q[d] = p[d]
    PROVE  /\ StageIn(s, p)[c] = "ordered"
           /\ StageIn(z, q) = [StageIn(s, p) EXCEPT ![c] = "eating"]
           /\ c \in DoneIn(s) /\ DoneIn(z) = DoneIn(s) \ {c}
           /\ OrdersIn(z) = OrdersIn(s) /\ StoveIn(z) = StoveIn(s)
<1>1. /\ s.told[c] = 2 /\ z.told[c] = 3 /\ \A d \in Customers : d # c => z.told[d] = s.told[d]
      /\ z.w = s.w /\ z.pan = s.pan /\ z.tray = s.tray /\ z.cookqueue = s.cookqueue
      /\ z.food_ready = s.food_ready /\ z.lost = s.lost
      BY DEF EatsIn, PlacesIn
<1>2. StageIn(s, p)[c] = "ordered"
      BY <1>1 DEF StageIn
<1>3. StageIn(z, q)[c] = "eating"
      BY <1>1 DEF StageIn
<1>4. \A d \in Customers : d # c => StageIn(z, q)[d] = StageIn(s, p)[d]
      BY <1>1 DEF StageIn
<1>5. StageIn(z, q) = [StageIn(s, p) EXCEPT ![c] = "eating"]
      BY <1>3, <1>4, StageMoves
<1>6. OrdersIn(z) = OrdersIn(s) /\ StoveIn(z) = StoveIn(s)
      BY <1>1 DEF OrdersIn, StoveIn
<1>7. IsOutIn(s, c) /\ ~IsOutIn(z, c)
      BY <1>1 DEF IsOutIn
<1>8. \A d \in Customers : d # c => (IsOutIn(z, d) <=> IsOutIn(s, d))
      BY <1>1 DEF IsOutIn, ReadyIn, ServingIn
<1> QED BY <1>2, <1>5, <1>6, <1>7, <1>8 DEF DoneIn

(* ... and goes.                                                           *)
GoesIn(s, z, p, q, c) ==
    /\ SameIn(s, z) /\ s.told[c] = 3
    /\ p[c] \in {"arriving", "eating"} /\ q[c] = "gone"
    /\ \A d \in Customers : d # c => q[d] = p[d]

(* Where a customer is that does not wait is seen, ...                     *)
LEMMA SeenMoving ==
    ASSUME NEW s, NEW z, NEW p, NEW q, NEW c \in Customers, GoesIn(s, z, p, q, c)
    PROVE  /\ StageIn(s, p)[c] = IF p[c] = "arriving" THEN "outside" ELSE "eating"
           /\ StageIn(z, q) = [StageIn(s, p) EXCEPT ![c] = "gone"]
           /\ OrdersIn(z) = OrdersIn(s) /\ StoveIn(z) = StoveIn(s) /\ DoneIn(z) = DoneIn(s)
<1>1. /\ z.told = s.told /\ z.w = s.w /\ z.cookqueue = s.cookqueue /\ z.pan = s.pan
      /\ z.food_ready = s.food_ready /\ z.tray = s.tray /\ z.lost = s.lost
      BY DEF GoesIn, SameIn
<1>2. /\ StageIn(s, p)[c] = IF p[c] = "arriving" THEN "outside" ELSE "eating"
      /\ StageIn(z, q)[c] = "gone"
      BY <1>1 DEF GoesIn, StageIn
<1>3. \A d \in Customers : d # c => StageIn(z, q)[d] = StageIn(s, p)[d]
      BY <1>1 DEF GoesIn, StageIn
<1>4. StageIn(z, q) = [StageIn(s, p) EXCEPT ![c] = "gone"]
      BY <1>2, <1>3, StageMoves
<1> QED BY <1>1, <1>2, <1>4 DEF OrdersIn, StoveIn, DoneIn, IsOutIn, ReadyIn, ServingIn

(* ... and nothing else: the food a waiter fetches or serves is ready for  *)
(* the customer all the time.                                              *)
LEMMA SeenNothing ==
    ASSUME NEW s, NEW z, NEW p, NEW q, PlacesIn(s), KitchenIn(s), KitchenIn(z),
           \/ SameIn(s, z)
           \/ \E c \in Customers, x \in Waiters :
                 IsAskedIn(s, z, c, x) \/ IsFetchedIn(s, z, c, x) \/ IsServedIn(s, z, c, x),
           \A c \in Customers : s.told[c] = 3 => q[c] = p[c]
    PROVE  /\ StageIn(z, q) = StageIn(s, p) /\ OrdersIn(z) = OrdersIn(s)
           /\ StoveIn(z) = StoveIn(s) /\ DoneIn(z) = DoneIn(s)
<1>0. ASSUME \A c \in Customers : \/ z.told[c] = s.told[c]
                                  \/ s.told[c] \in {1, 2} /\ z.told[c] \in {1, 2}
      PROVE  StageIn(z, q) = StageIn(s, p)
  <2>1. \A c \in Customers : s.told[c] \in 0..3
        BY DEF PlacesIn
  <2> QED BY <1>0, <2>1 DEF StageIn
<1>1. CASE SameIn(s, z) \/ \E c \in Customers, x \in Waiters : IsAskedIn(s, z, c, x)
  <2>1. /\ z.told = s.told /\ z.w = s.w /\ z.cookqueue = s.cookqueue /\ z.pan = s.pan
        /\ z.food_ready = s.food_ready /\ z.tray = s.tray /\ z.lost = s.lost
        BY <1>1 DEF SameIn, IsAskedIn
  <2>2. StageIn(z, q) = StageIn(s, p)
        BY <2>1, <1>0
  <2> QED BY <2>1, <2>2 DEF OrdersIn, StoveIn, DoneIn, IsOutIn, ReadyIn, ServingIn
<1>2. ASSUME NEW c \in Customers, NEW x \in Waiters, IsFetchedIn(s, z, c, x)
      PROVE  /\ StageIn(z, q) = StageIn(s, p) /\ OrdersIn(z) = OrdersIn(s)
             /\ StoveIn(z) = StoveIn(s) /\ DoneIn(z) = DoneIn(s)
  <2>1. /\ s.food_ready[x] = c /\ z.food_ready[x] = None /\ s.tray[x] = None /\ z.tray[x] = c
        /\ \A y \in Waiters :
              y # x => z.food_ready[y] = s.food_ready[y] /\ z.tray[y] = s.tray[y]
        /\ z.told = s.told /\ z.w = s.w /\ z.cookqueue = s.cookqueue /\ z.pan = s.pan
        /\ z.lost = s.lost /\ c # None
        BY <1>2, Basics DEF IsFetchedIn, PlacesIn
  <2>2. ASSUME NEW d \in Customers
        PROVE  (ReadyIn(z, d) \/ ServingIn(z, d)) <=> (ReadyIn(s, d) \/ ServingIn(s, d))
    <3>1. s.w[d] \in Waiters /\ d # None
          BY Basics DEF PlacesIn
    <3>2. s.w[c] = x
          BY <2>1 DEF KitchenIn
    <3>3. CASE d = c
          BY <2>1, <3>2, <3>3 DEF ReadyIn, ServingIn
    <3>4. CASE d # c
          BY <2>1, <3>1, <3>4 DEF ReadyIn, ServingIn
    <3> QED BY <3>3, <3>4
  <2>3. DoneIn(z) = DoneIn(s)
        BY <2>1, <2>2 DEF DoneIn, IsOutIn
  <2>4. StageIn(z, q) = StageIn(s, p)
        BY <2>1, <1>0
  <2> QED BY <2>1, <2>3, <2>4 DEF OrdersIn, StoveIn
<1>3. ASSUME NEW c \in Customers, NEW x \in Waiters, IsServedIn(s, z, c, x)
      PROVE  /\ StageIn(z, q) = StageIn(s, p) /\ OrdersIn(z) = OrdersIn(s)
             /\ StoveIn(z) = StoveIn(s) /\ DoneIn(z) = DoneIn(s)
  <2>1. /\ s.tray[x] = c /\ c # None /\ z.told[c] = 2
        /\ \A y \in Waiters : y # x => z.tray[y] = s.tray[y]
        /\ \A d \in Customers : d # c => z.told[d] = s.told[d]
        /\ z.w = s.w /\ z.cookqueue = s.cookqueue /\ z.pan = s.pan
        /\ z.food_ready = s.food_ready /\ z.lost = s.lost
        BY <1>3, Basics DEF IsServedIn, PlacesIn
  <2>2. s.told[c] = 1 /\ s.w[c] = x
        BY <2>1 DEF KitchenIn
  <2>3. IsOutIn(s, c) /\ IsOutIn(z, c)
        BY <2>1, <2>2 DEF IsOutIn, ServingIn
  <2>4. ASSUME NEW d \in Customers, d # c
        PROVE  IsOutIn(z, d) <=> IsOutIn(s, d)
    <3>1. s.w[d] \in Waiters /\ d # None
          BY Basics DEF PlacesIn
    <3>2. ServingIn(z, d) <=> ServingIn(s, d)
      <4>1. CASE s.w[d] # x
            BY <2>1, <3>1, <4>1 DEF ServingIn
      <4>2. CASE s.w[d] = x
        <5>1. z.tray[x] = None
              BY <1>3 DEF IsServedIn, PlacesIn
        <5> QED BY <2>1, <2>4, <3>1, <4>2, <5>1 DEF ServingIn
      <4> QED BY <4>1, <4>2
    <3> QED BY <2>1, <2>4, <3>2 DEF IsOutIn, ReadyIn
  <2>5. DoneIn(z) = DoneIn(s)
        BY <2>3, <2>4 DEF DoneIn
  <2>6. StageIn(z, q) = StageIn(s, p)
    <3>1. \A d \in Customers : \/ z.told[d] = s.told[d]
                               \/ s.told[d] \in {1, 2} /\ z.told[d] \in {1, 2}
          BY <2>1, <2>2
    <3> QED BY <3>1, <1>0
  <2> QED BY <2>1, <2>5, <2>6 DEF OrdersIn, StoveIn
<1> QED BY <1>1, <1>2, <1>3

-----------------------------------------------------------------------------
(* The inductive invariant *)

CookSteps == {"idle", "woken", "cooking", "prepared", "checking", "gone"}
WaiterSteps == {"idle", "woken", "serving", "noting", "placed", "checking", "gone"}
CustomerSteps == {"arriving", "calling", "ordering", "hungry", "eating", "gone"}

(* How far a customer is: its order is not noted, it is in the kitchen, or *)
(* its food is served; 3 when it does not wait at all.                     *)
told == [c \in Customers |-> IF Waiting(c) THEN Told(c) ELSE 3]

(* The customers whose orders the waiters are about to note, whose food    *)
(* they are about to serve, and the orders on the stove.                   *)
note == [x \in Waiters |-> IF wpc[x] = "noting" THEN cno[x] ELSE None]
tray == [x \in Waiters |-> IF wpc[x] = "serving" THEN cno[x] ELSE None]
pan  == [k \in Cooks |-> IF kpc[k] = "cooking" THEN hand[k] ELSE NoOrder]

(* The types of the variables. *)
Types ==
    /\ late \in BOOLEAN /\ removed \in BOOLEAN
    /\ no_of_empty_tables \in Int /\ next_waiter \in Waiters
    /\ food_ready \in [Waiters -> Customers \cup {None}]
    /\ queue \in [Waiters -> Seq(Customers)] /\ cookqueue \in Seq(Orders)
    /\ new_customer = [x \in Waiters |-> Len(queue[x])]
    /\ cook \in Nat /\ waiter \in [Waiters -> Nat] /\ customer \in [Customers -> Nat]
    /\ kpc \in [Cooks -> CookSteps] /\ hand \in [Cooks -> Orders \cup {None}]
    /\ wpc \in [Waiters -> WaiterSteps]
    /\ cno \in [Waiters -> Customers \cup {None}] /\ S \in [Waiters -> Int]
    /\ cpc \in [Customers -> CustomerSteps]
    /\ w \in [Customers -> Waiters] /\ lost \subseteq Customers
    /\ order_pending \in Int

(* What the hands of the staff hold, and what the semaphores of the        *)
(* customers can be.                                                       *)
Hands ==
    /\ \A k \in Cooks : kpc[k] \in {"cooking", "prepared"} => hand[k] \in Orders
    /\ \A x \in Waiters : wpc[x] \in {"serving", "noting"} => cno[x] \in Customers
    /\ \A c \in Customers : IF Waiting(c) THEN Told(c) \in 0..2 ELSE customer[c] = 0
    /\ removed => \A c \in Customers : cpc[c] = "gone"

(* Everybody who waits, and every order, has its place. *)
places ==
    [told |-> told, w |-> w, queue |-> queue, note |-> note, cookqueue |-> cookqueue,
     pan |-> pan, food_ready |-> food_ready, tray |-> tray, lost |-> lost]
Hall == HallIn(places)
Kitchen == KitchenIn(places)

(* The counters of the shared memory and of the waiters. *)
Cooking == {k \in Cooks : kpc[k] = "cooking"}
AtTable == {c \in Customers : cpc[c] \in {"calling", "ordering", "hungry", "eating"}}
OrderedAt(x) == {c \in Customers : w[c] = x /\ told[c] = 1}
Pending == order_pending = Len(cookqueue) + Cardinality(Cooking)
Tables ==
    /\ no_of_empty_tables \in Nat
    /\ no_of_empty_tables = NumTables - Cardinality(AtTable)
ToServe ==
    \A x \in Waiters :
       /\ S[x] \in Nat
       /\ S[x] = Cardinality(OrderedAt(x)) - (IF wpc[x] = "placed" THEN 1 ELSE 0)
Sums == Pending /\ Tables /\ ToServe

Inv == Types /\ Hands /\ Hall /\ Kitchen /\ Sums

-----------------------------------------------------------------------------
(* The types *)

(* The clock is late or not. *)
LEMMA SetTime == late \in BOOLEAN /\ settime => late' \in BOOLEAN
BY Zenon DEF settime

(* Every step keeps the types; the hands of a cook hold an order when it   *)
(* is announced, and those of a waiter a customer when it is called.       *)
LEMMA TypesStep == Types /\ Hands /\ [Next]_vars => Types'
<1> SUFFICES ASSUME Types, Hands, [Next]_vars PROVE Types'
    OBVIOUS
<1> USE RestaurantAssumption, OrderIs DEF RestaurantAssumption
<1>1. ASSUME NEW k \in Cooks, CookStep(k) PROVE Types'
  <2> USE DEF Types, CookMoves, CookSteps, counters, kitchen, hall, cooks, waiters, guests,
              MayPass, Down, Up
  <2>1. CASE CookWakes(k)
        BY <2>1 DEF CookWakes
  <2>2. CASE CookWondersWhy(k)
        BY <2>2 DEF CookWondersWhy
  <2>3. CASE PrepareOrder(k)
        BY <2>3, EntryTaken DEF PrepareOrder
  <2>4. CASE FinishOrder(k)
    <3>1. hand[k] \in Orders
          BY <2>4 DEF FinishOrder, Hands
    <3>2. hand[k].waiter \in Waiters /\ hand[k].customer \in Customers
          BY <3>1
    <3>3. food_ready' \in [Waiters -> Customers \cup {None}]
          BY <2>4, <3>2 DEF FinishOrder
    <3>4. lost' \subseteq Customers
          BY <2>4, <3>2 DEF FinishOrder
    <3>5. order_pending' \in Int /\ late' \in BOOLEAN /\ kpc' \in [Cooks -> CookSteps]
          BY <2>4, SetTime DEF FinishOrder
    <3> QED BY <2>4, <3>3, <3>4, <3>5 DEF FinishOrder
  <2>5. CASE CallWaiter(k)
        BY <2>5 DEF CallWaiter, Hands
  <2>6. CASE CookLeaves(k)
    <3>1. kpc' \in [Cooks -> CookSteps]
          BY <2>6 DEF CookLeaves
    <3>2. waiter' \in [Waiters -> Nat]
      <4>1. waiter' = [x \in Waiters |-> Up(waiter[x])] \/ waiter' = waiter
            BY <2>6 DEF CookLeaves
      <4>2. waiter \in [Waiters -> Nat] /\ \A x \in Waiters : Up(waiter[x]) \in Nat
            OBVIOUS
      <4> QED BY ONLY <4>1, <4>2
    <3> QED BY <2>6, <3>1, <3>2 DEF CookLeaves
  <2>7. CASE CookStays(k)
        BY <2>7 DEF CookStays
  <2> QED BY <1>1, <2>1, <2>2, <2>3, <2>4, <2>5, <2>6, <2>7 DEF CookStep
<1>2. ASSUME NEW x \in Waiters, WaiterStep(x) PROVE Types'
  <2> USE DEF Types, WaiterMoves, WaiterSteps, counters, kitchen, hall, cooks, waiters,
              guests, MayPass, Down, Up
  <2>1. CASE WaiterWakes(x)
        BY <2>1 DEF WaiterWakes
  <2>2. CASE FetchFood(x)
        BY <2>2 DEF FetchFood
  <2>3. CASE ServeFood(x)
    <3>1. cno[x] \in Customers
          BY <2>3 DEF ServeFood, Hands
    <3>2. customer' \in [Customers -> Nat]
      <4>1. customer' = [customer EXCEPT ![cno[x]] = Up(@)]
            BY <2>3 DEF ServeFood
      <4>2. customer \in [Customers -> Nat] /\ Up(customer[cno[x]]) \in Nat
            BY <3>1
      <4> QED BY ONLY <4>1, <4>2, <3>1
    <3>3. S' \in [Waiters -> Int]
          BY <2>3 DEF ServeFood
    <3>4. cno' \in [Waiters -> Customers \cup {None}] /\ wpc' \in [Waiters -> WaiterSteps]
          BY <2>3 DEF ServeFood
    <3> QED BY <2>3, <3>2, <3>3, <3>4 DEF ServeFood
  <2>4. CASE TakeOrder(x)
    <3>1. /\ queue[x] \in Seq(Customers) /\ queue[x] # <<>>
          BY <2>4 DEF TakeOrder
    <3>2. /\ Tail(queue[x]) \in Seq(Customers) /\ Head(queue[x]) \in Customers
          /\ Len(Tail(queue[x])) = Len(queue[x]) - 1
          BY <3>1, EntryTaken
    <3>3. queue' \in [Waiters -> Seq(Customers)]
          BY <2>4, <3>2 DEF TakeOrder
    <3>4. new_customer' = [y \in Waiters |-> Len(queue'[y])]
          BY <2>4, <3>2 DEF TakeOrder
    <3>5. cno' \in [Waiters -> Customers \cup {None}] /\ wpc' \in [Waiters -> WaiterSteps]
          BY <2>4, <3>2 DEF TakeOrder
    <3> QED BY <2>4, <3>3, <3>4, <3>5 DEF TakeOrder
  <2>5. CASE PlaceOrder(x)
    <3>1. cno[x] \in Customers
          BY <2>5 DEF PlaceOrder, Hands
    <3>2. customer' \in [Customers -> Nat]
          BY <2>5, <3>1 DEF PlaceOrder
    <3>3. [waiter |-> x, customer |-> cno[x]] \in Orders
          BY <3>1 DEF Orders
    <3>4. cookqueue' \in Seq(Orders)
          BY <2>5, <3>3, EntryAdded DEF PlaceOrder
    <3>5. cno' \in [Waiters -> Customers \cup {None}] /\ wpc' \in [Waiters -> WaiterSteps]
          BY <2>5 DEF PlaceOrder
    <3>6. order_pending' \in Int
          BY <2>5 DEF PlaceOrder
    <3>7. late' \in BOOLEAN
          BY ONLY <2>5, late \in BOOLEAN, SetTime DEF PlaceOrder
    <3> QED BY <2>5, <3>2, <3>4, <3>5, <3>6, <3>7 DEF PlaceOrder
  <2>6. CASE CallCook(x)
    <3>1. S' \in [Waiters -> Int] /\ cook' \in Nat /\ wpc' \in [Waiters -> WaiterSteps]
          BY <2>6 DEF CallCook
    <3> QED BY <2>6, <3>1 DEF CallCook
  <2>7. CASE WaiterFindsNothing(x)
        BY <2>7 DEF WaiterFindsNothing
  <2>8. CASE WaiterLeaves(x)
        BY <2>8 DEF WaiterLeaves
  <2>9. CASE WaiterStays(x)
        BY <2>9 DEF WaiterStays
  <2> QED BY <1>2, <2>1, <2>2, <2>3, <2>4, <2>5, <2>6, <2>7, <2>8, <2>9 DEF WaiterStep
<1>3. ASSUME NEW c \in Customers, CustomerStep(c) PROVE Types'
  <2> USE DEF Types, CustomerMoves, CustomerSteps, counters, kitchen, hall, cooks, waiters,
              guests, MayPass, Down, Up
  <2>1. CASE TurnAway(c)
        BY <2>1 DEF TurnAway
  <2>2. CASE TakeTable(c)
    <3> DEFINE x == next_waiter
    <3>1. x \in Waiters /\ queue[x] \in Seq(Customers)
          OBVIOUS
    <3>2. Append(queue[x], c) \in Seq(Customers)
          /\ Len(Append(queue[x], c)) = Len(queue[x]) + 1
          BY <3>1, EntryAdded
    <3>3. queue' \in [Waiters -> Seq(Customers)]
          BY <2>2, <3>1, <3>2 DEF TakeTable
    <3>4. new_customer' = [y \in Waiters |-> Len(queue'[y])]
          BY <2>2, <3>1, <3>2 DEF TakeTable
    <3>5. next_waiter' \in Waiters
      <4>1. next_waiter' = (next_waiter + 1) % NumWaiters /\ next_waiter \in Waiters
            BY <2>2 DEF TakeTable
      <4>2. NumWaiters \in Nat \ {0}
            BY RestaurantAssumption DEF RestaurantAssumption
      <4> QED BY ONLY <4>1, <4>2 DEF Waiters
    <3>6. /\ no_of_empty_tables' \in Int /\ w' \in [Customers -> Waiters]
          /\ cpc' \in [Customers -> CustomerSteps]
          BY <2>2, <3>1 DEF TakeTable
    <3> QED BY <2>2, <3>3, <3>4, <3>5, <3>6 DEF TakeTable
  <2>3. CASE CallForWaiter(c)
        BY <2>3 DEF CallForWaiter
  <2>4. CASE OrderPlaced(c)
        BY <2>4 DEF OrderPlaced
  <2>5. CASE GetFood(c)
        BY <2>5 DEF GetFood
  <2>6. CASE FinishEating(c)
    <3>1. /\ no_of_empty_tables' \in Int /\ late' \in BOOLEAN
          /\ cpc' \in [Customers -> CustomerSteps]
          BY <2>6, SetTime DEF FinishEating
    <3> QED BY <2>6, <3>1 DEF FinishEating
  <2> QED BY <1>3, <2>1, <2>2, <2>3, <2>4, <2>5, <2>6 DEF CustomerStep
<1>4. CASE Close
      BY <1>4 DEF Close, Types, counters, kitchen, hall, cooks, waiters, guests
<1>5. CASE UNCHANGED vars
      BY <1>5 DEF vars, Types, counters, kitchen, hall, cooks, waiters, guests
<1> QED BY <1>1, <1>2, <1>3, <1>4, <1>5 DEF Next

-----------------------------------------------------------------------------
(* What the steps do to the customers and their orders *)

Sits(c, x) == SitsIn(places, places', c, x)
IsAsked(c, x) == IsAskedIn(places, places', c, x)
IsNoted(c, x) == IsNotedIn(places, places', c, x)
IsCooked(k) == IsCookedIn(places, places', k)
IsReady(k) == IsReadyIn(places, places', k)
IsFetched(c, x) == IsFetchedIn(places, places', c, x)
IsServed(c, x) == IsServedIn(places, places', c, x)
Eats(c) == EatsIn(places, places', c)
Same == SameIn(places, places')

(* The types of these. *)
LEMMA Shapes ==
    ASSUME Types, Hands
    PROVE  /\ told \in [Customers -> 0..3]
           /\ note \in [Waiters -> Customers \cup {None}]
           /\ tray \in [Waiters -> Customers \cup {None}]
           /\ pan \in [Cooks -> Orders \cup {NoOrder}]
           /\ None \notin Customers /\ NoOrder \notin Orders
           /\ \A e \in Orders : e.waiter \in Waiters /\ e.customer \in Customers
<1>1. told \in [Customers -> 0..3]
      BY DEF told, Hands
<1>2. note \in [Waiters -> Customers \cup {None}]
      /\ tray \in [Waiters -> Customers \cup {None}]
      BY DEF Types, note, tray
<1>3. pan \in [Cooks -> Orders \cup {NoOrder}]
      BY DEF Hands, pan
<1>4. NoOrder \notin Orders
      BY NoSetContainsEverything DEF NoOrder
<1> QED BY <1>4, <1>1, <1>2, <1>3, RestaurantAssumption, OrderIs DEF RestaurantAssumption

(* So the places are as the lemmas on them need them. *)
LEMMA PlacesAre == Types /\ Hands => PlacesIn(places)
<1> SUFFICES ASSUME Types, Hands PROVE PlacesIn(places)
    OBVIOUS
<1>1. /\ w \in [Customers -> Waiters] /\ queue \in [Waiters -> Seq(Customers)]
      /\ cookqueue \in Seq(Orders) /\ food_ready \in [Waiters -> Customers \cup {None}]
      /\ lost \subseteq Customers
      BY DEF Types
<1> QED BY <1>1, Shapes DEF PlacesIn, places

(* The customers see nothing of what the others do that touches neither    *)
(* their semaphores nor the trays.                                         *)
LEMMA Unseen ==
    /\ UNCHANGED <<cpc, customer>> => told' = told
    /\ UNCHANGED <<wpc, cno>> => note' = note /\ tray' = tray
    /\ UNCHANGED <<kpc, hand>> => pan' = pan
BY DEF told, Waiting, Told, note, tray, pan

(* A waiting customer that is called is told once more. *)
LEMMA ToldStep ==
    ASSUME NEW c \in Customers, Waiting(c), customer[c] \in Nat, cpc' = cpc,
           \A d \in Customers : d # c => customer'[d] = customer[d],
           customer'[c] = customer[c] + 1,
           NEW n \in Nat, Told(c) = n
    PROVE  told' = [told EXCEPT ![c] = n + 1]
<1>1. ASSUME NEW d \in Customers, d # c
      PROVE  told'[d] = told[d]
      BY <1>1 DEF told, Told, Waiting
<1>2. told'[c] = n + 1
      BY DEF told, Told, Waiting
<1>3. DOMAIN told = Customers /\ told = [d \in Customers |-> told[d]]
      /\ told' = [d \in Customers |-> told'[d]]
      BY DEF told
<1> QED BY <1>1, <1>2, <1>3

(* Effects of the steps of a cook ... *)
LEMMA CookEffects ==
    ASSUME Types, Hands, Hall, Kitchen, NEW k \in Cooks, CookStep(k)
    PROVE  Same \/ IsCooked(k) \/ IsReady(k)
<1> USE DEF CookMoves, counters, kitchen, hall, cooks, waiters, guests, Types
<1>1. told' = told /\ note' = note /\ tray' = tray /\ w' = w /\ queue' = queue
  <2>1. UNCHANGED <<cpc, customer, wpc, cno, w, queue>>
        BY DEF CookStep, CookWakes, CookWondersWhy, PrepareOrder, FinishOrder, CallWaiter,
               CookLeaves, CookStays
  <2> QED BY <2>1, Unseen
<1>2. CASE CookWakes(k) \/ CookWondersWhy(k) \/ CookLeaves(k) \/ CookStays(k)
  <2>1. UNCHANGED <<cookqueue, food_ready, lost, hand>>
        BY <1>2 DEF CookWakes, CookWondersWhy, CookLeaves, CookStays
  <2>2. \A l \in Cooks : kpc'[l] = "cooking" <=> kpc[l] = "cooking"
        BY <1>2 DEF CookWakes, CookWondersWhy, CookLeaves, CookStays
  <2>3. pan' = pan
        BY <2>1, <2>2 DEF pan
  <2> QED BY <1>1, <2>1, <2>3 DEF Same, SameIn, places
<1>3. CASE PrepareOrder(k)
  <2>1. pan[k] = NoOrder /\ pan' = [pan EXCEPT ![k] = Head(cookqueue)]
        BY <1>3 DEF PrepareOrder, pan
  <2>2. cookqueue # <<>> /\ cookqueue' = Tail(cookqueue) /\ UNCHANGED <<food_ready, lost>>
        BY <1>3 DEF PrepareOrder
  <2> QED BY <1>1, <2>1, <2>2 DEF IsCooked, IsCookedIn, places
<1>4. CASE FinishOrder(k)
  <2>1. pan[k] = hand[k] /\ hand[k] \in Orders
        BY <1>4 DEF FinishOrder, pan, Hands
  <2>2. pan' = [pan EXCEPT ![k] = NoOrder]
        BY <1>4 DEF FinishOrder, pan
  <2>3. pan[k] # NoOrder
        BY <2>1, Shapes
  <2>4. /\ food_ready' = [food_ready EXCEPT ![hand[k].waiter] = hand[k].customer]
        /\ lost' = (lost \cup {food_ready[hand[k].waiter]}) \ {None}
        /\ cookqueue' = cookqueue
        BY <1>4 DEF FinishOrder
  <2> QED BY <1>1, <2>1, <2>2, <2>3, <2>4 DEF IsReady, IsReadyIn, places
<1>5. CASE CallWaiter(k)
  <2>1. UNCHANGED <<cookqueue, food_ready, lost>>
        BY <1>5 DEF CallWaiter
  <2>2. pan' = pan
        BY <1>5 DEF CallWaiter, pan
  <2> QED BY <1>1, <2>1, <2>2 DEF Same, SameIn, places
<1> QED BY <1>2, <1>3, <1>4, <1>5 DEF CookStep

(* A waiter serves a customer that waits for its food, ... *)
LEMMA ServeEffect ==
    ASSUME Types, Hands, Hall, Kitchen, NEW x \in Waiters, ServeFood(x)
    PROVE  cno[x] \in Customers /\ IsServed(cno[x], x)
<1> USE DEF WaiterMoves, counters, kitchen, hall, cooks, waiters, guests, Types
<1> DEFINE c == cno[x]
<1>1. c \in Customers /\ tray[x] = c /\ tray' = [tray EXCEPT ![x] = None] /\ note' = note
      BY DEF ServeFood, tray, note, Hands
<1>2. told[c] = 1 /\ c # None
  <2>1. c # None
        BY <1>1, RestaurantAssumption DEF RestaurantAssumption
  <2>2. \A y \in Waiters : tray[y] # None => told[tray[y]] = 1
        BY DEF Kitchen, KitchenIn, places
  <2> QED BY <1>1, <2>1, <2>2
<1>3. Waiting(c) /\ Told(c) = 1 /\ ~removed
      BY <1>1, <1>2 DEF told, Hands, Waiting
<1>4. customer' = [customer EXCEPT ![c] = @ + 1] /\ cpc' = cpc
      BY <1>3 DEF ServeFood, Up
<1>5. told' = [told EXCEPT ![c] = 2]
  <2>1. \A d \in Customers : d # c => customer'[d] = customer[d]
        BY <1>4
  <2>2. customer'[c] = customer[c] + 1
        BY <1>1, <1>4
  <2> HIDE DEF c
  <2> QED BY <1>1, <1>3, <1>4, <2>1, <2>2, ToldStep
<1>6. UNCHANGED <<queue, cookqueue, food_ready>>
      BY DEF ServeFood
<1>7. pan' = pan /\ w' = w /\ lost' = lost
  <2>1. UNCHANGED <<kpc, hand, w, lost>>
        BY DEF ServeFood
  <2> QED BY <2>1, Unseen
<1> QED BY <1>7, <1>1, <1>5, <1>6 DEF IsServed, IsServedIn, places

(* ... and notes the order of one that has not been called yet. *)
LEMMA PlaceEffect ==
    ASSUME Types, Hands, Hall, Kitchen, NEW x \in Waiters, PlaceOrder(x)
    PROVE  cno[x] \in Customers /\ IsNoted(cno[x], x)
<1> USE DEF WaiterMoves, counters, kitchen, hall, cooks, waiters, guests, Types
<1> DEFINE c == cno[x]
<1>1. c \in Customers /\ note[x] = c /\ note' = [note EXCEPT ![x] = None] /\ tray' = tray
      BY DEF PlaceOrder, tray, note, Hands
<1>2. told[c] = 0 /\ c # None
  <2>1. c # None
        BY <1>1, RestaurantAssumption DEF RestaurantAssumption
  <2>2. \A y \in Waiters : note[y] # None => told[note[y]] = 0
        BY DEF Hall, HallIn, places
  <2> QED BY <1>1, <2>1, <2>2
<1>3. Waiting(c) /\ Told(c) = 0 /\ ~removed
      BY <1>1, <1>2 DEF told, Hands, Waiting
<1>4. customer' = [customer EXCEPT ![c] = @ + 1] /\ cpc' = cpc
      BY <1>3 DEF PlaceOrder, Up
<1>5. told' = [told EXCEPT ![c] = 1]
  <2>1. \A d \in Customers : d # c => customer'[d] = customer[d]
        BY <1>4
  <2>2. customer'[c] = customer[c] + 1
        BY <1>1, <1>4
  <2> HIDE DEF c
  <2> QED BY <1>1, <1>3, <1>4, <2>1, <2>2, ToldStep
<1>6. /\ cookqueue' = Append(cookqueue, [waiter |-> x, customer |-> c])
      /\ UNCHANGED <<queue, food_ready>>
      BY DEF PlaceOrder
<1>7. pan' = pan /\ w' = w /\ lost' = lost
  <2>1. UNCHANGED <<kpc, hand, w, lost>>
        BY DEF PlaceOrder
  <2> QED BY <2>1, Unseen
<1> QED BY <1>7, <1>1, <1>5, <1>6 DEF IsNoted, IsNotedIn, places

(* ... of a waiter, ... *)
LEMMA WaiterEffects ==
    ASSUME Types, Hands, Hall, Kitchen, NEW x \in Waiters, WaiterStep(x)
    PROVE  Same \/ \E c \in Customers : IsAsked(c, x) \/ IsNoted(c, x)
                                        \/ IsFetched(c, x) \/ IsServed(c, x)
<1> USE DEF WaiterMoves, counters, kitchen, hall, cooks, waiters, guests, Types
<1>1. pan' = pan /\ w' = w /\ lost' = lost
  <2>1. UNCHANGED <<kpc, hand, w, lost>>
        BY DEF WaiterStep, WaiterWakes, FetchFood, ServeFood, TakeOrder, PlaceOrder,
               CallCook, WaiterFindsNothing, WaiterLeaves, WaiterStays
  <2> QED BY <2>1, Unseen
<1>2. CASE \/ WaiterWakes(x) \/ CallCook(x) \/ WaiterFindsNothing(x)
           \/ WaiterLeaves(x) \/ WaiterStays(x)
  <2>1. UNCHANGED <<cookqueue, food_ready, queue, cno, cpc, customer>>
        BY <1>2 DEF WaiterWakes, CallCook, WaiterFindsNothing, WaiterLeaves, WaiterStays
  <2>2. \A y \in Waiters : /\ wpc'[y] = "noting" <=> wpc[y] = "noting"
                           /\ wpc'[y] = "serving" <=> wpc[y] = "serving"
        BY <1>2 DEF WaiterWakes, CallCook, WaiterFindsNothing, WaiterLeaves, WaiterStays
  <2>3. note' = note /\ tray' = tray
        BY <2>1, <2>2 DEF note, tray
  <2> QED BY <1>1, <2>1, <2>3, Unseen DEF Same, SameIn, places
<1>3. CASE FetchFood(x)
  <2> DEFINE c == food_ready[x]
  <2>1. c \in Customers /\ tray[x] = None /\ tray' = [tray EXCEPT ![x] = c] /\ note' = note
        BY <1>3 DEF FetchFood, tray, note
  <2>2. told' = told
        BY <1>3, Unseen DEF FetchFood
  <2>3. food_ready' = [food_ready EXCEPT ![x] = None] /\ UNCHANGED <<queue, cookqueue>>
        BY <1>3 DEF FetchFood
  <2> QED BY <1>1, <2>1, <2>2, <2>3 DEF IsFetched, IsFetchedIn, places
<1>4. CASE ServeFood(x)
      BY <1>4, ServeEffect
<1>5. CASE TakeOrder(x)
  <2> DEFINE c == Head(queue[x])
  <2>1. queue[x] # <<>> /\ queue[x] \in Seq(Customers)
        BY <1>5 DEF TakeOrder
  <2>2. c \in Customers
        BY <2>1, EntryTaken
  <2>3. note[x] = None /\ note' = [note EXCEPT ![x] = c] /\ tray' = tray
        BY <1>5 DEF TakeOrder, note, tray
  <2>4. queue' = [queue EXCEPT ![x] = Tail(@)] /\ UNCHANGED <<cookqueue, food_ready>>
        BY <1>5 DEF TakeOrder
  <2>5. told' = told
        BY <1>5, Unseen DEF TakeOrder
  <2> QED BY <1>1, <2>1, <2>2, <2>3, <2>4, <2>5 DEF IsAsked, IsAskedIn, places
<1>6. CASE PlaceOrder(x)
      BY <1>6, PlaceEffect
<1> QED BY <1>2, <1>3, <1>4, <1>5, <1>6 DEF WaiterStep

(* ... and of a customer. *)
LEMMA CustomerEffects ==
    ASSUME Types, Hands, NEW c \in Customers, CustomerStep(c)
    PROVE  \/ (TurnAway(c) \/ CallForWaiter(c) \/ OrderPlaced(c) \/ FinishEating(c)) /\ Same
           \/ GetFood(c) /\ Eats(c)
           \/ TakeTable(c) /\ Sits(c, next_waiter)
<1> USE DEF CustomerMoves, counters, kitchen, hall, cooks, waiters, guests, Types
<1>1. UNCHANGED <<pan, note, tray, cookqueue, food_ready, lost>>
  <2>1. UNCHANGED <<kpc, hand, wpc, cno, cookqueue, food_ready, lost>>
        BY DEF CustomerStep, TurnAway, TakeTable, CallForWaiter, OrderPlaced, GetFood,
               FinishEating
  <2> QED BY <2>1, Unseen
<1>2. CASE TurnAway(c) \/ CallForWaiter(c) \/ FinishEating(c)
  <2>1. UNCHANGED <<w, queue, customer>>
        BY <1>2 DEF TurnAway, CallForWaiter, FinishEating
  <2>2. told' = told
        BY <1>2, <2>1 DEF TurnAway, CallForWaiter, FinishEating, told, Told, Waiting
  <2> QED BY <1>2, <1>1, <2>1, <2>2 DEF Same, SameIn, places
<1>3. CASE OrderPlaced(c)
  <2>1. UNCHANGED <<w, queue>> /\ cpc[c] = "ordering"
        BY <1>3 DEF OrderPlaced
  <2>2. ~removed /\ customer' = [customer EXCEPT ![c] = @ - 1]
        BY <1>3, <2>1 DEF OrderPlaced, Down, Hands
  <2>3. told' = told
    <3>1. cpc' = [cpc EXCEPT ![c] = "hungry"]
          BY <1>3 DEF OrderPlaced
    <3>2. \A d \in Customers : (Waiting(d)' <=> Waiting(d)) /\ (d # c => Told(d)' = Told(d))
          BY <2>1, <2>2, <3>1 DEF Told, Waiting
    <3>3. Told(c)' = Told(c)
      <4>1. customer[c] \in Nat /\ customer'[c] = customer[c] - 1
            BY <2>2
      <4>2. cpc[c] # "hungry" /\ cpc'[c] = "hungry"
            BY <2>1, <3>1
      <4> QED BY ONLY <4>1, <4>2 DEF Told
    <3> QED BY <3>2, <3>3 DEF told
  <2> QED BY <1>3, <1>1, <2>1, <2>3 DEF Same, SameIn, places
<1>4. CASE GetFood(c)
  <2>1. UNCHANGED <<w, queue>> /\ cpc[c] = "hungry"
        BY <1>4 DEF GetFood
  <2>2. ~removed /\ customer[c] > 0
        BY <1>4, <2>1 DEF GetFood, MayPass, Hands
  <2>3. told[c] = 2
    <3>1. Waiting(c) /\ Told(c) \in 0..2 /\ Told(c) = customer[c] + 1 /\ customer[c] \in Nat
          BY <2>1 DEF Hands, Told, Waiting
    <3> QED BY <2>2, <3>1 DEF told
  <2>4. told' = [told EXCEPT ![c] = 3]
        BY <1>4, <2>1, <2>2 DEF GetFood, Down, told, Told, Waiting
  <2> QED BY <1>4, <1>1, <2>1, <2>3, <2>4 DEF Eats, EatsIn, places
<1>5. CASE TakeTable(c)
  <2>1. customer[c] = 0 /\ cpc[c] = "arriving" /\ customer' = customer
        BY <1>5 DEF TakeTable, Hands, Waiting
  <2>2. told[c] = 3 /\ told' = [told EXCEPT ![c] = 0]
    <3>1. /\ \A d \in Customers : d # c => cpc'[d] = cpc[d]
          /\ cpc'[c] = "calling"
          BY <1>5 DEF TakeTable
    <3>2. told[c] = 3
          BY <2>1 DEF told, Waiting
    <3>3. ASSUME NEW d \in Customers
          PROVE  told'[d] = IF d = c THEN 0 ELSE told[d]
          BY <2>1, <3>1 DEF told, Told, Waiting
    <3>4. told' = [told EXCEPT ![c] = 0]
          BY <3>3 DEF told
    <3> QED BY <3>2, <3>4
  <2>3. /\ w' = [w EXCEPT ![c] = next_waiter]
        /\ queue' = [queue EXCEPT ![next_waiter] = Append(@, c)]
        BY <1>5 DEF TakeTable
  <2> QED BY <1>5, <1>1, <2>2, <2>3 DEF Sits, SitsIn, places
<1> QED BY <1>2, <1>3, <1>4, <1>5 DEF CustomerStep

(* Nobody takes an order or serves food of a customer that does not wait   *)
(* for it, so that no semaphore of a customer gets above 2; and when all   *)
(* customers are gone they stay gone.                                      *)
LEMMA HandsStep == Types /\ Hands /\ Hall /\ Kitchen /\ [Next]_vars => Hands'
<1> SUFFICES ASSUME Types, Hands, Hall, Kitchen, [Next]_vars PROVE Hands'
    OBVIOUS
<1> USE DEF counters, kitchen, hall, cooks, waiters, guests
<1>1. ASSUME NEW k \in Cooks, CookStep(k) PROVE Hands'
  <2>1. UNCHANGED <<customer, cpc, wpc, cno, removed>>
        BY <1>1 DEF CookStep, CookWakes, CookWondersWhy, PrepareOrder, FinishOrder,
                    CallWaiter, CookLeaves, CookStays
  <2>2. \A l \in Cooks : kpc'[l] \in {"cooking", "prepared"} => hand'[l] \in Orders
    <3> USE DEF Hands, Types, CookMoves
    <3>1. CASE CookWakes(k) \/ CookWondersWhy(k) \/ CookLeaves(k) \/ CookStays(k)
          BY <3>1 DEF CookWakes, CookWondersWhy, CookLeaves, CookStays
    <3>2. CASE PrepareOrder(k)
      <4>1. Head(cookqueue) \in Orders
            BY <3>2, EntryTaken DEF PrepareOrder
      <4> QED BY <3>2, <4>1 DEF PrepareOrder
    <3>3. CASE FinishOrder(k) \/ CallWaiter(k)
          BY <3>3 DEF FinishOrder, CallWaiter
    <3> QED BY <1>1, <3>1, <3>2, <3>3 DEF CookStep
  <2> QED BY <2>1, <2>2 DEF Hands, Waiting, Told
<1>2. ASSUME NEW x \in Waiters, WaiterStep(x) PROVE Hands'
  <2>1. UNCHANGED <<cpc, kpc, hand, removed>>
        BY <1>2 DEF WaiterStep, WaiterWakes, FetchFood, ServeFood, TakeOrder, PlaceOrder,
                    CallCook, WaiterFindsNothing, WaiterLeaves, WaiterStays
  <2>2. \A y \in Waiters : wpc'[y] \in {"serving", "noting"} => cno'[y] \in Customers
    <3> USE DEF Hands, Types, WaiterMoves
    <3>1. CASE \/ WaiterWakes(x) \/ CallCook(x) \/ WaiterFindsNothing(x)
               \/ WaiterLeaves(x) \/ WaiterStays(x) \/ ServeFood(x) \/ PlaceOrder(x)
      <4>1. wpc' = [wpc EXCEPT ![x] = wpc'[x]] /\ wpc'[x] \notin {"serving", "noting"}
        <5>1. CASE WaiterWakes(x) \/ WaiterFindsNothing(x)
              BY <5>1 DEF WaiterWakes, WaiterFindsNothing
        <5>2. CASE CallCook(x) \/ WaiterLeaves(x) \/ WaiterStays(x)
              BY <5>2 DEF CallCook, WaiterLeaves, WaiterStays
        <5>3. CASE ServeFood(x) \/ PlaceOrder(x)
              BY <5>3 DEF ServeFood, PlaceOrder
        <5> QED BY ONLY <3>1, <5>1, <5>2, <5>3
      <4>2. cno' = cno \/ cno' = [cno EXCEPT ![x] = None]
            BY <3>1 DEF WaiterWakes, CallCook, WaiterFindsNothing, WaiterLeaves, WaiterStays,
                        ServeFood, PlaceOrder
      <4>3. \A y \in Waiters : y # x => wpc'[y] = wpc[y] /\ cno'[y] = cno[y]
            BY <4>1, <4>2
      <4> QED BY <4>1, <4>3
    <3>2. CASE FetchFood(x)
          BY <3>2 DEF FetchFood
    <3>3. CASE TakeOrder(x)
      <4>1. queue[x] \in Seq(Customers) /\ queue[x] # <<>>
            BY <3>3 DEF TakeOrder
      <4>2. Head(queue[x]) \in Customers
            BY <4>1, EntryTaken
      <4> QED BY <3>3, <4>2 DEF TakeOrder
    <3> QED BY <1>2, <3>1, <3>2, <3>3 DEF WaiterStep
  <2>3. \A c \in Customers : IF Waiting(c) THEN Told(c)' \in 0..2 ELSE customer'[c] = 0
    <3>1. CASE UNCHANGED customer
          BY <2>1, <3>1 DEF Hands, Told, Waiting
    <3>2. CASE ServeFood(x) \/ PlaceOrder(x)
      <4>1. PICK c \in Customers : c = cno[x] /\ c # None
            BY <3>2, RestaurantAssumption
            DEF ServeFood, PlaceOrder, WaiterMoves, Hands, RestaurantAssumption
      <4>2. told[c] \in {0, 1}
        <5>1. tray[x] = c \/ note[x] = c
              BY <3>2, <4>1 DEF ServeFood, PlaceOrder, WaiterMoves, tray, note
        <5>2. \A y \in Waiters : /\ tray[y] # None => told[tray[y]] = 1
                                 /\ note[y] # None => told[note[y]] = 0
              BY DEF Hall, HallIn, places, Kitchen, KitchenIn
        <5> QED BY <5>1, <5>2, <4>1
      <4>3. Waiting(c) /\ Told(c) \in {0, 1}
            BY <4>1, <4>2 DEF told
      <4>4. customer' = [customer EXCEPT ![c] = IF removed THEN @ ELSE @ + 1]
            BY <3>2, <4>1 DEF ServeFood, PlaceOrder, Up
      <4>5. customer[c] \in Nat /\ customer \in [Customers -> Nat]
            BY <4>1 DEF Types
      <4>6. Told(c)' \in 0..2
        <5>1. customer'[c] \in {customer[c], customer[c] + 1}
              BY <4>1, <4>4, <4>5
        <5> QED BY <2>1, <4>3, <4>5, <5>1 DEF Told
      <4>7. \A d \in Customers : d # c => customer'[d] = customer[d]
            BY <4>4, <4>5
      <4> QED BY <2>1, <4>3, <4>6, <4>7 DEF Hands, Told, Waiting
    <3> QED BY <1>2, <3>1, <3>2 DEF WaiterStep, WaiterWakes, FetchFood, TakeOrder,
                                    CallCook, WaiterFindsNothing, WaiterLeaves, WaiterStays
  <2> QED BY <2>1, <2>2, <2>3 DEF Hands, Waiting
<1>3. ASSUME NEW c \in Customers, CustomerStep(c) PROVE Hands'
  <2>1. UNCHANGED <<kpc, hand, wpc, cno, removed>>
        BY <1>3 DEF CustomerStep, TurnAway, TakeTable, CallForWaiter, OrderPlaced, GetFood,
                    FinishEating
  <2>2. /\ \A d \in Customers : d # c => cpc'[d] = cpc[d] /\ customer'[d] = customer[d]
        /\ cpc[c] # "gone"
    <3> USE DEF Types, CustomerMoves
    <3>1. CASE TurnAway(c) \/ TakeTable(c) \/ CallForWaiter(c) \/ FinishEating(c)
          BY <3>1 DEF TurnAway, TakeTable, CallForWaiter, FinishEating
    <3>2. CASE OrderPlaced(c) \/ GetFood(c)
          BY <3>2 DEF OrderPlaced, GetFood
    <3> QED BY <1>3, <3>1, <3>2 DEF CustomerStep
  <2>3. ~removed
        BY <2>2 DEF Hands
  <2>4. IF Waiting(c)' THEN Told(c)' \in 0..2 ELSE customer'[c] = 0
    <3>1. /\ customer[c] \in Nat
          /\ IF cpc[c] \in {"calling", "ordering", "hungry"}
             THEN customer[c] + (IF cpc[c] = "hungry" THEN 1 ELSE 0) \in 0..2
             ELSE customer[c] = 0
          BY DEF Types, Hands, Told, Waiting
    <3>2. CASE TurnAway(c) \/ TakeTable(c) \/ CallForWaiter(c) \/ FinishEating(c)
      <4>1. customer'[c] = customer[c]
            BY <3>2 DEF TurnAway, TakeTable, CallForWaiter, FinishEating
      <4>2. \/ cpc[c] = "arriving" /\ cpc'[c] \in {"gone", "calling"}
            \/ cpc[c] = "calling" /\ cpc'[c] = "ordering"
            \/ cpc[c] = "eating" /\ cpc'[c] = "gone"
            BY <3>2 DEF Types, CustomerMoves, TurnAway, TakeTable, CallForWaiter, FinishEating
      <4> QED BY <3>1, <4>1, <4>2 DEF Told, Waiting
    <3>3. CASE OrderPlaced(c) \/ GetFood(c)
      <4>1. customer[c] > 0 /\ customer'[c] = customer[c] - 1
            BY <2>3, <3>3 DEF Types, OrderPlaced, GetFood, MayPass, Down
      <4>2. \/ cpc[c] = "ordering" /\ cpc'[c] = "hungry"
            \/ cpc[c] = "hungry" /\ cpc'[c] = "eating"
            BY <3>3 DEF Types, CustomerMoves, OrderPlaced, GetFood
      <4> QED BY <3>1, <4>1, <4>2 DEF Told, Waiting
    <3> QED BY <1>3, <3>2, <3>3 DEF CustomerStep
  <2> QED BY <2>1, <2>2, <2>3, <2>4 DEF Hands, Told, Waiting
<1>4. CASE Close
      BY <1>4 DEF Close, Hands, Told, Waiting
<1>5. CASE UNCHANGED vars
      BY <1>5 DEF vars, Hands, Told, Waiting
<1> QED BY <1>1, <1>2, <1>3, <1>4, <1>5 DEF Next


(* So everybody and every order keeps its place. *)
LEMMA PlacesStep == Types /\ Hands /\ Hall /\ Kitchen /\ [Next]_vars => Hall' /\ Kitchen'
<1> SUFFICES ASSUME Types, Hands, Hall, Kitchen, [Next]_vars PROVE Hall' /\ Kitchen'
    OBVIOUS
<1>1. \/ Same
      \/ \E c \in Customers, x \in Waiters : Sits(c, x) \/ IsAsked(c, x) \/ IsNoted(c, x)
                                             \/ IsFetched(c, x) \/ IsServed(c, x)
      \/ \E k \in Cooks : IsCooked(k) \/ IsReady(k)
      \/ \E c \in Customers : Eats(c)
  <2>1. CASE \E k \in Cooks : CookStep(k)
        BY <2>1, CookEffects
  <2>2. CASE \E x \in Waiters : WaiterStep(x)
        BY <2>2, WaiterEffects
  <2>3. CASE \E c \in Customers : CustomerStep(c)
    <3>1. next_waiter \in Waiters
          BY DEF Types
    <3> QED BY <2>3, <3>1, CustomerEffects
  <2>4. CASE Close \/ UNCHANGED vars
    <3>1. UNCHANGED <<cpc, customer, wpc, cno, kpc, hand, w, queue, cookqueue, food_ready, lost>>
          BY <2>4 DEF Close, vars, counters, kitchen, hall, cooks, waiters, guests
    <3> QED BY <3>1, Unseen DEF Same, SameIn, places
  <2> QED BY <2>1, <2>2, <2>3, <2>4 DEF Next
<1>2. PlacesIn(places)
      BY PlacesAre
<1> QED BY <1>1, <1>2, PlacesKept DEF Hall, Kitchen, Same, Sits, IsAsked, IsNoted, IsFetched,
                                      IsServed, IsCooked, IsReady, Eats

-----------------------------------------------------------------------------
(* The counters *)

(* One more or one less in a finite set. *)
LEMMA Count ==
    ASSUME NEW T, IsFiniteSet(T), NEW e
    PROVE  /\ Cardinality(T) \in Nat
           /\ e \notin T => Cardinality(T \cup {e}) = Cardinality(T) + 1
           /\ e \in T => Cardinality(T \ {e}) = Cardinality(T) - 1 /\ Cardinality(T) > 0
<1>1. /\ Cardinality(T) \in Nat /\ Cardinality(T \ {e}) \in Nat
      BY FS_CardinalityType, FS_Subset
<1>2. e \in T => Cardinality(T \ {e}) = Cardinality(T) - 1
      BY FS_RemoveElement
<1> QED BY <1>1, <1>2, FS_AddElement

(* The sets that are counted are finite. *)
LEMMA Finite ==
    /\ IsFiniteSet(Cooking) /\ IsFiniteSet(AtTable)
    /\ \A x \in Waiters : IsFiniteSet(OrderedAt(x))
BY RestaurantAssumption, FS_Subset DEF RestaurantAssumption, Cooking, AtTable, OrderedAt

(* order_pending counts the orders that are queued or being prepared. *)
LEMMA PendingStep == Types /\ Hands /\ Pending /\ [Next]_vars => Pending'
<1> SUFFICES ASSUME Types, Hands, Pending, [Next]_vars PROVE Pending'
    OBVIOUS
<1> USE DEF counters, kitchen, hall, cooks, waiters, guests, CookMoves, WaiterMoves
<1>1. CASE UNCHANGED <<cookqueue, order_pending, Cooking>>
      BY <1>1 DEF Pending
<1>2. Cardinality(Cooking) \in Nat /\ cookqueue \in Seq(Orders) /\ Len(cookqueue) \in Nat
      /\ order_pending = Len(cookqueue) + Cardinality(Cooking)
      BY Finite, Count, LenProperties DEF Types, Pending
<1>3. ASSUME NEW k \in Cooks, CookStep(k) PROVE Pending'
  <2>1. CASE PrepareOrder(k)
    <3>1. k \notin Cooking /\ Cooking' = Cooking \cup {k}
          BY <2>1 DEF PrepareOrder, Cooking, Types
    <3>2. Cardinality(Cooking') = Cardinality(Cooking) + 1
          BY <3>1, Finite, Count
    <3>3. Len(cookqueue') = Len(cookqueue) - 1 /\ order_pending' = order_pending
          BY <2>1, <1>2, EntryTaken DEF PrepareOrder
    <3> QED BY <3>2, <3>3, <1>2 DEF Pending
  <2>2. CASE FinishOrder(k)
    <3>1. k \in Cooking /\ Cooking' = Cooking \ {k}
          BY <2>2 DEF FinishOrder, Cooking, Types
    <3>2. Cardinality(Cooking') = Cardinality(Cooking) - 1
          BY <3>1, Finite, Count
    <3>3. cookqueue' = cookqueue /\ order_pending' = order_pending - 1
          BY <2>2 DEF FinishOrder
    <3> QED BY <3>2, <3>3, <1>2 DEF Pending
  <2>3. CASE \/ CookWakes(k) \/ CookWondersWhy(k) \/ CallWaiter(k)
             \/ CookLeaves(k) \/ CookStays(k)
    <3>1. UNCHANGED <<cookqueue, order_pending>>
          BY <2>3 DEF CookWakes, CookWondersWhy, CallWaiter, CookLeaves, CookStays
    <3>2. \A l \in Cooks : kpc'[l] = "cooking" <=> kpc[l] = "cooking"
          BY <2>3 DEF CookWakes, CookWondersWhy, CallWaiter, CookLeaves, CookStays, Types
    <3> QED BY <1>1, <3>1, <3>2 DEF Cooking
  <2> QED BY <1>3, <2>1, <2>2, <2>3 DEF CookStep
<1>4. ASSUME NEW x \in Waiters, WaiterStep(x) PROVE Pending'
  <2>1. Cooking' = Cooking
        BY <1>4 DEF WaiterStep, WaiterWakes, FetchFood, ServeFood, TakeOrder, PlaceOrder,
                    CallCook, WaiterFindsNothing, WaiterLeaves, WaiterStays, Cooking
  <2>2. CASE PlaceOrder(x)
    <3>1. [waiter |-> x, customer |-> cno[x]] \in Orders
          BY <2>2 DEF PlaceOrder, Hands, Orders
    <3>2. Len(cookqueue') = Len(cookqueue) + 1 /\ order_pending' = order_pending + 1
          BY <2>2, <3>1, <1>2, EntryAdded DEF PlaceOrder
    <3> QED BY <2>1, <3>2, <1>2 DEF Pending
  <2>3. CASE ~PlaceOrder(x)
    <3>1. UNCHANGED <<cookqueue, order_pending>>
          BY <1>4, <2>3 DEF WaiterStep, WaiterWakes, FetchFood, ServeFood, TakeOrder,
                            CallCook, WaiterFindsNothing, WaiterLeaves, WaiterStays
    <3> QED BY <1>1, <2>1, <3>1
  <2> QED BY <2>2, <2>3
<1>5. CASE \/ \E c \in Customers : CustomerStep(c)
           \/ Close \/ UNCHANGED vars
  <2>1. UNCHANGED <<cookqueue, order_pending, kpc>>
        BY <1>5 DEF CustomerStep, TurnAway, TakeTable, CallForWaiter, OrderPlaced, GetFood,
                    FinishEating, Close, vars
  <2> QED BY <1>1, <2>1 DEF Cooking
<1> QED BY <1>3, <1>4, <1>5 DEF Next

(* A table is taken by every customer from when it sits down until it has  *)
(* eaten.                                                                  *)
LEMMA TablesStep == Types /\ Tables /\ [Next]_vars => Tables'
<1> SUFFICES ASSUME Types, Tables, [Next]_vars PROVE Tables'
    OBVIOUS
<1> USE DEF counters, kitchen, hall, cooks, waiters, guests, CustomerMoves
<1>1. /\ Cardinality(AtTable) \in Nat /\ NumTables \in Nat /\ no_of_empty_tables \in Nat
      /\ no_of_empty_tables = NumTables - Cardinality(AtTable)
      BY Finite, Count, RestaurantAssumption DEF Tables, RestaurantAssumption
<1>2. ASSUME NEW c \in Customers, CustomerStep(c) PROVE Tables'
  <2>1. CASE TakeTable(c)
    <3>1. c \notin AtTable /\ AtTable' = AtTable \cup {c}
          BY <2>1 DEF TakeTable, AtTable, Types
    <3>2. Cardinality(AtTable') = Cardinality(AtTable) + 1
          BY <3>1, Finite, Count
    <3>3. no_of_empty_tables # 0 /\ no_of_empty_tables' = no_of_empty_tables - 1
          BY <2>1 DEF TakeTable
    <3> QED BY <3>2, <3>3, <1>1 DEF Tables
  <2>2. CASE FinishEating(c)
    <3>1. c \in AtTable /\ AtTable' = AtTable \ {c}
          BY <2>2 DEF FinishEating, AtTable, Types
    <3>2. Cardinality(AtTable') = Cardinality(AtTable) - 1
          BY <3>1, Finite, Count
    <3>3. no_of_empty_tables' = no_of_empty_tables + 1
          BY <2>2 DEF FinishEating
    <3> QED BY <3>2, <3>3, <1>1 DEF Tables
  <2>3. CASE TurnAway(c) \/ CallForWaiter(c) \/ OrderPlaced(c) \/ GetFood(c)
    <3>1. no_of_empty_tables' = no_of_empty_tables
          BY <2>3 DEF TurnAway, CallForWaiter, OrderPlaced, GetFood
    <3>2. AtTable' = AtTable
          BY <2>3 DEF TurnAway, CallForWaiter, OrderPlaced, GetFood, AtTable, Types
    <3> QED BY <3>1, <3>2 DEF Tables
  <2> QED BY <1>2, <2>1, <2>2, <2>3 DEF CustomerStep
<1>3. CASE \/ \E k \in Cooks : CookStep(k)
           \/ \E x \in Waiters : WaiterStep(x)
           \/ Close \/ UNCHANGED vars
  <2>1. UNCHANGED <<no_of_empty_tables, cpc>>
        BY <1>3 DEF CookStep, CookWakes, CookWondersWhy, PrepareOrder, FinishOrder,
                    CallWaiter, CookLeaves, CookStays, WaiterStep, WaiterWakes, FetchFood,
                    ServeFood, TakeOrder, PlaceOrder, CallCook, WaiterFindsNothing,
                    WaiterLeaves, WaiterStays, Close, vars
  <2> QED BY <2>1 DEF Tables, AtTable
<1> QED BY <1>2, <1>3 DEF Next

(* S counts the customers of a waiter whose order is noted and who are not *)
(* served, and lags one behind until a cook is called for the last order.  *)
LEMMA ToServeStep ==
    Types /\ Hands /\ Hall /\ Kitchen /\ ToServe /\ [Next]_vars => ToServe'
<1> SUFFICES ASSUME Types, Hands, Hall, Kitchen, ToServe, [Next]_vars PROVE ToServe'
    OBVIOUS
<1> USE DEF counters, kitchen, hall, cooks, waiters, guests, WaiterMoves
<1>1. \A x \in Waiters :
         /\ Cardinality(OrderedAt(x)) \in Nat /\ S[x] \in Nat
         /\ S[x] = Cardinality(OrderedAt(x)) - (IF wpc[x] = "placed" THEN 1 ELSE 0)
      BY Finite, Count DEF ToServe
<1>2. ASSUME NEW x \in Waiters,
             \A y \in Waiters : y # x => /\ OrderedAt(y)' = OrderedAt(y)
                                         /\ S'[y] = S[y] /\ wpc'[y] = wpc[y],
             S'[x] \in Nat,
             S'[x] = Cardinality(OrderedAt(x)') - (IF wpc'[x] = "placed" THEN 1 ELSE 0)
      PROVE  ToServe'
      BY <1>1, <1>2 DEF ToServe
<1>3. ASSUME \A y \in Waiters : OrderedAt(y)' = OrderedAt(y), S' = S,
             \A y \in Waiters : wpc'[y] = "placed" <=> wpc[y] = "placed"
      PROVE  ToServe'
      BY <1>1, <1>3 DEF ToServe
<1>4. UNCHANGED <<told, w>> => \A y \in Waiters : OrderedAt(y)' = OrderedAt(y)
      BY DEF OrderedAt
<1>5. ASSUME NEW x \in Waiters, WaiterStep(x) PROVE ToServe'
  <2>1. \A y \in Waiters : y # x => S'[y] = S[y] /\ wpc'[y] = wpc[y]
        BY <1>5 DEF WaiterStep, WaiterWakes, FetchFood, ServeFood, TakeOrder, PlaceOrder,
                    CallCook, WaiterFindsNothing, WaiterLeaves, WaiterStays, Types
  <2>2. CASE PlaceOrder(x)
    <3>1. PICK c \in Customers : IsNoted(c, x)
          BY <2>2, PlaceEffect
    <3>2. /\ told[c] = 0 /\ w[c] = x /\ w' = w
          /\ told'[c] = 1 /\ \A d \in Customers : d # c => told'[d] = told[d]
          BY <3>1, Shapes DEF IsNoted, IsNotedIn, places, Hall, HallIn
    <3>3. c \notin OrderedAt(x) /\ OrderedAt(x)' = OrderedAt(x) \cup {c}
          BY <3>2 DEF OrderedAt
    <3>4. Cardinality(OrderedAt(x)') = Cardinality(OrderedAt(x)) + 1
          BY <3>3, Finite, Count
    <3>5. S'[x] = S[x] /\ wpc[x] = "noting" /\ wpc'[x] = "placed"
          BY <2>2 DEF PlaceOrder, Types
    <3>6. \A y \in Waiters : y # x => OrderedAt(y)' = OrderedAt(y)
          BY <3>2 DEF OrderedAt
    <3> QED BY <3>4, <3>5, <3>6, <2>1, <1>1, <1>2
  <2>3. CASE ServeFood(x)
    <3>1. PICK c \in Customers : IsServed(c, x)
          BY <2>3, ServeEffect
    <3>2. /\ told[c] = 1 /\ w[c] = x /\ w' = w
          /\ told'[c] = 2 /\ \A d \in Customers : d # c => told'[d] = told[d]
          BY <3>1, Shapes DEF IsServed, IsServedIn, places, Kitchen, KitchenIn
    <3>3. c \in OrderedAt(x) /\ OrderedAt(x)' = OrderedAt(x) \ {c}
          BY <3>2 DEF OrderedAt
    <3>4. Cardinality(OrderedAt(x)') = Cardinality(OrderedAt(x)) - 1
          /\ Cardinality(OrderedAt(x)) > 0
          BY <3>3, Finite, Count
    <3>5. S'[x] = S[x] - 1 /\ wpc[x] = "serving" /\ wpc'[x] = "checking"
          BY <2>3 DEF ServeFood, Types
    <3>6. \A y \in Waiters : y # x => OrderedAt(y)' = OrderedAt(y)
          BY <3>2 DEF OrderedAt
    <3> QED BY <3>4, <3>5, <3>6, <2>1, <1>1, <1>2
  <2>4. CASE CallCook(x)
    <3>1. S'[x] = S[x] + 1 /\ wpc[x] = "placed" /\ wpc'[x] = "checking"
          BY <2>4 DEF CallCook, Types
    <3>2. \A y \in Waiters : OrderedAt(y)' = OrderedAt(y)
          BY <2>4, <1>4, Unseen DEF CallCook
    <3> QED BY <3>1, <3>2, <2>1, <1>1, <1>2
  <2>5. CASE \/ WaiterWakes(x) \/ FetchFood(x) \/ TakeOrder(x) \/ WaiterFindsNothing(x)
             \/ WaiterLeaves(x) \/ WaiterStays(x)
    <3>1. UNCHANGED <<cpc, customer, w, S>>
          BY <2>5 DEF WaiterWakes, FetchFood, TakeOrder, WaiterFindsNothing, WaiterLeaves,
                      WaiterStays
    <3>2. \A y \in Waiters : wpc'[y] = "placed" <=> wpc[y] = "placed"
          BY <2>5 DEF WaiterWakes, FetchFood, TakeOrder, WaiterFindsNothing, WaiterLeaves,
                      WaiterStays, Types
    <3> QED BY <3>1, <3>2, <1>3, <1>4, Unseen
  <2> QED BY <1>5, <2>2, <2>3, <2>4, <2>5 DEF WaiterStep
<1>6. ASSUME NEW c \in Customers, CustomerStep(c) PROVE ToServe'
  <2>1. UNCHANGED <<S, wpc>>
        BY <1>6 DEF CustomerStep, TurnAway, TakeTable, CallForWaiter, OrderPlaced, GetFood,
                    FinishEating
  <2>2. Same \/ Eats(c) \/ Sits(c, next_waiter)
        BY <1>6, CustomerEffects
  <2>3. /\ \A d \in Customers : told'[d] = 1 <=> told[d] = 1
        /\ \A d \in Customers : told[d] = 1 => w'[d] = w[d]
    <3>1. CASE Same
          BY <3>1 DEF Same, SameIn, places
    <3>2. CASE Eats(c)
          BY <3>2, Shapes DEF Eats, EatsIn, places
    <3>3. CASE Sits(c, next_waiter)
      <4>1. /\ told[c] = 3 /\ told'[c] = 0
            /\ \A d \in Customers : d # c => told'[d] = told[d] /\ w'[d] = w[d]
            BY <3>3, Shapes DEF Sits, SitsIn, places, Types
      <4> QED BY <4>1
    <3> QED BY <2>2, <3>1, <3>2, <3>3
  <2>4. \A y \in Waiters : OrderedAt(y)' = OrderedAt(y)
        BY <2>3 DEF OrderedAt
  <2> QED BY <2>1, <2>4, <1>3
<1>7. CASE \/ \E k \in Cooks : CookStep(k)
           \/ Close \/ UNCHANGED vars
  <2>1. UNCHANGED <<cpc, customer, w, S, wpc>>
        BY <1>7 DEF CookStep, CookWakes, CookWondersWhy, PrepareOrder, FinishOrder,
                    CallWaiter, CookLeaves, CookStays, Close, vars
  <2> QED BY <2>1, <1>3, <1>4, Unseen
<1> QED BY <1>5, <1>6, <1>7 DEF Next

-----------------------------------------------------------------------------
(* Everything together *)

(* The restaurant opens with nobody in it. *)
LEMMA InvInit == Init => Inv
<1> SUFFICES ASSUME Init PROVE Inv
    OBVIOUS
<1> USE RestaurantAssumption DEF RestaurantAssumption
<1>1. Types
  <2>1. 0 \in Waiters
        BY DEF Waiters
  <2>2. <<>> \in Seq(Customers) /\ <<>> \in Seq(Orders) /\ Len(<<>>) = 0
        BY EmptySeq
  <2>3. new_customer = [x \in Waiters |-> Len(queue[x])]
        BY <2>2 DEF Init
  <2>4. /\ queue \in [Waiters -> Seq(Customers)] /\ cookqueue \in Seq(Orders)
        /\ w \in [Customers -> Waiters] /\ next_waiter \in Waiters
        BY <2>1, <2>2 DEF Init
  <2>5. /\ kpc \in [Cooks -> CookSteps] /\ wpc \in [Waiters -> WaiterSteps]
        /\ cpc \in [Customers -> CustomerSteps]
        BY DEF Init, CookSteps, WaiterSteps, CustomerSteps
  <2> QED BY <2>3, <2>4, <2>5 DEF Init, Types
<1>2. Hands
      BY DEF Init, Hands, Waiting
<1>3. /\ told = [c \in Customers |-> 3]
      /\ \A x \in Waiters : note[x] = None /\ tray[x] = None /\ queue[x] = <<>>
      /\ \A k \in Cooks : pan[k] = NoOrder
      BY DEF Init, told, Waiting, note, tray, pan
<1>4. Hall
  <2>1. \A c \in Customers : w[c] \in Waiters /\ note[w[c]] # c
        BY <1>1, <1>3 DEF Types
  <2> QED BY <1>3, <2>1 DEF Hall, HallIn, places
<1>5. Kitchen
      BY <1>3 DEF Init, Kitchen, KitchenIn, places
<1>6. Sums
  <2>1. Cooking = {} /\ AtTable = {} /\ \A x \in Waiters : OrderedAt(x) = {}
        BY <1>3 DEF Init, Cooking, AtTable, OrderedAt
  <2>2. Cardinality({}) = 0 /\ Len(cookqueue) = 0
        BY FS_EmptySet DEF Init
  <2>3. Pending
        BY <2>1, <2>2 DEF Init, Pending
  <2>4. Tables
        BY <2>1, <2>2 DEF Init, Tables
  <2>5. ToServe
    <3>1. \A x \in Waiters : S[x] = 0 /\ wpc[x] # "placed"
          BY DEF Init
    <3>2. \A x \in Waiters : Cardinality(OrderedAt(x)) = 0
          BY <2>1, <2>2
    <3> QED BY <3>1, <3>2 DEF ToServe
  <2> QED BY <2>3, <2>4, <2>5 DEF Sums
<1> QED BY <1>1, <1>2, <1>4, <1>5, <1>6 DEF Inv

(* Inv is inductive. *)
LEMMA InvNext == Inv /\ [Next]_vars => Inv'
BY TypesStep, HandsStep, PlacesStep, PendingStep, TablesStep, ToServeStep DEF Inv, Sums

(* So it holds always, for any cooks, waiters, tables and customers.       *)
THEOREM Invariance == Spec => []Inv
BY InvInit, InvNext, PTL DEF Spec

-----------------------------------------------------------------------------
(* The calls *)

Woken == {k \in Cooks : kpc[k] = "woken"}
Placed == {x \in Waiters : wpc[x] = "placed"}
Calling(x) == {c \in Customers : cpc[c] = "calling" /\ w[c] = x}
Prepared(x) == {k \in Cooks : kpc[k] = "prepared" /\ hand[k].waiter = x}

(* The two halves of CallsAddUp: the orders and the calls for a cook, ...  *)
CookCalls == Len(cookqueue) = cook + Cardinality(Woken) + Cardinality(Placed)

(* ... and the duties of a waiter and the calls for it.                    *)
Food(x) == IF food_ready[x] = None THEN 0 ELSE 1
Awake(x) == IF wpc[x] = "woken" THEN 1 ELSE 0
Duties(x) == Len(queue[x]) + Food(x)
Calls(x) == waiter[x] + Cardinality(Calling(x)) + Cardinality(Prepared(x)) + Awake(x)
WaiterCalls == \A x \in Waiters : Duties(x) <= Calls(x)

(* The sets that are counted are finite. *)
LEMMA CallsFinite ==
    /\ IsFiniteSet(Woken) /\ IsFiniteSet(Placed)
    /\ \A x \in Waiters : IsFiniteSet(Calling(x)) /\ IsFiniteSet(Prepared(x))
<1>1. IsFiniteSet(Waiters)
      BY RestaurantAssumption, FS_Interval DEF RestaurantAssumption, Waiters
<1> QED BY <1>1, RestaurantAssumption, FS_Subset
        DEF RestaurantAssumption, Woken, Placed, Calling, Prepared

(* CallsAddUp is the two halves. *)
LEMMA CallsSplit == Types => (CallsAddUp <=> (~removed => CookCalls /\ WaiterCalls))
<1> SUFFICES ASSUME Types PROVE CallsAddUp <=> (~removed => CookCalls /\ WaiterCalls)
    OBVIOUS
<1>1. \A x \in Waiters : /\ Cardinality(Calling(x)) \in Nat /\ Cardinality(Prepared(x)) \in Nat
                         /\ waiter[x] \in Nat
      BY CallsFinite, Count DEF Types
<1>2. \A x \in Waiters : CallsComing(x) = Cardinality(Calling(x)) + Cardinality(Prepared(x))
      BY DEF CallsComing, Calling, Prepared
<1>3. \A x \in Waiters : waiter[x] + CallsComing(x) + Awake(x) = Calls(x)
  <2>1. \A x \in Waiters : Awake(x) \in Nat
        BY DEF Awake
  <2> QED BY <1>1, <1>2, <2>1 DEF Calls
<1> QED BY <1>3 DEF CallsAddUp, CookCalls, WaiterCalls, Duties, Food, Awake, Woken, Placed

(* A cook is called for every order, so that none is called for nothing.   *)
LEMMA CookCallsStep ==
    Types /\ Hands /\ ~removed /\ CookCalls /\ [Next]_vars => CookCalls'
<1> SUFFICES ASSUME Types, Hands, ~removed, CookCalls, [Next]_vars PROVE CookCalls'
    OBVIOUS
<1> USE DEF counters, kitchen, hall, cooks, waiters, guests, CookMoves, WaiterMoves
<1>1. /\ Cardinality(Woken) \in Nat /\ Cardinality(Placed) \in Nat
      /\ cookqueue \in Seq(Orders) /\ Len(cookqueue) \in Nat /\ cook \in Nat
      /\ Len(cookqueue) = cook + Cardinality(Woken) + Cardinality(Placed)
      BY CallsFinite, Count, LenProperties DEF Types, CookCalls
<1>2. CASE UNCHANGED <<cookqueue, cook, Woken, Placed>>
      BY <1>2 DEF CookCalls
<1>3. ASSUME NEW k \in Cooks, CookStep(k) PROVE CookCalls'
  <2>1. Placed' = Placed
        BY <1>3 DEF CookStep, CookWakes, CookWondersWhy, PrepareOrder, FinishOrder,
                    CallWaiter, CookLeaves, CookStays, Placed
  <2>2. kpc[k] = "woken" => /\ k \in Woken /\ Cardinality(Woken) > 0
                            /\ Cardinality(Woken \ {k}) = Cardinality(Woken) - 1
    <3>1. kpc[k] = "woken" => k \in Woken
          BY DEF Woken
    <3> QED BY <3>1, CallsFinite, Count
  <2>3. CASE CookWakes(k)
    <3>1. k \notin Woken /\ Woken' = Woken \cup {k}
          BY <2>3 DEF CookWakes, Woken, Types
    <3>2. Cardinality(Woken') = Cardinality(Woken) + 1
          BY <3>1, CallsFinite, Count
    <3>3. cook' = cook - 1 /\ cookqueue' = cookqueue
          BY <2>3 DEF CookWakes, Down
    <3> QED BY <2>1, <3>2, <3>3, <1>1 DEF CookCalls
  <2>4. ~CookWondersWhy(k)
    <3>1. Len(<<>>) = 0
          OBVIOUS
    <3> QED BY <3>1, <2>2, <1>1 DEF CookWondersWhy
  <2>5. CASE PrepareOrder(k)
    <3>1. kpc[k] = "woken" /\ Woken' = Woken \ {k}
          BY <2>5 DEF PrepareOrder, Woken, Types
    <3>2. Len(cookqueue') = Len(cookqueue) - 1 /\ cook' = cook
          BY <2>5, <1>1, EntryTaken DEF PrepareOrder
    <3> QED BY <2>1, <2>2, <3>1, <3>2, <1>1 DEF CookCalls
  <2>6. CASE FinishOrder(k) \/ CallWaiter(k) \/ CookLeaves(k) \/ CookStays(k)
    <3>1. UNCHANGED <<cookqueue, cook>>
          BY <2>6 DEF FinishOrder, CallWaiter, CookLeaves, CookStays
    <3>2. Woken' = Woken
          BY <2>6 DEF FinishOrder, CallWaiter, CookLeaves, CookStays, Woken, Types
    <3> QED BY <1>2, <2>1, <3>1, <3>2
  <2> QED BY <1>3, <2>3, <2>4, <2>5, <2>6 DEF CookStep
<1>4. ASSUME NEW x \in Waiters, WaiterStep(x) PROVE CookCalls'
  <2>1. Woken' = Woken
        BY <1>4 DEF WaiterStep, WaiterWakes, FetchFood, ServeFood, TakeOrder, PlaceOrder,
                    CallCook, WaiterFindsNothing, WaiterLeaves, WaiterStays, Woken
  <2>2. CASE PlaceOrder(x)
    <3>1. x \notin Placed /\ Placed' = Placed \cup {x}
          BY <2>2 DEF PlaceOrder, Placed, Types
    <3>2. Cardinality(Placed') = Cardinality(Placed) + 1
          BY <3>1, CallsFinite, Count
    <3>3. [waiter |-> x, customer |-> cno[x]] \in Orders
          BY <2>2 DEF PlaceOrder, Hands, Orders
    <3>4. Len(cookqueue') = Len(cookqueue) + 1 /\ cook' = cook
          BY <2>2, <3>3, <1>1, EntryAdded DEF PlaceOrder
    <3> QED BY <2>1, <3>2, <3>4, <1>1 DEF CookCalls
  <2>3. CASE CallCook(x)
    <3>1. x \in Placed /\ Placed' = Placed \ {x}
          BY <2>3 DEF CallCook, Placed, Types
    <3>2. Cardinality(Placed') = Cardinality(Placed) - 1
          BY <3>1, CallsFinite, Count
    <3>3. cookqueue' = cookqueue /\ cook' = cook + 1
          BY <2>3 DEF CallCook, Up
    <3> QED BY <2>1, <3>2, <3>3, <1>1 DEF CookCalls
  <2>4. CASE \/ WaiterWakes(x) \/ FetchFood(x) \/ ServeFood(x) \/ TakeOrder(x)
             \/ WaiterFindsNothing(x) \/ WaiterLeaves(x) \/ WaiterStays(x)
    <3>1. UNCHANGED <<cookqueue, cook>>
          BY <2>4 DEF WaiterWakes, FetchFood, ServeFood, TakeOrder, WaiterFindsNothing,
                      WaiterLeaves, WaiterStays
    <3>2. Placed' = Placed
          BY <2>4 DEF WaiterWakes, FetchFood, ServeFood, TakeOrder, WaiterFindsNothing,
                      WaiterLeaves, WaiterStays, Placed, Types
    <3> QED BY <1>2, <2>1, <3>1, <3>2
  <2> QED BY <1>4, <2>2, <2>3, <2>4 DEF WaiterStep
<1>5. CASE \/ \E c \in Customers : CustomerStep(c)
           \/ Close \/ UNCHANGED vars
  <2>1. UNCHANGED <<cookqueue, cook, kpc, wpc>>
        BY <1>5 DEF CustomerStep, TurnAway, TakeTable, CallForWaiter, OrderPlaced, GetFood,
                    FinishEating, Close, vars
  <2> QED BY <1>2, <2>1 DEF Woken, Placed
<1> QED BY <1>3, <1>4, <1>5 DEF Next

(* By how much the duties of a waiter and the calls for it change.         *)
Moved(x, q, f, v, c, p, a) ==
    /\ Len(queue[x])' = Len(queue[x]) + q
    /\ Food(x)' = Food(x) + f
    /\ waiter[x]' = waiter[x] + v
    /\ Cardinality(Calling(x)') = Cardinality(Calling(x)) + c
    /\ Cardinality(Prepared(x)') = Cardinality(Prepared(x)) + p
    /\ Awake(x)' = Awake(x) + a

(* A new duty needs a new call, and a used call takes a duty with it.      *)
LEMMA Balance ==
    ASSUME Types, WaiterCalls, NEW x \in Waiters,
           NEW q \in Int, NEW f \in Int, NEW v \in Int, NEW c \in Int, NEW p \in Int,
           NEW a \in Int, Moved(x, q, f, v, c, p, a), q + f <= v + c + p + a
    PROVE  Duties(x)' <= Calls(x)'
<1>1. /\ Cardinality(Calling(x)) \in Nat /\ Cardinality(Prepared(x)) \in Nat
      /\ Len(queue[x]) \in Nat /\ waiter[x] \in Nat /\ Food(x) \in Nat /\ Awake(x) \in Nat
      BY CallsFinite, Count, LenProperties DEF Types, Food, Awake
<1>2. Len(queue[x]) + Food(x)
         <= waiter[x] + Cardinality(Calling(x)) + Cardinality(Prepared(x)) + Awake(x)
      BY DEF WaiterCalls, Duties, Calls
<1>3. PICK l \in Nat, h \in Nat, m \in Nat, i \in Nat, r \in Nat, b \in Nat :
         /\ l = Len(queue[x]) /\ h = Food(x) /\ m = waiter[x]
         /\ i = Cardinality(Calling(x)) /\ r = Cardinality(Prepared(x)) /\ b = Awake(x)
      BY <1>1
<1>4. Duties(x)' = (l + q) + (h + f)
      BY <1>3 DEF Moved, Duties
<1>5. Calls(x)' = (m + v) + (i + c) + (r + p) + (b + a)
      BY <1>3 DEF Moved, Calls
<1>6. l + h <= m + i + r + b
      BY <1>2, <1>3
<1>7. (l + q) + (h + f) <= (m + v) + (i + c) + (r + p) + (b + a)
      BY <1>6
<1> QED BY <1>4, <1>5, <1>7

(* For every new duty of a waiter there is a new call, and it takes a call *)
(* for one duty at most.                                                   *)
LEMMA WaiterCallsStep ==
    Types /\ Hands /\ ~removed /\ WaiterCalls /\ [Next]_vars => WaiterCalls'
<1> SUFFICES ASSUME Types, Hands, ~removed, WaiterCalls, [Next]_vars PROVE WaiterCalls'
    OBVIOUS
<1> USE DEF counters, kitchen, hall, cooks, waiters, guests
<1>1. \A x \in Waiters :
         /\ Cardinality(Calling(x)) \in Nat /\ Cardinality(Prepared(x)) \in Nat
         /\ queue[x] \in Seq(Customers) /\ Len(queue[x]) \in Nat /\ waiter[x] \in Nat
         /\ Food(x) \in Nat /\ Awake(x) \in Nat /\ Duties(x) <= Calls(x)
      BY CallsFinite, Count, LenProperties DEF Types, WaiterCalls, Food, Awake
<1>2. ASSUME NEW x \in Waiters,
             UNCHANGED <<queue[x], food_ready[x], waiter[x], Calling(x), Prepared(x), wpc[x]>>
      PROVE  Duties(x)' <= Calls(x)'
      BY <1>1, <1>2 DEF Duties, Calls, Food, Awake
<1>3. ASSUME NEW k \in Cooks, CookStep(k) PROVE WaiterCalls'
  <2> USE DEF CookMoves
  <2>1. UNCHANGED <<queue, wpc, cpc, w>>
        BY <1>3 DEF CookStep, CookWakes, CookWondersWhy, PrepareOrder, FinishOrder,
                    CallWaiter, CookLeaves, CookStays
  <2>2. \A x \in Waiters : Calling(x)' = Calling(x)
        BY <2>1 DEF Calling
  <2>3. CASE CookWakes(k) \/ CookWondersWhy(k) \/ PrepareOrder(k) \/ CookStays(k)
    <3>1. UNCHANGED <<food_ready, waiter>>
          BY <2>3 DEF CookWakes, CookWondersWhy, PrepareOrder, CookStays
    <3>2. \A x \in Waiters : Prepared(x)' = Prepared(x)
          BY <2>3 DEF CookWakes, CookWondersWhy, PrepareOrder, CookStays, Prepared, Types
    <3> QED BY <2>1, <2>2, <3>1, <3>2, <1>2 DEF WaiterCalls
  <2>4. CASE CookLeaves(k)
    <3>1. food_ready' = food_ready
          BY <2>4 DEF CookLeaves
    <3>2. \A x \in Waiters : Prepared(x)' = Prepared(x)
          BY <2>4 DEF CookLeaves, Prepared, Types
    <3>3. \A x \in Waiters : waiter'[x] \in {waiter[x], waiter[x] + 1}
          BY <2>4 DEF CookLeaves, Up
    <3>4. \A x \in Waiters : Food(x)' = Food(x) /\ Awake(x)' = Awake(x)
          BY <2>1, <3>1 DEF Food, Awake
    <3>5. ASSUME NEW x \in Waiters
          PROVE  Duties(x)' <= Calls(x)'
      <4>1. Moved(x, 0, 0, 0, 0, 0, 0) \/ Moved(x, 0, 0, 1, 0, 0, 0)
            BY <2>1, <2>2, <3>2, <3>3, <3>4, <1>1 DEF Moved
      <4> QED BY <4>1, Balance
    <3> QED BY <3>5 DEF WaiterCalls
  <2>5. PICK y : y = hand[k].waiter
        OBVIOUS
  <2>6. CASE FinishOrder(k)
    <3>1. hand' = hand /\ waiter' = waiter
          BY <2>6 DEF FinishOrder
    <3>2. \A x \in Waiters : x # y => /\ food_ready'[x] = food_ready[x]
                                      /\ Prepared(x)' = Prepared(x)
          BY <2>5, <2>6 DEF FinishOrder, Prepared, Types
    <3>3. k \notin Prepared(y) /\ Prepared(y)' = Prepared(y) \cup {k}
          BY <2>5, <2>6 DEF FinishOrder, Prepared, Types
    <3>4. ASSUME y \in Waiters
          PROVE  Duties(y)' <= Calls(y)'
      <4>1. Cardinality(Prepared(y)') = Cardinality(Prepared(y)) + 1
            BY <3>3, <3>4, CallsFinite, Count
      <4>2. Awake(y)' = Awake(y) /\ Food(y)' \in {0, 1}
            BY <2>1 DEF Awake, Food
      <4>3. Moved(y, 0, Food(y)' - Food(y), 0, 0, 1, 0)
            BY <4>1, <4>2, <3>1, <3>4, <2>1, <2>2, <1>1 DEF Moved
      <4>4. PICK f \in Int : f = Food(y)' - Food(y) /\ f <= 1
            BY <4>2, <3>4, <1>1
      <4>5. Moved(y, 0, f, 0, 0, 1, 0)
            BY <4>3, <4>4
      <4> QED BY <4>4, <4>5, <3>4, Balance
    <3> QED BY <2>1, <2>2, <3>1, <3>2, <3>4, <1>2 DEF WaiterCalls
  <2>7. CASE CallWaiter(k)
    <3>1. food_ready' = food_ready
          BY <2>7 DEF CallWaiter
    <3>2. \A x \in Waiters : x # y => /\ waiter'[x] = waiter[x]
                                      /\ Prepared(x)' = Prepared(x)
          BY <2>5, <2>7 DEF CallWaiter, Prepared, Types
    <3>3. k \in Prepared(y) /\ Prepared(y)' = Prepared(y) \ {k}
          BY <2>5, <2>7 DEF CallWaiter, Prepared, Types
    <3>4. ASSUME y \in Waiters
          PROVE  Duties(y)' <= Calls(y)'
      <4>1. Cardinality(Prepared(y)') = Cardinality(Prepared(y)) - 1
            BY <3>3, <3>4, CallsFinite, Count
      <4>2. waiter'[y] = waiter[y] + 1
            BY <2>5, <2>7, <3>4 DEF CallWaiter, Up, Types
      <4>3. Awake(y)' = Awake(y) /\ Food(y)' = Food(y)
            BY <3>1, <2>1 DEF Awake, Food
      <4>4. Moved(y, 0, 0, 1, 0, -1, 0)
            BY <4>1, <4>2, <4>3, <3>4, <2>1, <2>2, <1>1 DEF Moved
      <4> QED BY <4>4, <3>4, Balance
    <3> QED BY <2>1, <2>2, <3>1, <3>2, <3>4, <1>2 DEF WaiterCalls
  <2> QED BY <1>3, <2>3, <2>4, <2>6, <2>7 DEF CookStep
<1>4. ASSUME NEW x \in Waiters, WaiterStep(x) PROVE WaiterCalls'
  <2> USE DEF WaiterMoves
  <2>1. UNCHANGED <<kpc, hand, cpc, w>>
        BY <1>4 DEF WaiterStep, WaiterWakes, FetchFood, ServeFood, TakeOrder, PlaceOrder,
                    CallCook, WaiterFindsNothing, WaiterLeaves, WaiterStays
  <2>2. \A y \in Waiters : Calling(y)' = Calling(y) /\ Prepared(y)' = Prepared(y)
        BY <2>1 DEF Calling, Prepared
  <2>3. \A y \in Waiters : y # x => UNCHANGED <<queue[y], food_ready[y], waiter[y], wpc[y]>>
        BY <1>4 DEF WaiterStep, WaiterWakes, FetchFood, ServeFood, TakeOrder, PlaceOrder,
                    CallCook, WaiterFindsNothing, WaiterLeaves, WaiterStays, Types
  <2>4. Duties(x)' <= Calls(x)'
    <3>1. CASE WaiterWakes(x)
      <4>1. /\ queue' = queue /\ food_ready' = food_ready /\ waiter'[x] = waiter[x] - 1
            /\ wpc[x] = "idle" /\ wpc'[x] = "woken"
            BY <3>1 DEF WaiterWakes, Down, Types
      <4>2. Food(x)' = Food(x) /\ Awake(x)' = Awake(x) + 1
            BY <4>1 DEF Food, Awake
      <4>3. Moved(x, 0, 0, -1, 0, 0, 1)
            BY <4>1, <4>2, <2>2, <1>1 DEF Moved
      <4> QED BY <4>3, Balance
    <3>2. CASE FetchFood(x)
      <4>1. /\ queue' = queue /\ waiter' = waiter /\ food_ready[x] # None
            /\ food_ready'[x] = None /\ wpc[x] = "woken" /\ wpc'[x] = "serving"
            BY <3>2 DEF FetchFood, Types
      <4>2. Food(x)' = Food(x) - 1 /\ Awake(x)' = Awake(x) - 1
            BY <4>1 DEF Food, Awake
      <4>3. Moved(x, 0, -1, 0, 0, 0, -1)
            BY <4>1, <4>2, <2>2, <1>1 DEF Moved
      <4> QED BY <4>3, Balance
    <3>3. CASE TakeOrder(x)
      <4>1. /\ queue[x] # <<>> /\ queue'[x] = Tail(queue[x])
            /\ waiter' = waiter /\ food_ready' = food_ready
            /\ wpc[x] = "woken" /\ wpc'[x] = "noting"
            BY <3>3 DEF TakeOrder, Types
      <4>2. Len(queue'[x]) = Len(queue[x]) - 1
            BY <4>1, <1>1, EntryTaken
      <4>3. Food(x)' = Food(x) /\ Awake(x)' = Awake(x) - 1
            BY <4>1 DEF Food, Awake
      <4>4. Moved(x, -1, 0, 0, 0, 0, -1)
            BY <4>1, <4>2, <4>3, <2>2, <1>1 DEF Moved
      <4> QED BY <4>4, Balance
    <3>4. CASE WaiterFindsNothing(x)
      <4>1. /\ queue' = queue /\ food_ready' = food_ready /\ waiter' = waiter
            /\ food_ready[x] = None /\ wpc'[x] = "checking"
            /\ new_customer[x] = 0 \/ queue[x] = <<>>
            BY <3>4 DEF WaiterFindsNothing, Types
      <4>2. Len(queue[x]) = 0
        <5>1. Len(<<>>) = 0 /\ new_customer[x] = Len(queue[x])
              BY DEF Types
        <5> QED BY <5>1, <4>1
      <4>3. Food(x)' = 0 /\ Awake(x)' = 0
            BY <4>1 DEF Food, Awake
      <4>4. /\ Len(queue'[x]) = 0 /\ waiter'[x] \in Nat
            /\ Cardinality(Calling(x)') \in Nat /\ Cardinality(Prepared(x)') \in Nat
            BY <4>1, <4>2, <2>2, <1>1
      <4> QED BY <4>3, <4>4 DEF Duties, Calls
    <3>5. CASE \/ ServeFood(x) \/ PlaceOrder(x) \/ CallCook(x)
               \/ WaiterLeaves(x) \/ WaiterStays(x)
      <4>1. /\ UNCHANGED <<queue, food_ready, waiter>>
            /\ wpc[x] # "woken" /\ wpc'[x] # "woken"
            BY <3>5 DEF ServeFood, PlaceOrder, CallCook, WaiterLeaves, WaiterStays, Types
      <4>2. Food(x)' = Food(x) /\ Awake(x)' = Awake(x)
            BY <4>1 DEF Food, Awake
      <4>3. Moved(x, 0, 0, 0, 0, 0, 0)
            BY <4>1, <4>2, <2>2, <1>1 DEF Moved
      <4> QED BY <4>3, Balance
    <3> QED BY <1>4, <3>1, <3>2, <3>3, <3>4, <3>5 DEF WaiterStep
  <2> QED BY <2>2, <2>3, <2>4, <1>2 DEF WaiterCalls
<1>5. ASSUME NEW c \in Customers, CustomerStep(c) PROVE WaiterCalls'
  <2> USE DEF CustomerMoves
  <2>1. UNCHANGED <<kpc, hand, wpc, food_ready>>
        BY <1>5 DEF CustomerStep, TurnAway, TakeTable, CallForWaiter, OrderPlaced, GetFood,
                    FinishEating
  <2>2. \A y \in Waiters : Prepared(y)' = Prepared(y)
        BY <2>1 DEF Prepared
  <2>3. CASE TakeTable(c)
    <3>1. PICK x \in Waiters : x = next_waiter
          BY DEF Types
    <3>2. \A y \in Waiters : y # x => queue'[y] = queue[y] /\ Calling(y)' = Calling(y)
          BY <2>3, <3>1 DEF TakeTable, Calling, Types
    <3>3. c \notin Calling(x) /\ Calling(x)' = Calling(x) \cup {c}
          BY <2>3, <3>1 DEF TakeTable, Calling, Types
    <3>4. Cardinality(Calling(x)') = Cardinality(Calling(x)) + 1
          BY <3>3, CallsFinite, Count
    <3>5. waiter' = waiter /\ queue'[x] = Append(queue[x], c)
          BY <2>3, <3>1 DEF TakeTable, Types
    <3>6. Len(queue'[x]) = Len(queue[x]) + 1
          BY <3>5, <1>1, EntryAdded
    <3>7. Duties(x)' <= Calls(x)'
      <4>1. Food(x)' = Food(x) /\ Awake(x)' = Awake(x)
            BY <2>1 DEF Food, Awake
      <4>2. Moved(x, 1, 0, 0, 1, 0, 0)
            BY <2>1, <2>2, <3>4, <3>5, <3>6, <4>1, <1>1 DEF Moved
      <4> QED BY <4>2, Balance
    <3> QED BY <2>1, <2>2, <3>2, <3>5, <3>7, <1>2 DEF WaiterCalls
  <2>4. CASE CallForWaiter(c)
    <3>1. PICK x \in Waiters : x = w[c]
          BY DEF Types
    <3>2. \A y \in Waiters : y # x => waiter'[y] = waiter[y] /\ Calling(y)' = Calling(y)
          BY <2>4, <3>1 DEF CallForWaiter, Calling, Types
    <3>3. c \in Calling(x) /\ Calling(x)' = Calling(x) \ {c}
          BY <2>4, <3>1 DEF CallForWaiter, Calling, Types
    <3>4. Cardinality(Calling(x)') = Cardinality(Calling(x)) - 1
          BY <3>3, CallsFinite, Count
    <3>5. queue' = queue /\ waiter'[x] = waiter[x] + 1
          BY <2>4, <3>1 DEF CallForWaiter, Up, Types
    <3>6. Duties(x)' <= Calls(x)'
      <4>1. Food(x)' = Food(x) /\ Awake(x)' = Awake(x)
            BY <2>1 DEF Food, Awake
      <4>2. Moved(x, 0, 0, 1, -1, 0, 0)
            BY <2>1, <2>2, <3>4, <3>5, <4>1, <1>1 DEF Moved
      <4> QED BY <4>2, Balance
    <3> QED BY <2>1, <2>2, <3>2, <3>5, <3>6, <1>2 DEF WaiterCalls
  <2>5. CASE TurnAway(c) \/ OrderPlaced(c) \/ GetFood(c) \/ FinishEating(c)
    <3>1. UNCHANGED <<queue, waiter, w>>
          BY <2>5 DEF TurnAway, OrderPlaced, GetFood, FinishEating
    <3>2. \A d \in Customers : cpc'[d] = "calling" <=> cpc[d] = "calling"
          BY <2>5 DEF TurnAway, OrderPlaced, GetFood, FinishEating, Types
    <3>3. \A y \in Waiters : Calling(y)' = Calling(y)
          BY <3>1, <3>2 DEF Calling
    <3> QED BY <2>1, <2>2, <3>1, <3>3, <1>2 DEF WaiterCalls
  <2> QED BY <1>5, <2>3, <2>4, <2>5 DEF CustomerStep
<1>6. CASE Close \/ UNCHANGED vars
  <2>1. UNCHANGED <<queue, food_ready, waiter, cpc, w, kpc, hand, wpc>>
        BY <1>6 DEF Close, vars
  <2> QED BY <1>2, <2>1 DEF Calling, Prepared, WaiterCalls
<1> QED BY <1>3, <1>4, <1>5, <1>6 DEF Next

(* There is a call for every order and for every duty of a waiter; once    *)
(* the semaphores are removed there is nobody left to be served.           *)
THEOREM CallsAlwaysAddUp == Spec => []CallsAddUp
<1>1. Init => CallsAddUp
  <2> SUFFICES ASSUME Init PROVE CookCalls /\ WaiterCalls
      BY InvInit, CallsSplit DEF Inv
  <2>1. Woken = {} /\ Placed = {} /\ \A x \in Waiters : Calling(x) = {} /\ Prepared(x) = {}
        BY DEF Init, Woken, Placed, Calling, Prepared
  <2>2. Cardinality({}) = 0 /\ Len(<<>>) = 0
        BY FS_EmptySet
  <2>3. CookCalls
        BY <2>1, <2>2 DEF Init, CookCalls
  <2>4. \A x \in Waiters : Duties(x) = 0 /\ Calls(x) = 0
    <3> SUFFICES ASSUME NEW x \in Waiters PROVE Duties(x) = 0 /\ Calls(x) = 0
        OBVIOUS
    <3>1. queue[x] = <<>> /\ food_ready[x] = None /\ waiter[x] = 0 /\ wpc[x] # "woken"
          BY DEF Init
    <3>2. Food(x) = 0 /\ Awake(x) = 0
          BY <3>1 DEF Food, Awake
    <3>3. Duties(x) = 0
          BY <2>2, <3>1, <3>2 DEF Duties
    <3>4. Cardinality(Calling(x)) = 0 /\ Cardinality(Prepared(x)) = 0
          BY <2>1, <2>2
    <3>5. Calls(x) = 0
          BY <3>1, <3>2, <3>4 DEF Calls
    <3> QED BY <3>3, <3>5
  <2> QED BY <2>3, <2>4 DEF WaiterCalls
<1>2. Inv /\ CallsAddUp /\ [Next]_vars => CallsAddUp'
  <2> SUFFICES ASSUME Inv, CallsAddUp, [Next]_vars, ~removed' PROVE CallsAddUp'
      BY DEF CallsAddUp
  <2>1. ~removed
        BY DEF Next, CookStep, CookWakes, CookWondersWhy, PrepareOrder, FinishOrder,
               CallWaiter, CookLeaves, CookStays, WaiterStep, WaiterWakes, FetchFood,
               ServeFood, TakeOrder, PlaceOrder, CallCook, WaiterFindsNothing,
               WaiterLeaves, WaiterStays, CustomerStep, TurnAway, TakeTable, CallForWaiter,
               OrderPlaced, GetFood, FinishEating, Close, vars
  <2>2. Types /\ Types' /\ Hands /\ CookCalls /\ WaiterCalls
        BY <2>1, InvNext, CallsSplit DEF Inv
  <2>3. CookCalls' /\ WaiterCalls'
        BY <2>1, <2>2, CookCallsStep, WaiterCallsStep
  <2> QED BY <2>2, <2>3, CallsSplit, PTL
<1> QED BY <1>1, <1>2, Invariance, PTL DEF Spec

(* No cook asks "Why am I woken up?" before the semaphores are removed.    *)
THEOREM NoIdleCall == Spec => [][~removed => \A k \in Cooks : ~CookWondersWhy(k)]_vars
<1>1. Inv /\ CallsAddUp /\ [Next]_vars
         => [~removed => \A k \in Cooks : ~CookWondersWhy(k)]_vars
  <2> SUFFICES ASSUME Inv, CallsAddUp, ~removed, NEW k \in Cooks, CookWondersWhy(k)
               PROVE  FALSE
      OBVIOUS
  <2>1. Len(cookqueue) = cook + Cardinality(Woken) + Cardinality(Placed)
        BY CallsSplit DEF Inv, CookCalls
  <2>2. Len(cookqueue) = 0 /\ k \in Woken
    <3>1. Len(<<>>) = 0
          OBVIOUS
    <3> QED BY <3>1 DEF CookWondersWhy, CookMoves, Woken
  <2>3. Cardinality(Woken) \in Nat /\ Cardinality(Placed) \in Nat /\ cook \in Nat
        /\ Cardinality(Woken) > 0
        BY <2>2, CallsFinite, Count DEF Inv, Types
  <2> QED BY <2>1, <2>2, <2>3
<1> QED BY <1>1, Invariance, CallsAlwaysAddUp, PTL DEF Spec

-----------------------------------------------------------------------------
(* The properties *)

(* The shape of the state follows from the invariant: no counter goes      *)
(* below zero, order_pending counts the orders not yet cooked, and no      *)
(* customer is called more than twice.                                     *)
LEMMA InvTypeOK == Inv => TypeOK
<1> SUFFICES ASSUME Inv PROVE TypeOK
    OBVIOUS
<1>1. Types /\ Hands /\ Pending /\ Tables /\ ToServe
      BY DEF Inv, Sums
<1>2. no_of_empty_tables \in 0..NumTables
  <2>1. NumTables \in Nat /\ Cardinality(AtTable) \in Nat
        BY Finite, Count, RestaurantAssumption DEF RestaurantAssumption
  <2> QED BY <1>1, <2>1 DEF Tables
<1>3. customer \in [Customers -> 0..2]
  <2>1. ASSUME NEW c \in Customers PROVE customer[c] \in 0..2
    <3>1. customer[c] \in Nat
          BY <1>1 DEF Types
    <3>2. IF Waiting(c) THEN Told(c) \in 0..2 ELSE customer[c] = 0
          BY <1>1 DEF Hands
    <3> QED BY <3>1, <3>2 DEF Told
  <2> QED BY <1>1, <2>1 DEF Types
<1>4. S \in [Waiters -> Nat]
      BY <1>1 DEF Types, ToServe
<1>5. order_pending = Len(cookqueue) + Cardinality({k \in Cooks : kpc[k] = "cooking"})
      BY <1>1 DEF Pending, Cooking
<1>6. \A x \in Waiters : new_customer[x] = Len(queue[x])
      BY <1>1 DEF Types
<1> QED BY <1>1, <1>2, <1>3, <1>4, <1>5, <1>6
        DEF Types, TypeOK, CookSteps, WaiterSteps, CustomerSteps

(* TypeOK holds always. *)
THEOREM TypeCorrect == Spec => []TypeOK
BY Invariance, InvTypeOK, PTL

(* A customer whose order is not noted has one place in the hall, any      *)
(* other has none.                                                         *)
LEMMA InHallOnce ==
    ASSUME Types, Hands, Hall, NEW c \in Customers
    PROVE  Cardinality(HallPlaces(c)) = IF told[c] = 0 THEN 1 ELSE 0
<1> DEFINE inQueue == {i \in DOMAIN queue[w[c]] : queue[w[c]][i] = c}
           noting == {x \in Waiters : wpc[x] = "noting" /\ cno[x] = c}
<1>1. w[c] \in Waiters /\ c # None
      BY RestaurantAssumption DEF RestaurantAssumption, Types
<1>2. HallPlaces(c) = {<<"queue", i>> : i \in inQueue} \cup {<<"noting", x>> : x \in noting}
      BY DEF HallPlaces
<1>3. \A x \in Waiters : x \in noting <=> note[x] = c
      BY <1>1 DEF note
<1>4. \A x \in noting : told[c] = 0 /\ x = w[c] /\ note[w[c]] = c
      BY <1>1, <1>3 DEF Hall, HallIn, places
<1>5. \A i \in inQueue : told[c] = 0 /\ QueuedIn(places, c)
      BY <1>1 DEF Hall, HallIn, places, QueuedIn
<1>6. \A i, j \in inQueue : i = j
      BY <1>1 DEF Hall, HallIn, places
<1>7. Cardinality({}) = 0 /\ \A e : Cardinality({e}) = 1
      BY FS_EmptySet, FS_Singleton
<1>8. CASE told[c] # 0
  <2>1. inQueue = {} /\ noting = {}
        BY <1>4, <1>5, <1>8
  <2>2. HallPlaces(c) = {}
        BY <1>2, <2>1
  <2> QED BY <2>2, <1>7, <1>8
<1>9. CASE told[c] = 0 /\ QueuedIn(places, c)
  <2>1. noting = {}
        BY <1>4, <1>9 DEF Hall, HallIn, places
  <2>2. PICK i : i \in inQueue
        BY <1>9 DEF QueuedIn, places
  <2>3. inQueue = {i}
        BY <2>2, <1>6
  <2>4. HallPlaces(c) = {<<"queue", i>>}
        BY <1>2, <2>1, <2>3
  <2> QED BY <2>4, <1>7, <1>9
<1>10. CASE told[c] = 0 /\ ~QueuedIn(places, c)
  <2>1. note[w[c]] = c
        BY <1>10 DEF Hall, HallIn, places
  <2>2. noting = {w[c]}
        BY <2>1, <1>1, <1>3, <1>4
  <2>3. inQueue = {}
        BY <1>5, <1>10
  <2>4. HallPlaces(c) = {<<"noting", w[c]>>}
        BY <1>2, <2>2, <2>3
  <2> QED BY <2>4, <1>7, <1>10
<1> QED BY <1>8, <1>9, <1>10

(* A customer whose order is noted and not served has one place in the     *)
(* kitchen or is lost, any other has none.                                 *)
LEMMA InKitchenOnce ==
    ASSUME Types, Hands, Kitchen, NEW c \in Customers
    PROVE  Cardinality(KitchenPlaces(c)) + (IF c \in lost THEN 1 ELSE 0)
              = IF told[c] = 1 THEN 1 ELSE 0
<1> DEFINE order == [waiter |-> w[c], customer |-> c]
           toCook == {i \in DOMAIN cookqueue : cookqueue[i] = order}
           onStove == {k \in Cooks : kpc[k] = "cooking" /\ hand[k] = order}
           isReady == {x \in Waiters : food_ready[x] = c /\ x = w[c]}
           serving == {x \in Waiters : wpc[x] = "serving" /\ cno[x] = c}
<1>1. w[c] \in Waiters /\ c # None
      BY RestaurantAssumption DEF RestaurantAssumption, Types
<1>2. KitchenPlaces(c) = {<<"cookqueue", i>> : i \in toCook}
                            \cup {<<"cooking", k>> : k \in onStove}
                            \cup {<<"ready", x>> : x \in isReady}
                            \cup {<<"serving", x>> : x \in serving}
      BY DEF KitchenPlaces
<1>3. \A e \in Orders : e = order <=> e.customer = c /\ e.waiter = w[c]
      BY DEF Orders
<1>0. PlacesIn(places) /\ KitchenIn(places)
      BY PlacesAre DEF Kitchen
<1>4. \A i \in DOMAIN cookqueue : i \in toCook <=> cookqueue[i].customer = c
  <2>1. \A i \in DOMAIN cookqueue : cookqueue[i] \in Orders
                                    /\ cookqueue[i].waiter = w[cookqueue[i].customer]
        BY <1>0, InKitchen DEF KitchenIn, places
  <2> QED BY <2>1, <1>3
<1>5. \A k \in Cooks : k \in onStove <=> pan[k] # NoOrder /\ pan[k].customer = c
  <2>1. order \in Orders /\ NoOrder \notin Orders
        BY <1>1, Shapes DEF Orders
  <2>2. \A k \in Cooks : k \in onStove <=> pan[k] = order
        BY <2>1 DEF pan
  <2>3. \A k \in Cooks :
              pan[k] # NoOrder => pan[k] \in Orders /\ pan[k].waiter = w[pan[k].customer]
        BY <1>0, InKitchen DEF KitchenIn, places
  <2> QED BY <2>1, <2>2, <2>3, <1>3
<1>6. \A x \in Waiters : x \in isReady <=> x = w[c] /\ ReadyIn(places, c)
      BY DEF ReadyIn, places
<1>7. \A x \in Waiters : x \in serving <=> tray[x] = c
      BY <1>1 DEF tray
<1>8. \A x \in serving : x = w[c]
      BY <1>1, <1>7 DEF Kitchen, KitchenIn, places
<1>9. Cardinality({}) = 0 /\ \A e : Cardinality({e}) = 1
      BY FS_EmptySet, FS_Singleton
<1>10. /\ toCook = {} <=> ~ToCookIn(places, c)
       /\ onStove = {} <=> ~OnStoveIn(places, c)
       /\ isReady = {} <=> ~ReadyIn(places, c)
       /\ serving = {} <=> ~ServingIn(places, c)
  <2>1. toCook = {} <=> ~ToCookIn(places, c)
        BY <1>4 DEF ToCookIn, places
  <2>2. onStove = {} <=> ~OnStoveIn(places, c)
        BY <1>5 DEF OnStoveIn, places
  <2>3. isReady = {} <=> ~ReadyIn(places, c)
        BY <1>1, <1>6
  <2>4. serving = {} <=> ~ServingIn(places, c)
        BY <1>1, <1>7, <1>8 DEF ServingIn, places
  <2> QED BY <2>1, <2>2, <2>3, <2>4
<1>11. /\ \A i, j \in toCook : i = j
       /\ \A k, l \in onStove : k = l
       /\ \A x, y \in isReady : x = y
       /\ \A x, y \in serving : x = y
  <2>1. \A i, j \in toCook : i = j
        BY <1>4 DEF Kitchen, KitchenIn, places
  <2>2. \A k, l \in onStove : k = l
        BY <1>5 DEF Kitchen, KitchenIn, places
  <2> QED BY <2>1, <2>2, <1>8
<1>12. CASE told[c] # 1
  <2>1. ~ToCookIn(places, c) /\ ~OnStoveIn(places, c) /\ ~ReadyIn(places, c)
        /\ ~ServingIn(places, c) /\ c \notin lost
        BY <1>1, <1>12 DEF Kitchen, KitchenIn, places, ToCookIn, OnStoveIn, ReadyIn, ServingIn
  <2>2. KitchenPlaces(c) = {}
        BY <1>2, <1>10, <2>1
  <2> QED BY <2>1, <2>2, <1>9, <1>12
<1> HIDE DEF toCook, onStove, isReady, serving
<1>13. CASE told[c] = 1
  <2>1. OnePlaceIn(places, c)
        BY <1>13 DEF Kitchen, KitchenIn, places
  <2>2. CASE ToCookIn(places, c)
    <3>1. c \notin lost /\ toCook # {} /\ onStove = {} /\ isReady = {} /\ serving = {}
          BY <2>1, <2>2, <1>10 DEF OnePlaceIn, places
    <3>2. PICK i : toCook = {i}
          BY <3>1, <1>11
    <3>3. KitchenPlaces(c) = {<<"cookqueue", i>>}
          BY <1>2, <3>1, <3>2
    <3>4. Cardinality(KitchenPlaces(c)) = 1
          BY <3>3, <1>9
    <3> QED BY <3>1, <3>4, <1>13
  <2>3. CASE OnStoveIn(places, c)
    <3>1. c \notin lost /\ toCook = {} /\ onStove # {} /\ isReady = {} /\ serving = {}
          BY <2>1, <2>3, <1>10 DEF OnePlaceIn, places
    <3>2. PICK k : onStove = {k}
          BY <3>1, <1>11
    <3>3. KitchenPlaces(c) = {<<"cooking", k>>}
          BY <1>2, <3>1, <3>2
    <3>4. Cardinality(KitchenPlaces(c)) = 1
          BY <3>3, <1>9
    <3> QED BY <3>1, <3>4, <1>13
  <2>4. CASE ReadyIn(places, c)
    <3>1. c \notin lost /\ toCook = {} /\ onStove = {} /\ isReady # {} /\ serving = {}
          BY <2>1, <2>4, <1>10 DEF OnePlaceIn, places
    <3>2. PICK x : isReady = {x}
          BY <3>1, <1>11
    <3>3. KitchenPlaces(c) = {<<"ready", x>>}
          BY <1>2, <3>1, <3>2
    <3>4. Cardinality(KitchenPlaces(c)) = 1
          BY <3>3, <1>9
    <3> QED BY <3>1, <3>4, <1>13
  <2>5. CASE ServingIn(places, c)
    <3>1. c \notin lost /\ toCook = {} /\ onStove = {} /\ isReady = {} /\ serving # {}
          BY <2>1, <2>5, <1>10 DEF OnePlaceIn, places
    <3>2. PICK x : serving = {x}
          BY <3>1, <1>11
    <3>3. KitchenPlaces(c) = {<<"serving", x>>}
          BY <1>2, <3>1, <3>2
    <3>4. Cardinality(KitchenPlaces(c)) = 1
          BY <3>3, <1>9
    <3> QED BY <3>1, <3>4, <1>13
  <2>6. CASE c \in lost
    <3>1. toCook = {} /\ onStove = {} /\ isReady = {} /\ serving = {}
          BY <2>1, <2>6, <1>10 DEF OnePlaceIn, places
    <3>2. KitchenPlaces(c) = {}
          BY <1>2, <3>1
    <3> QED BY <2>6, <3>2, <1>9, <1>13
  <2> QED BY <2>1, <2>2, <2>3, <2>4, <2>5, <2>6 DEF OnePlaceIn, places
<1> QED BY <1>12, <1>13

(* A customer at a table is in the queue, has its order in exactly one     *)
(* place, has been served, or is one whose food was announced in vain, and *)
(* its semaphore says which.                                               *)
THEOREM OrdersSomewhere == Spec => []EveryOrderSomewhere
<1>1. Inv => EveryOrderSomewhere
  <2> SUFFICES ASSUME Inv PROVE EveryOrderSomewhere
      OBVIOUS
  <2>1. ASSUME NEW c \in Customers
        PROVE  LET inHall == Cardinality(HallPlaces(c))
                   kitchenOrLost == Cardinality(KitchenPlaces(c)) + (IF c \in lost THEN 1 ELSE 0)
               IN  IF Waiting(c)
                   THEN /\ inHall = IF Told(c) = 0 THEN 1 ELSE 0
                        /\ kitchenOrLost = IF Told(c) = 1 THEN 1 ELSE 0
                        /\ Told(c) \in 0..2
                   ELSE inHall = 0 /\ kitchenOrLost = 0
    <3>1. told[c] = IF Waiting(c) THEN Told(c) ELSE 3
          BY DEF told
    <3>2. Waiting(c) => Told(c) \in 0..2
          BY DEF Inv, Hands
    <3>3. /\ Cardinality(HallPlaces(c)) = IF told[c] = 0 THEN 1 ELSE 0
          /\ Cardinality(KitchenPlaces(c)) + (IF c \in lost THEN 1 ELSE 0)
                = IF told[c] = 1 THEN 1 ELSE 0
          BY InHallOnce, InKitchenOnce DEF Inv
    <3> QED BY <3>1, <3>2, <3>3
  <2> QED BY <2>1, InvTypeOK DEF EveryOrderSomewhere
<1> QED BY <1>1, Invariance, PTL

-----------------------------------------------------------------------------
(* What the customers see *)

(* What the table service is seen as. *)
View ==
    /\ stage = StageIn(places, cpc) /\ orders = OrdersIn(places)
    /\ stove = StoveIn(places) /\ ready = DoneIn(places)

(* What the customers see follows from the invariant. *)
LEMMA ViewHolds == Types /\ Hands /\ Kitchen => View
<1> SUFFICES ASSUME Types, Hands, Kitchen PROVE View
    OBVIOUS
<1>1. stage = StageIn(places, cpc)
  <2> DEFINE seen(c) == IF told[c] = 0 THEN "seated"
                        ELSE IF told[c] \in {1, 2} THEN "ordered"
                        ELSE IF cpc[c] = "arriving" THEN "outside" ELSE cpc[c]
  <2>1. StageIn(places, cpc) = [c \in Customers |-> seen(c)]
        BY DEF StageIn, places
  <2> SUFFICES ASSUME NEW c \in Customers PROVE stage[c] = seen(c)
      BY <2>1 DEF stage
  <2>2. CASE Waiting(c)
    <3>1. told[c] = Told(c) /\ Told(c) \in 0..2 /\ cpc[c] # "arriving"
          BY <2>2 DEF told, Hands, Waiting
    <3>2. stage[c] = IF Told(c) = 0 THEN "seated" ELSE "ordered"
          BY <2>2, <3>1 DEF stage, Waiting
    <3> QED BY <3>1, <3>2
  <2>3. CASE ~Waiting(c)
    <3>1. told[c] = 3 /\ cpc[c] \in {"arriving", "eating", "gone"}
          BY <2>3 DEF told, Types, CustomerSteps, Waiting
    <3>2. stage[c] = IF cpc[c] = "arriving" THEN "outside" ELSE cpc[c]
          BY <2>3, <3>1 DEF stage
    <3> QED BY <3>1, <3>2
  <2> QED BY <2>2, <2>3
<1>2. orders = OrdersIn(places)
      BY DEF orders, OrdersIn, places
<1>3. stove = StoveIn(places)
  <2> SUFFICES ASSUME NEW k \in Cooks
               PROVE  (IF kpc[k] = "cooking" THEN hand[k].customer ELSE None)
                         = IF pan[k] = NoOrder THEN None ELSE pan[k].customer
      BY DEF stove, StoveIn, places
  <2>1. kpc[k] = "cooking" => hand[k] \in Orders /\ NoOrder \notin Orders
        BY Shapes DEF Hands
  <2> QED BY <2>1 DEF pan
<1>4. ready = DoneIn(places)
  <2>1. \A c \in Customers : cpc[c] # "ordered"
        BY DEF Types, CustomerSteps
  <2>2. PlacesIn(places) /\ KitchenIn(places)
        BY PlacesAre DEF Kitchen
  <2> QED BY <2>1, <2>2, <1>1, <1>2, <1>3, DoneIs DEF ready
<1> QED BY <1>1, <1>2, <1>3, <1>4 DEF View

(* The restaurant opens as the table service does. *)
LEMMA InitRefines == Init => Guests!Init
<1> SUFFICES ASSUME Init PROVE Guests!Init
    OBVIOUS
<1>1. View
      BY InvInit, ViewHolds DEF Inv
<1>2. told = [c \in Customers |-> 3] /\ \A k \in Cooks : pan[k] = NoOrder
      BY DEF Init, told, Waiting, pan
<1>3. stage = [c \in Customers |-> "outside"]
      BY <1>1, <1>2 DEF Init, View, StageIn, places
<1>4. stove = [k \in Cooks |-> None]
      BY <1>1, <1>2 DEF View, StoveIn, places
<1>5. ready = {}
      BY <1>1, <1>2 DEF View, DoneIn, IsOutIn, places
<1>6. orders = <<>>
      BY DEF Init, orders
<1> QED BY <1>3, <1>4, <1>5, <1>6 DEF Init, Guests!Init

(* What a step shows to the customers is read off the places. *)
Looks ==
    /\ PlacesIn(places) /\ PlacesIn(places') /\ HallIn(places)
    /\ KitchenIn(places) /\ KitchenIn(places') /\ View /\ View'

(* It can be.                                                              *)
LEMMA LooksHold == Inv /\ [Next]_vars => Looks
<1> SUFFICES ASSUME Inv, [Next]_vars PROVE Looks
    OBVIOUS
<1>1. /\ Types /\ Hands /\ Hall /\ Kitchen
      /\ Types' /\ Hands' /\ Kitchen'
      BY InvNext DEF Inv
<1>2. View /\ View' /\ PlacesIn(places) /\ PlacesIn(places)'
      BY <1>1, ViewHolds, PlacesAre, PTL
<1> QED BY <1>1, <1>2 DEF Looks, Hall, Kitchen

(* Steps that neither change the places nor where a customer is.           *)
LEMMA NotSeen ==
    ASSUME Looks, no_of_empty_tables' = no_of_empty_tables,
           \A c \in Customers : told[c] = 3 => cpc'[c] = cpc[c],
           Same \/ \E c \in Customers, x \in Waiters :
                      IsAsked(c, x) \/ IsFetched(c, x) \/ IsServed(c, x)
    PROVE  UNCHANGED Guests!vars
<1>1. \A c \in Customers : places.told[c] = 3 => cpc'[c] = cpc[c]
      BY DEF places
<1>2. \/ SameIn(places, places')
      \/ \E c \in Customers, x \in Waiters : \/ IsAskedIn(places, places', c, x)
                                             \/ IsFetchedIn(places, places', c, x)
                                             \/ IsServedIn(places, places', c, x)
      BY DEF Same, IsAsked, IsFetched, IsServed
<1>3. /\ StageIn(places', cpc') = StageIn(places, cpc) /\ OrdersIn(places') = OrdersIn(places)
      /\ StoveIn(places') = StoveIn(places) /\ DoneIn(places') = DoneIn(places)
  <2>1. PlacesIn(places) /\ KitchenIn(places) /\ KitchenIn(places')
        BY DEF Looks
  <2> QED BY <1>1, <1>2, <2>1, SeenNothing
<1> QED BY <1>3 DEF Looks, View, Guests!vars

(* A cook starts with the first order, and what it has cooked is out of    *)
(* the kitchen, in the waiter's hands or lost.                             *)
LEMMA CookRefines ==
    ASSUME Types, Hands, Hall, Kitchen, Looks, NEW k \in Cooks, CookStep(k)
    PROVE  [Guests!Next]_(Guests!vars)
<1>1. UNCHANGED <<no_of_empty_tables, cpc>>
      BY DEF CookStep, CookWakes, CookWondersWhy, PrepareOrder, FinishOrder,
             CallWaiter, CookLeaves, CookStays,
             counters, kitchen, hall, cooks, waiters, guests
<1>2. CASE Same
      BY <1>1, <1>2, NotSeen
<1>3. CASE IsCooked(k)
  <2>1. /\ OrdersIn(places) # <<>> /\ StoveIn(places)[k] = None
        /\ StoveIn(places') = [StoveIn(places) EXCEPT ![k] = Head(OrdersIn(places))]
        /\ OrdersIn(places') = Tail(OrdersIn(places))
        /\ StageIn(places', cpc) = StageIn(places, cpc) /\ DoneIn(places') = DoneIn(places)
    <3>1. /\ PlacesIn(places) /\ PlacesIn(places') /\ KitchenIn(places)
          /\ IsCookedIn(places, places', k)
          BY <1>3 DEF Looks, IsCooked
    <3>2. PICK s, z : s = places /\ z = places'
          OBVIOUS
    <3>3. /\ OrdersIn(s) # <<>> /\ StoveIn(s)[k] = None
          /\ StoveIn(z) = [StoveIn(s) EXCEPT ![k] = Head(OrdersIn(s))]
          /\ OrdersIn(z) = Tail(OrdersIn(s))
          /\ StageIn(z, cpc) = StageIn(s, cpc) /\ DoneIn(z) = DoneIn(s)
          BY <3>1, <3>2, SeenCooked
    <3> QED BY <3>2, <3>3
  <2>2. Guests!StartCooking(k)
        BY <2>1, <1>1 DEF Looks, View, Guests!StartCooking
  <2> QED BY <2>2 DEF Guests!Next
<1>4. CASE IsReady(k)
  <2>1. /\ StoveIn(places)[k] # None
        /\ StoveIn(places') = [StoveIn(places) EXCEPT ![k] = None]
        /\ DoneIn(places') = DoneIn(places) \cup {StoveIn(places)[k]}
        /\ StageIn(places', cpc) = StageIn(places, cpc) /\ OrdersIn(places') = OrdersIn(places)
        BY <1>4, SeenReady DEF Looks, IsReady
  <2>2. Guests!FinishCooking(k)
        BY <2>1, <1>1 DEF Looks, View, Guests!FinishCooking
  <2> QED BY <2>2 DEF Guests!Next
<1> QED BY <1>2, <1>3, <1>4, CookEffects

(* What the waiters do shows when an order is noted only.                  *)
LEMMA WaiterRefines ==
    ASSUME Types, Hands, Hall, Kitchen, Looks, NEW x \in Waiters, WaiterStep(x)
    PROVE  [Guests!Next]_(Guests!vars)
<1>1. UNCHANGED <<no_of_empty_tables, cpc>>
      BY DEF WaiterStep, WaiterWakes, FetchFood, ServeFood, TakeOrder, PlaceOrder,
             CallCook, WaiterFindsNothing, WaiterLeaves, WaiterStays,
             counters, kitchen, hall, cooks, waiters, guests
<1>2. CASE Same \/ \E c \in Customers : IsAsked(c, x) \/ IsFetched(c, x) \/ IsServed(c, x)
      BY <1>1, <1>2, NotSeen
<1>3. ASSUME NEW c \in Customers, IsNoted(c, x)
      PROVE  [Guests!Next]_(Guests!vars)
  <2>1. /\ StageIn(places, cpc)[c] = "seated"
        /\ StageIn(places', cpc) = [StageIn(places, cpc) EXCEPT ![c] = "ordered"]
        /\ OrdersIn(places') = Append(OrdersIn(places), c)
        /\ StoveIn(places') = StoveIn(places) /\ DoneIn(places') = DoneIn(places)
        BY <1>3, SeenNoted DEF Looks, IsNoted
  <2>2. Guests!Order(c)
        BY <2>1, <1>1 DEF Looks, View, Guests!Order, Guests!Becomes
  <2> QED BY <2>2 DEF Guests!Next
<1> QED BY <1>2, <1>3, WaiterEffects

(* The steps of a customer are those of the table service that are about   *)
(* tables and eating, or calls that only the waiters hear.                 *)
LEMMA CustomerRefines ==
    ASSUME Types, Hands, Tables, Looks, NEW c \in Customers, CustomerStep(c)
    PROVE  [Guests!Next]_(Guests!vars)
<1> USE DEF counters, kitchen, hall, cooks, waiters, guests, CustomerMoves
<1>1. \A d \in Customers : d # c => cpc'[d] = cpc[d]
      BY DEF CustomerStep, TurnAway, TakeTable, CallForWaiter, OrderPlaced, GetFood,
             FinishEating, Types
<1>2. CASE GetFood(c) /\ Eats(c)
  <2>1. cpc'[c] = "eating" /\ no_of_empty_tables' = no_of_empty_tables
        BY <1>2 DEF GetFood, Types
  <2>2. /\ StageIn(places, cpc)[c] = "ordered"
        /\ StageIn(places', cpc') = [StageIn(places, cpc) EXCEPT ![c] = "eating"]
        /\ c \in DoneIn(places) /\ DoneIn(places') = DoneIn(places) \ {c}
        /\ OrdersIn(places') = OrdersIn(places) /\ StoveIn(places') = StoveIn(places)
        BY <1>1, <1>2, <2>1, SeenEating DEF Looks, Eats
  <2>3. Guests!Eat(c)
        BY <2>1, <2>2 DEF Looks, View, Guests!Eat, Guests!Becomes
  <2> QED BY <2>3 DEF Guests!Next
<1>3. CASE (TurnAway(c) \/ FinishEating(c)) /\ Same
  <2>1. /\ cpc[c] \in {"arriving", "eating"} /\ cpc'[c] = "gone"
        /\ cpc[c] = "arriving" => no_of_empty_tables' = no_of_empty_tables
        /\ cpc[c] = "eating" => no_of_empty_tables' = no_of_empty_tables + 1
        BY <1>3 DEF TurnAway, FinishEating, Types
  <2>2. places.told[c] = 3
        BY <2>1 DEF places, told, Waiting
  <2>3. /\ StageIn(places, cpc)[c] = IF cpc[c] = "arriving" THEN "outside" ELSE "eating"
        /\ StageIn(places', cpc') = [StageIn(places, cpc) EXCEPT ![c] = "gone"]
        /\ OrdersIn(places') = OrdersIn(places) /\ StoveIn(places') = StoveIn(places)
        /\ DoneIn(places') = DoneIn(places)
    <3>1. GoesIn(places, places', cpc, cpc', c)
          BY <1>1, <1>3, <2>1, <2>2 DEF GoesIn, Same
    <3> QED BY ONLY <3>1, c \in Customers, SeenMoving
  <2>4. Guests!TurnAway(c) \/ Guests!Leave(c)
        BY <2>1, <2>3 DEF Looks, View, Guests!TurnAway, Guests!Leave, Guests!Becomes
  <2> QED BY <2>4 DEF Guests!Next
<1>4. CASE TakeTable(c) /\ Sits(c, next_waiter)
  <2>1. /\ cpc[c] = "arriving" /\ next_waiter \in Waiters
        /\ no_of_empty_tables > 0 /\ no_of_empty_tables' = no_of_empty_tables - 1
    <3>1. no_of_empty_tables \in Nat
          BY DEF Tables
    <3> QED BY <1>4, <3>1 DEF TakeTable, Types
  <2>2. /\ StageIn(places, cpc)[c] = "outside"
        /\ StageIn(places', cpc') = [StageIn(places, cpc) EXCEPT ![c] = "seated"]
        /\ OrdersIn(places') = OrdersIn(places) /\ StoveIn(places') = StoveIn(places)
        /\ DoneIn(places') = DoneIn(places)
        BY <1>1, <1>4, <2>1, SeenSitting DEF Looks, Sits
  <2>3. Guests!Sit(c)
        BY <2>1, <2>2 DEF Looks, View, Guests!Sit, Guests!Becomes
  <2> QED BY <2>3 DEF Guests!Next
<1>5. CASE (CallForWaiter(c) \/ OrderPlaced(c)) /\ Same
  <2>1. cpc[c] \in {"calling", "ordering"} /\ no_of_empty_tables' = no_of_empty_tables
        BY <1>5 DEF CallForWaiter, OrderPlaced, Types
  <2>2. told[c] # 3
    <3>1. Waiting(c)
          BY <2>1 DEF Waiting
    <3> QED BY <3>1 DEF told, Hands
  <2>3. \A d \in Customers : told[d] = 3 => cpc'[d] = cpc[d]
        BY <1>1, <2>2
  <2> QED BY <1>5, <2>1, <2>3, NotSeen
<1> QED BY <1>2, <1>3, <1>4, <1>5, CustomerEffects

(* Every step of the restaurant is one of the table service or is not      *)
(* seen.                                                                   *)
LEMMA StepRefines == Inv /\ [Next]_vars => [Guests!Next]_(Guests!vars)
<1> SUFFICES ASSUME Inv, [Next]_vars PROVE [Guests!Next]_(Guests!vars)
    OBVIOUS
<1>1. Types /\ Hands /\ Hall /\ Kitchen /\ Tables /\ Looks
      BY LooksHold DEF Inv, Sums
<1>2. CASE Close \/ UNCHANGED vars
  <2>1. UNCHANGED <<no_of_empty_tables, cpc, customer, wpc, cno, kpc, hand, w, queue,
                    cookqueue, food_ready, lost>>
        BY <1>2 DEF Close, vars, counters, kitchen, hall, cooks, waiters, guests
  <2>2. Same
        BY <2>1, Unseen DEF Same, SameIn, places
  <2> QED BY <1>1, <2>1, <2>2, NotSeen
<1> QED BY <1>1, <1>2, CookRefines, WaiterRefines, CustomerRefines DEF Next

(* The restaurant implements the table service: each customer gets a table *)
(* that is free, orders once and eats what was cooked for it.              *)
THEOREM Refinement == Spec => ImplementsTableService
BY InitRefines, StepRefines, Invariance, PTL DEF Spec, ImplementsTableService, Guests!Spec

-----------------------------------------------------------------------------
(* Waiting in vain *)

(* A waiter leaves when it has nobody to serve, and it notes no orders     *)
(* afterwards.                                                             *)
NoneLeft == \A x \in Waiters : wpc[x] = "gone" => S[x] = 0

(* No step breaks that. *)
LEMMA NoneLeftStep == Types /\ NoneLeft /\ [Next]_vars => NoneLeft'
<1> SUFFICES ASSUME Types, NoneLeft, [Next]_vars PROVE NoneLeft'
    OBVIOUS
<1> USE DEF counters, kitchen, hall, cooks, waiters, guests, WaiterMoves
<1>1. CASE \E x \in Waiters : WaiterStep(x)
  <2> PICK x \in Waiters : WaiterStep(x)
      BY <1>1
  <2>1. \A y \in Waiters : y # x => S'[y] = S[y] /\ wpc'[y] = wpc[y]
        BY DEF WaiterStep, WaiterWakes, FetchFood, ServeFood, TakeOrder, PlaceOrder,
               CallCook, WaiterFindsNothing, WaiterLeaves, WaiterStays, Types
  <2>2. wpc'[x] = "gone" => S'[x] = 0
        BY DEF WaiterStep, WaiterWakes, FetchFood, ServeFood, TakeOrder, PlaceOrder,
               CallCook, WaiterFindsNothing, WaiterLeaves, WaiterStays, NothingToServe,
               Types
  <2> QED BY <2>1, <2>2 DEF NoneLeft
<1>2. CASE \/ \E k \in Cooks : CookStep(k)
           \/ \E c \in Customers : CustomerStep(c)
           \/ Close \/ UNCHANGED vars
  <2>1. UNCHANGED <<S, wpc>>
        BY <1>2 DEF CookStep, CookWakes, CookWondersWhy, PrepareOrder, FinishOrder,
                    CallWaiter, CookLeaves, CookStays, CustomerStep, TurnAway, TakeTable,
                    CallForWaiter, OrderPlaced, GetFood, FinishEating, Close, vars
  <2> QED BY <2>1 DEF NoneLeft
<1> QED BY <1>1, <1>2 DEF Next

(* A waiter who is still there when everything stands still has no duty:   *)
(* nobody is calling it, no cook is about to, and its calls are used up.   *)
LEMMA NoDutyLeft ==
    ASSUME Types, WaiterCalls, Hangs, ~removed, NEW x \in Waiters, wpc[x] # "gone"
    PROVE  queue[x] = <<>> /\ food_ready[x] = None
<1>1. wpc[x] = "idle" /\ waiter[x] = 0
      BY DEF Hangs, MayPass, Types
<1>2. Calling(x) = {} /\ Prepared(x) = {}
      BY DEF Hangs, Calling, Prepared
<1>3. Calls(x) = 0
  <2>1. Cardinality(Calling(x)) = 0 /\ Cardinality(Prepared(x)) = 0
        BY <1>2, FS_EmptySet
  <2>2. Awake(x) = 0
        BY <1>1 DEF Awake
  <2> QED BY <1>1, <2>1, <2>2 DEF Calls
<1>4. Len(queue[x]) \in Nat /\ queue[x] \in Seq(Customers) /\ Food(x) \in {0, 1}
      BY LenProperties DEF Types, Food
<1>5. Len(queue[x]) = 0 /\ Food(x) = 0
  <2>1. Len(queue[x]) + Food(x) <= 0
        BY <1>3 DEF WaiterCalls, Duties
  <2> QED BY <2>1, <1>4
<1>6. queue[x] = <<>>
      BY <1>4, <1>5, EmptySeq
<1> QED BY <1>5, <1>6 DEF Food

(* Nor is there an order for a cook who is still there. *)
LEMMA NoOrderLeft ==
    ASSUME Types, CookCalls, Hangs, ~removed, NEW k \in Cooks, kpc[k] # "gone"
    PROVE  cookqueue = <<>>
<1>1. cook = 0
      BY DEF Hangs, MayPass, Types
<1>2. Woken = {} /\ Placed = {}
      BY DEF Hangs, Woken, Placed
<1>3. Cardinality(Woken) = 0 /\ Cardinality(Placed) = 0
      BY <1>2, FS_EmptySet
<1>4. Len(cookqueue) = 0
      BY <1>1, <1>3 DEF CookCalls
<1> QED BY <1>4, EmptySeq DEF Types

(* When the session hangs, every customer that waits was forgotten in one  *)
(* of three ways: its waiter left with it in the queue, all cooks left     *)
(* with its order in the queue, or its food was announced in vain.  In     *)
(* particular no waiter leaves food or a customer without a call, and none *)
(* is gone for whom food is ready.                                         *)
THEOREM HangIsExplained == Spec => []UnservedExplained
<1>1. Inv /\ CallsAddUp /\ NoneLeft => UnservedExplained
  <2> SUFFICES ASSUME Inv, CallsAddUp, NoneLeft, Hangs, NEW c \in Customers, Waiting(c)
               PROVE  c \in lost \/ WaiterLeft(c) \/ CooksLeft(c)
      BY DEF UnservedExplained
  <2>1. Types /\ Hands /\ Hall /\ Kitchen /\ ToServe
        BY DEF Inv, Sums
  <2>2. ~removed
        BY <2>1 DEF Hands, Waiting
  <2>3. CookCalls /\ WaiterCalls
        BY <2>1, <2>2, CallsSplit
  <2>4. PICK x \in Waiters : x = w[c]
        BY <2>1 DEF Types
  <2>5. cpc[c] \in {"ordering", "hungry"} /\ customer[c] = 0
    <3>1. customer[c] \in Nat /\ cpc[c] # "gone"
          BY <2>1 DEF Types, Waiting
    <3> QED BY <2>2, <3>1 DEF Hangs, MayPass
  <2>6. told[c] = IF cpc[c] = "hungry" THEN 1 ELSE 0
        BY <2>5 DEF told, Told
  <2>7. \A y \in Waiters : wpc[y] \in {"gone", "idle"}
        BY DEF Hangs
  <2>8. CASE told[c] = 0
    <3>1. c # None /\ note[x] # c
          BY <2>4, <2>7, RestaurantAssumption DEF note, RestaurantAssumption
    <3>2. QueuedIn(places, c)
          BY <2>1, <2>4, <2>8, <3>1 DEF Hall, HallIn, places
    <3>3. queue[x] # <<>>
          BY <3>2, <2>4 DEF QueuedIn, places
    <3>4. wpc[x] = "gone"
          BY <2>1, <2>2, <2>3, <3>3, NoDutyLeft
    <3> QED BY <2>4, <3>2, <3>4 DEF WaiterLeft, QueuedIn, places
  <2>9. CASE told[c] = 1
    <3>1. wpc[x] # "gone"
      <4> SUFFICES ASSUME wpc[x] = "gone" PROVE FALSE
          OBVIOUS
      <4>1. S[x] = 0
            BY DEF NoneLeft
      <4>2. S[x] = Cardinality(OrderedAt(x))
        <5>1. Cardinality(OrderedAt(x)) \in Nat
              BY Finite, Count
        <5>2. S[x] = Cardinality(OrderedAt(x)) - 0
              BY <2>1 DEF ToServe
        <5> QED BY <5>1, <5>2
      <4>3. c \in OrderedAt(x)
            BY <2>4, <2>9 DEF OrderedAt
      <4>4. Cardinality(OrderedAt(x)) > 0
            BY <4>3, Finite, Count
      <4> QED BY <4>1, <4>2, <4>4
    <3>2. c # None /\ food_ready[x] = None
          BY <2>1, <2>2, <2>3, <3>1, NoDutyLeft, RestaurantAssumption DEF RestaurantAssumption
    <3>3. ~ReadyIn(places, c) /\ ~ServingIn(places, c)
          BY <2>4, <2>7, <3>2 DEF ReadyIn, places, ServingIn, tray
    <3>4. ~OnStoveIn(places, c)
          BY DEF Hangs, OnStoveIn, places, pan
    <3>5. ToCookIn(places, c) \/ c \in lost
          BY <2>1, <2>9, <3>3, <3>4 DEF Kitchen, KitchenIn, places, OnePlaceIn
    <3>6. CASE ToCookIn(places, c)
      <4>1. cookqueue # <<>>
            BY <3>6 DEF ToCookIn, places
      <4>2. \A k \in Cooks : kpc[k] = "gone"
            BY <2>1, <2>2, <2>3, <4>1, NoOrderLeft
      <4> QED BY <3>6, <4>2 DEF CooksLeft, ToCookIn, places
    <3> QED BY <3>5, <3>6
  <2> QED BY <2>6, <2>8, <2>9
<1>2. Init => NoneLeft
      BY DEF Init, NoneLeft
<1>3. Inv /\ NoneLeft /\ [Next]_vars => NoneLeft'
      BY NoneLeftStep DEF Inv
<1> QED BY <1>1, <1>2, <1>3, Invariance, CallsAlwaysAddUp, PTL DEF Spec

-----------------------------------------------------------------------------
(***************************************************************************)
(* The student's restaurant.  Its customers are called before their order  *)
(* is placed, so that a customer who has been called once is still in the  *)
(* hall while its waiter is placing the order; otherwise they and their    *)
(* orders move between the same places, as long as the semaphores are not  *)
(* removed.                                                                *)
(***************************************************************************)

SCookSteps == {"idle", "woken", "cooking", "prepared", "leaving", "gone"}
SWaiterSteps == {"idle", "woken", "serving", "noting", "placing", "placed", "gone"}
SCustomerSteps == {"arriving", "calling", "ordering", "told", "hungry", "eating", "gone"}

(* How often a customer has been called, and who waits for its order to be *)
(* placed.                                                                 *)
Called(c) == customer[c] + (IF cpc[c] \in {"told", "hungry"} THEN 1 ELSE 0)
Placing(c) == wpc[w[c]] = "placing" /\ cno[w[c]] = c

(* The places of the customers and their orders. *)
sTold == [c \in Customers |-> IF ~SWaiting(c) THEN 3
                              ELSE IF Placing(c) THEN 0 ELSE Called(c)]
sNote == [x \in Waiters |-> IF wpc[x] \in {"noting", "placing"} THEN cno[x] ELSE None]
sPlaces ==
    [told |-> sTold, w |-> w, queue |-> queue, note |-> sNote, cookqueue |-> cookqueue,
     pan |-> pan, food_ready |-> food_ready, tray |-> tray, lost |-> lost]
SHall == HallIn(sPlaces)
SKitchen == KitchenIn(sPlaces)

(* The types of the variables. *)
STypes ==
    /\ late \in BOOLEAN /\ removed \in BOOLEAN
    /\ tables \in Int /\ next_waiter \in Waiters
    /\ food_ready \in [Waiters -> Customers \cup {None}]
    /\ queue \in [Waiters -> Seq(Customers)] /\ cookqueue \in Seq(Orders)
    /\ cook \in Nat /\ waiter \in [Waiters -> Nat] /\ customer \in [Customers -> Nat]
    /\ kpc \in [Cooks -> SCookSteps] /\ hand \in [Cooks -> Orders \cup {None}]
    /\ began \in [Cooks -> BOOLEAN]
    /\ wpc \in [Waiters -> SWaiterSteps]
    /\ cno \in [Waiters -> Customers \cup {None}]
    /\ \A x \in Waiters : wpc[x] \in {"serving", "noting", "placing"} => cno[x] \in Customers
    /\ cpc \in [Customers -> SCustomerSteps]
    /\ w \in [Customers -> Waiters] /\ lost \subseteq Customers

(* What the hands of the cooks hold, and what the semaphores of the        *)
(* customers can be.                                                       *)
SHands ==
    /\ \A k \in Cooks : kpc[k] \in {"cooking", "prepared", "leaving"} => hand[k] \in Orders
    /\ \A c \in Customers : IF SWaiting(c) THEN Called(c) \in 0..2 ELSE customer[c] = 0
    /\ \A x \in Waiters : wpc[x] = "placing" => /\ SWaiting(cno[x])
                                                /\ Called(cno[x]) = 1

(* The tables are those that are not taken, and the calls cover the orders *)
(* and the duties of the waiters.                                          *)
SAtTable ==
    {c \in Customers : cpc[c] \in {"calling", "ordering", "told", "hungry", "eating"}}
STables == tables = NumTables - Cardinality(SAtTable)
SPrepared(x) ==
    {k \in Cooks : kpc[k] \in {"prepared", "leaving"} /\ WaiterOf(k) = x}
SCalls(x) == waiter[x] + Cardinality(Calling(x)) + Cardinality(SPrepared(x)) + Awake(x)
SWaiterCalls == \A x \in Waiters : Duties(x) <= SCalls(x)

(* All this is so until a program removes the semaphores; then the hands   *)
(* of a cook may be empty, and nobody counts any more.                     *)
SBooks ==
    SHands /\ SHall /\ SKitchen /\ STables /\ CookCalls /\ SWaiterCalls
SLimits == tables \in 0..NumTables /\ customer \in [Customers -> 0..2]
SInv == STypes /\ SLimits /\ (~removed => SBooks)

(* The steps of the student's restaurant are those of its processes.       *)
LEMMA SStepIs ==
    [SNext]_sVars =>
        \/ \E k \in Cooks : SCookStep(k)
        \/ \E x \in Waiters : SWaiterStep(x)
        \/ \E c \in Customers : SCustomerStep(c)
        \/ Remove \/ UNCHANGED sVars
BY DEF SNext

(* What the cooks, ...                                                     *)
LEMMA SCookFrame ==
    ASSUME NEW k \in Cooks, SCookStep(k)
    PROVE  UNCHANGED <<tables, next_waiter, queue, customer, removed, wpc, cno, cpc, w>>
BY DEF SCookStep, SCookWakes, SPrepareOrder, SFinishOrder, SCallWaiter, sHall,
       sKitchen, semaphores, sWaiters, guests

(* ... the waiters, ...                                                    *)
LEMMA SWaiterFrame ==
    ASSUME NEW x \in Waiters, SWaiterStep(x)
    PROVE  UNCHANGED <<tables, next_waiter, removed, kpc, hand, began, cpc, w, lost>>
BY DEF SWaiterStep, SWaiterWakes, SFetchFood, SServeFood, STakeOrder,
       TellCustomer, Tells, SPlaceOrder, SCallCook, FindNothing, sHall,
       sKitchen, semaphores, sCooks, guests

(* ... and the customers leave alone, ...                                  *)
LEMMA SCustomerFrame ==
    ASSUME NEW c \in Customers, SCustomerStep(c)
    PROVE  UNCHANGED <<cookqueue, food_ready, cook, removed, kpc, hand, began, wpc, cno, lost>>
BY DEF SCustomerStep, STurnAway, STakeTable, SCallForWaiter, OrderTaken,
       SGetFood, IsTold, NoteTime, SFinishEating, sHall, sKitchen, semaphores,
       sCooks, sWaiters

(* ... and what only happens to the clock and the semaphores at the end.   *)
LEMMA SIdleFrame ==
    ASSUME Remove \/ UNCHANGED sVars
    PROVE  UNCHANGED <<late, tables, next_waiter, queue, cookqueue, food_ready, cook, waiter,
                       customer, kpc, hand, began, wpc, cno, cpc, w, lost>>
BY DEF Remove, sVars, sHall, sKitchen, semaphores, sCooks, sWaiters, guests

(* A semaphore that is raised can be lowered. *)
LEMMA OneLess ==
    ASSUME NEW T, NEW f \in [T -> Nat], NEW e \in T, f[e] > 0
    PROVE  [f EXCEPT ![e] = @ - 1] \in [T -> Nat]
<1>1. f[e] - 1 \in Nat
      OBVIOUS
<1> QED BY <1>1

(* Every step keeps the types.                                             *)
LEMMA STypesStep == STypes /\ [SNext]_sVars => STypes'
<1> SUFFICES ASSUME STypes, [SNext]_sVars PROVE STypes'
    OBVIOUS
<1> USE RestaurantAssumption DEF RestaurantAssumption
<1> USE DEF sHall, sKitchen, semaphores, sCooks, sWaiters, guests, MayPass,
            Down, Up
<1>1. ASSUME NEW k \in Cooks, SCookStep(k) PROVE STypes'
  <2> USE DEF STypes, CookMoves, SCookSteps
  <2>1. CASE SCookWakes(k)
    <3>1. cook' \in Nat /\ kpc' \in [Cooks -> SCookSteps]
          BY <2>1 DEF SCookWakes
    <3> QED BY <2>1, <3>1 DEF SCookWakes
  <2>2. CASE SPrepareOrder(k)
    <3>1. cookqueue # <<>> => Head(cookqueue) \in Orders /\ Tail(cookqueue) \in Seq(Orders)
          BY EntryTaken
    <3>2. /\ hand' = hand \/ (cookqueue # <<>> /\ hand' = [hand EXCEPT ![k] = Head(cookqueue)])
          /\ cookqueue' = cookqueue \/ (cookqueue # <<>> /\ cookqueue' = Tail(cookqueue))
          BY <2>2 DEF SPrepareOrder
    <3>3. hand' \in [Cooks -> Orders \cup {None}] /\ cookqueue' \in Seq(Orders)
      <4>1. hand' \in [Cooks -> Orders \cup {None}]
            BY <3>1, <3>2
      <4>2. cookqueue' \in Seq(Orders)
            BY <3>1, <3>2
      <4> QED BY <4>1, <4>2
    <3>4. began' \in [Cooks -> BOOLEAN] /\ kpc' \in [Cooks -> SCookSteps]
          BY <2>2 DEF SPrepareOrder
    <3> QED BY <2>2, <3>3, <3>4 DEF SPrepareOrder
  <2>3. CASE SFinishOrder(k)
    <3>1. hand[k] = None \/ hand[k].customer \in Customers
          BY OrderIs
    <3>2. PICK x \in Waiters, f \in Customers \cup {None} :
             /\ food_ready' = [food_ready EXCEPT ![x] = f]
             /\ lost' = (lost \cup {food_ready[x]}) \ {None}
      <4>1. WaiterOf(k) \in Waiters
            BY OrderIs DEF WaiterOf, Waiters
      <4> QED BY <2>3, <3>1, <4>1 DEF SFinishOrder
    <3>5. food_ready' \in [Waiters -> Customers \cup {None}] /\ lost' \subseteq Customers
          BY <3>2
    <3>3. late' \in BOOLEAN
          BY <2>3, Zenon DEF SFinishOrder, ClockSet
    <3>4. kpc' \in [Cooks -> SCookSteps]
          BY <2>3 DEF SFinishOrder
    <3> QED BY <2>3, <3>5, <3>3, <3>4 DEF SFinishOrder
  <2>4. CASE SCallWaiter(k)
    <3>1. waiter' \in [Waiters -> Nat]
      <4>1. WaiterOf(k) \in Waiters
            BY OrderIs DEF WaiterOf, Waiters
      <4>2. PICK x \in Waiters : waiter' = [waiter EXCEPT ![x] = Up(@)]
            BY <2>4, <4>1 DEF SCallWaiter
      <4> QED BY <4>2
    <3>2. /\ hand' \in [Cooks -> Orders \cup {None}] /\ began' \in [Cooks -> BOOLEAN]
          /\ kpc' \in [Cooks -> SCookSteps]
          BY <2>4 DEF SCallWaiter
    <3> QED BY <2>4, <3>1, <3>2 DEF SCallWaiter
  <2> QED BY <1>1, <2>1, <2>2, <2>3, <2>4 DEF SCookStep
<1>2. ASSUME NEW x \in Waiters, SWaiterStep(x) PROVE STypes'
  <2> USE DEF STypes, WaiterMoves, SWaiterSteps
  <2>1. CASE SWaiterWakes(x)
    <3>1. waiter' \in [Waiters -> Nat] /\ wpc' \in [Waiters -> SWaiterSteps]
          BY <2>1 DEF SWaiterWakes
    <3> QED BY <2>1, <3>1 DEF SWaiterWakes
  <2>2. CASE SFetchFood(x)
        BY <2>2 DEF SFetchFood
  <2>3. CASE SServeFood(x) \/ TellCustomer(x)
    <3>1. customer' \in [Customers -> Nat]
      <4>1. PICK c \in Customers : customer' = [customer EXCEPT ![c] = Up(@)]
            BY <2>3 DEF SServeFood, TellCustomer, Tells
      <4> QED BY <4>1
    <3>2. /\ cno' \in [Waiters -> Customers \cup {None}] /\ wpc' \in [Waiters -> SWaiterSteps]
          /\ \A y \in Waiters :
                wpc'[y] \in {"serving", "noting", "placing"} => cno'[y] \in Customers
      <4>1. CASE SServeFood(x)
            BY <4>1 DEF SServeFood
      <4>2. CASE TellCustomer(x)
            BY <4>2 DEF TellCustomer
      <4> QED BY <2>3, <4>1, <4>2
    <3> QED BY <2>3, <3>1, <3>2 DEF SServeFood, TellCustomer, Tells
  <2>4. CASE STakeOrder(x)
    <3>1. queue[x] \in Seq(Customers) /\ queue[x] # <<>>
          BY <2>4 DEF STakeOrder
    <3>2. Tail(queue[x]) \in Seq(Customers) /\ Head(queue[x]) \in Customers
          BY <3>1, EntryTaken
    <3>3. queue' \in [Waiters -> Seq(Customers)]
          BY <2>4, <3>2 DEF STakeOrder
    <3>4. /\ cno' \in [Waiters -> Customers \cup {None}] /\ wpc' \in [Waiters -> SWaiterSteps]
          /\ \A y \in Waiters :
                wpc'[y] \in {"serving", "noting", "placing"} => cno'[y] \in Customers
          BY <2>4, <3>2 DEF STakeOrder
    <3> QED BY <2>4, <3>3, <3>4 DEF STakeOrder
  <2>5. CASE SPlaceOrder(x)
    <3>1. [waiter |-> x, customer |-> cno[x]] \in Orders
          BY <2>5 DEF SPlaceOrder, Orders
    <3>2. cookqueue' \in Seq(Orders)
          BY <2>5, <3>1, EntryAdded DEF SPlaceOrder
    <3>3. late' \in BOOLEAN
          BY <2>5, Zenon DEF SPlaceOrder, ClockAdvances
    <3>5. cook' \in Nat
          BY <2>5 DEF SPlaceOrder
    <3>6. PICK s \in {"gone", "placed"} : wpc' = [wpc EXCEPT ![x] = s]
          BY <2>5, Zenon DEF SPlaceOrder
    <3>4. /\ cno' \in [Waiters -> Customers \cup {None}] /\ wpc' \in [Waiters -> SWaiterSteps]
          /\ \A y \in Waiters :
                wpc'[y] \in {"serving", "noting", "placing"} => cno'[y] \in Customers
          BY <2>5, <3>6 DEF SPlaceOrder
    <3> QED BY <2>5, <3>2, <3>3, <3>4, <3>5 DEF SPlaceOrder
  <2>6. CASE SCallCook(x)
    <3>1. cook' \in Nat /\ wpc' \in [Waiters -> SWaiterSteps]
          BY <2>6 DEF SCallCook
    <3> QED BY <2>6, <3>1 DEF SCallCook
  <2>7. CASE FindNothing(x)
        BY <2>7 DEF FindNothing
  <2> QED BY <1>2, <2>1, <2>2, <2>3, <2>4, <2>5, <2>6, <2>7 DEF SWaiterStep
<1>3. ASSUME NEW c \in Customers, SCustomerStep(c) PROVE STypes'
  <2> USE DEF STypes, CustomerMoves, SCustomerSteps
  <2>1. late \in BOOLEAN /\ ClockAdvances => late' \in BOOLEAN
        BY Zenon DEF ClockAdvances
  <2>2. CASE STurnAway(c) \/ NoteTime(c)
    <3>1. late' \in BOOLEAN /\ cpc' \in [Customers -> SCustomerSteps]
          BY <2>1, <2>2 DEF STurnAway, NoteTime
    <3> QED BY <2>2, <3>1 DEF STurnAway, NoteTime
  <2>3. CASE SFinishEating(c)
    <3>1. late' \in BOOLEAN /\ cpc' \in [Customers -> SCustomerSteps] /\ tables' \in Int
          BY <2>1, <2>3 DEF SFinishEating
    <3> QED BY <2>3, <3>1 DEF SFinishEating
  <2>4. CASE STakeTable(c)
    <3>1. next_waiter \in Waiters /\ queue[next_waiter] \in Seq(Customers)
          OBVIOUS
    <3>2. Append(queue[next_waiter], c) \in Seq(Customers)
          BY <3>1, EntryAdded
    <3>3. queue' \in [Waiters -> Seq(Customers)]
          BY <2>4, <3>1, <3>2 DEF STakeTable
    <3>4. next_waiter' \in Waiters
          BY <2>4 DEF STakeTable, Waiters
    <3>5. /\ tables' \in Int /\ w' \in [Customers -> Waiters]
          /\ cpc' \in [Customers -> SCustomerSteps]
          BY <2>4, <3>1 DEF STakeTable
    <3> QED BY <2>4, <3>3, <3>4, <3>5 DEF STakeTable
  <2>5. CASE SCallForWaiter(c)
    <3>1. waiter' \in [Waiters -> Nat] /\ cpc' \in [Customers -> SCustomerSteps]
          BY <2>5 DEF SCallForWaiter
    <3> QED BY <2>5, <3>1 DEF SCallForWaiter
  <2>6. CASE OrderTaken(c) \/ SGetFood(c)
    <3>1. cpc' \in [Customers -> SCustomerSteps]
          BY <2>6 DEF OrderTaken, SGetFood
    <3>2. removed \/ customer[c] > 0
          BY <2>6 DEF OrderTaken, SGetFood, IsTold
    <3>4. customer' = customer \/ (customer[c] > 0 /\ customer' = [customer EXCEPT ![c] = @ - 1])
          BY <2>6, <3>2 DEF OrderTaken, SGetFood, IsTold
    <3>5. customer \in [Customers -> Nat]
          OBVIOUS
    <3>6. customer[c] > 0 => [customer EXCEPT ![c] = @ - 1] \in [Customers -> Nat]
          BY <3>5, OneLess
    <3>3. customer' \in [Customers -> Nat]
          BY <3>4, <3>5, <3>6, Zenon
    <3> QED BY <2>6, <3>1, <3>3 DEF OrderTaken, SGetFood, IsTold
  <2> QED BY <1>3, <2>2, <2>3, <2>4, <2>5, <2>6 DEF SCustomerStep
<1>4. CASE Remove \/ UNCHANGED sVars
  <2>1. removed' \in BOOLEAN
        BY <1>4 DEF Remove, sVars, STypes
  <2> QED BY <1>4, <2>1, SIdleFrame DEF STypes
<1> QED BY <1>1, <1>2, <1>3, <1>4, SStepIs


(* The customers and their orders are in places, ...                       *)
LEMMA SPlacesAre == STypes /\ SHands => PlacesIn(sPlaces)
<1> SUFFICES ASSUME STypes, SHands PROVE PlacesIn(sPlaces)
    OBVIOUS
<1>1. sTold \in [Customers -> 0..3]
      BY DEF sTold, SHands
<1>2. sNote \in [Waiters -> Customers \cup {None}]
      /\ tray \in [Waiters -> Customers \cup {None}]
      BY DEF STypes, sNote, tray
<1>3. pan \in [Cooks -> Orders \cup {NoOrder}]
      BY DEF SHands, pan
<1>4. /\ w \in [Customers -> Waiters] /\ queue \in [Waiters -> Seq(Customers)]
      /\ cookqueue \in Seq(Orders) /\ food_ready \in [Waiters -> Customers \cup {None}]
      /\ lost \subseteq Customers
      BY DEF STypes
<1> QED BY <1>1, <1>2, <1>3, <1>4 DEF PlacesIn, sPlaces

(* ... which change with what they are read from only.                     *)
LEMMA SUnseen ==
    /\ UNCHANGED <<cpc, customer, w, wpc, cno>> => sTold' = sTold
    /\ UNCHANGED <<wpc, cno>> => sNote' = sNote /\ tray' = tray
    /\ UNCHANGED <<kpc, hand>> => pan' = pan
BY DEF sTold, SWaiting, Placing, Called, sNote, tray, pan

(* How far one customer is.                                                *)
LEMMA SToldAt ==
    ASSUME NEW c \in Customers, NEW n, sTold'[c] = n,
           \A d \in Customers : d # c => sTold'[d] = sTold[d]
    PROVE  sTold' = [sTold EXCEPT ![c] = n]
<1>1. DOMAIN sTold = Customers /\ sTold = [d \in Customers |-> sTold[d]]
      /\ sTold' = [d \in Customers |-> sTold'[d]]
      BY DEF sTold
<1> QED BY <1>1

(* A woken cook finds an order. *)
LEMMA SOrderThere ==
    ASSUME STypes, CookCalls, NEW k \in Cooks, kpc[k] = "woken"
    PROVE  cookqueue # <<>>
<1>1. Len(cookqueue) = cook + Cardinality(Woken) + Cardinality(Placed)
      BY DEF CookCalls
<1>2. k \in Woken
      BY DEF Woken
<1>3. Cardinality(Woken) \in Nat /\ Cardinality(Placed) \in Nat /\ cook \in Nat
      /\ Cardinality(Woken) > 0
      BY <1>2, CallsFinite, Count DEF STypes
<1>4. Len(<<>>) = 0
      OBVIOUS
<1> QED BY <1>1, <1>3, <1>4

(* A cook takes it from the queue and announces it when it is prepared.    *)
LEMMA SCookEffects ==
    ASSUME STypes, SHands, CookCalls, NEW k \in Cooks, SCookStep(k)
    PROVE  SameIn(sPlaces, sPlaces') \/ IsCookedIn(sPlaces, sPlaces', k)
           \/ IsReadyIn(sPlaces, sPlaces', k)
<1> USE DEF CookMoves, sKitchen, STypes
<1>1. sTold' = sTold /\ sNote' = sNote /\ tray' = tray /\ w' = w /\ queue' = queue
      BY SCookFrame, SUnseen
<1>2. CASE SCookWakes(k)
  <2>1. UNCHANGED <<cookqueue, food_ready, lost, hand>>
        BY <1>2 DEF SCookWakes
  <2>2. \A l \in Cooks : kpc'[l] = "cooking" <=> kpc[l] = "cooking"
        BY <1>2 DEF SCookWakes
  <2>3. pan' = pan
        BY <2>1, <2>2 DEF pan
  <2> QED BY <1>1, <2>1, <2>3 DEF SameIn, sPlaces
<1>3. CASE SPrepareOrder(k)
  <2>1. cookqueue # <<>>
        BY <1>3, SOrderThere DEF SPrepareOrder
  <2>2. /\ hand' = [hand EXCEPT ![k] = Head(cookqueue)] /\ cookqueue' = Tail(cookqueue)
        /\ UNCHANGED <<food_ready, lost>>
        BY <1>3, <2>1 DEF SPrepareOrder
  <2>3. pan[k] = NoOrder /\ pan' = [pan EXCEPT ![k] = Head(cookqueue)]
        BY <1>3, <2>2 DEF SPrepareOrder, pan
  <2> QED BY <1>1, <2>1, <2>2, <2>3 DEF IsCookedIn, sPlaces
<1>4. CASE SFinishOrder(k)
  <2>1. pan[k] = hand[k] /\ hand[k] \in Orders
        BY <1>4 DEF SFinishOrder, pan, SHands
  <2>2. hand' = hand /\ \E s \in {"leaving", "prepared"} : kpc' = [kpc EXCEPT ![k] = s]
        BY <1>4, Zenon DEF SFinishOrder, sCooks
  <2>3. pan' = [pan EXCEPT ![k] = NoOrder]
        BY <1>4, <2>2 DEF SFinishOrder, pan
  <2>4. pan[k] # NoOrder /\ hand[k] # None
        BY <2>1, Basics, RestaurantAssumption DEF RestaurantAssumption
  <2>5. /\ food_ready' = [food_ready EXCEPT ![hand[k].waiter] = hand[k].customer]
        /\ lost' = (lost \cup {food_ready[hand[k].waiter]}) \ {None}
        /\ cookqueue' = cookqueue
        BY <1>4, <2>4 DEF SFinishOrder, WaiterOf
  <2> QED BY <1>1, <2>1, <2>3, <2>4, <2>5 DEF IsReadyIn, sPlaces
<1>5. CASE SCallWaiter(k)
  <2>1. UNCHANGED <<cookqueue, food_ready, lost>>
        BY <1>5 DEF SCallWaiter
  <2>2. pan' = pan
        BY <1>5 DEF SCallWaiter, pan
  <2> QED BY <1>1, <2>1, <2>2 DEF SameIn, sPlaces
<1> QED BY <1>2, <1>3, <1>4, <1>5 DEF SCookStep

(* A waiter raises the semaphore of the customer in its hand once.         *)
LEMMA SCallEffect ==
    ASSUME STypes, ~removed, NEW x \in Waiters, NEW c \in Customers, c = cno[x],
           Tells(x)
    PROVE  /\ UNCHANGED <<cpc, w, queue, cookqueue, food_ready, kpc, hand, lost>>
           /\ customer'[c] = customer[c] + 1
           /\ \A d \in Customers : d # c => customer'[d] = customer[d]
<1>1. customer' = [customer EXCEPT ![c] = @ + 1]
      BY DEF Tells, Up
<1> QED BY <1>1 DEF STypes, Tells, guests, sHall, sKitchen, sCooks

(* When a waiter tells a customer in its hand that its order is noted, the *)
(* customer stays in the hall until it is; ...                             *)
LEMMA STellEffect ==
    ASSUME STypes, SHands, SHall, ~removed, NEW x \in Waiters, TellCustomer(x)
    PROVE  SameIn(sPlaces, sPlaces')
<1> USE DEF WaiterMoves
<1>1. PICK c \in Customers : c = cno[x]
      BY DEF STypes, TellCustomer
<1>2. /\ UNCHANGED <<cpc, w, queue, cookqueue, food_ready, kpc, hand, lost, cno>>
      /\ \A d \in Customers : d # c => customer'[d] = customer[d]
      BY <1>1, SCallEffect DEF TellCustomer
<1>3. /\ wpc[x] = "noting" /\ wpc'[x] = "placing"
      /\ \A y \in Waiters : y # x => wpc'[y] = wpc[y]
      BY DEF STypes, TellCustomer
<1>4. sNote[x] = c /\ c # None
      BY <1>1, <1>3, Basics DEF sNote
<1>5. sTold[c] = 0 /\ w[c] = x
      BY <1>4 DEF SHall, HallIn, sPlaces
<1>6. sNote' = sNote /\ tray' = tray /\ pan' = pan
      BY <1>2, <1>3 DEF sNote, tray, pan
<1>7. sTold'[c] = 0
  <2>1. SWaiting(c) /\ Placing(c)'
        BY <1>1, <1>2, <1>3, <1>5 DEF sTold, Placing
  <2> QED BY <1>2, <2>1 DEF sTold, SWaiting
<1>8. ASSUME NEW d \in Customers, d # c
      PROVE  sTold'[d] = sTold[d]
  <2>1. Placing(d)' <=> Placing(d)
        BY <1>1, <1>2, <1>3, <1>8 DEF Placing, STypes
  <2> QED BY <1>2, <1>8, <2>1 DEF sTold, SWaiting, Called
<1>9. sTold' = sTold
  <2>1. sTold' = [sTold EXCEPT ![c] = 0]
        BY <1>7, <1>8, SToldAt
  <2> QED BY <1>5, <2>1 DEF sTold
<1> QED BY <1>2, <1>6, <1>9 DEF SameIn, sPlaces

(* ... and its order is placed when it has been called once.               *)
LEMMA SPlaceEffect ==
    ASSUME STypes, SHands, SHall, NEW x \in Waiters, SPlaceOrder(x)
    PROVE  cno[x] \in Customers /\ IsNotedIn(sPlaces, sPlaces', cno[x], x)
<1>1. PICK c \in Customers : c = cno[x]
      BY DEF STypes, SPlaceOrder
<1>2. /\ UNCHANGED <<cpc, customer, w, queue, food_ready, kpc, hand, lost>>
      /\ cookqueue' = Append(cookqueue, [waiter |-> x, customer |-> c])
      /\ cno' = [cno EXCEPT ![x] = None] /\ wpc[x] = "placing"
      BY <1>1 DEF SPlaceOrder, guests, sHall, sCooks
<1>3. /\ wpc'[x] \in {"gone", "placed"}
      /\ \A y \in Waiters : y # x => wpc'[y] = wpc[y]
  <2>1. PICK s \in {"gone", "placed"} : wpc' = [wpc EXCEPT ![x] = s]
        BY Zenon DEF SPlaceOrder
  <2> QED BY <2>1 DEF STypes
<1>4. sNote[x] = c /\ c # None
      BY <1>1, <1>2, Basics DEF sNote
<1>5. sTold[c] = 0 /\ w[c] = x
      BY <1>4 DEF SHall, HallIn, sPlaces
<1>6. sNote' = [sNote EXCEPT ![x] = None] /\ tray' = tray /\ pan' = pan
      BY <1>2, <1>3 DEF sNote, tray, pan, STypes
<1>7. sTold'[c] = 1
  <2>1. SWaiting(c) /\ Called(c) = 1
        BY <1>1, <1>2 DEF SHands
  <2>2. ~Placing(c)'
        BY <1>2, <1>3, <1>5 DEF Placing
  <2>3. Called(c)' = 1 /\ SWaiting(c)'
        BY <1>2, <2>1 DEF Called, SWaiting
  <2> QED BY <2>2, <2>3 DEF sTold
<1>8. ASSUME NEW d \in Customers, d # c
      PROVE  sTold'[d] = sTold[d]
  <2>1. Placing(d)' <=> Placing(d)
        BY <1>1, <1>2, <1>3, <1>8 DEF Placing, STypes
  <2> QED BY <1>2, <2>1 DEF sTold, SWaiting, Called
<1>9. sTold' = [sTold EXCEPT ![c] = 1]
      BY <1>7, <1>8, SToldAt
<1> QED BY <1>1, <1>2, <1>4, <1>6, <1>9 DEF IsNotedIn, sPlaces

(* A customer is served when it waits for its food. *)
LEMMA SServeEffect ==
    ASSUME STypes, SHands, SKitchen, ~removed, NEW x \in Waiters, SServeFood(x)
    PROVE  cno[x] \in Customers /\ IsServedIn(sPlaces, sPlaces', cno[x], x)
<1> USE DEF WaiterMoves
<1>1. PICK c \in Customers : c = cno[x]
      BY DEF STypes, SServeFood
<1>2. /\ UNCHANGED <<cpc, w, queue, cookqueue, food_ready, kpc, hand, lost>>
      /\ customer'[c] = customer[c] + 1
      /\ \A d \in Customers : d # c => customer'[d] = customer[d]
      /\ cno' = [cno EXCEPT ![x] = None]
      BY <1>1, SCallEffect DEF SServeFood
<1>3. /\ wpc[x] = "serving" /\ wpc'[x] = "idle"
      /\ \A y \in Waiters : y # x => wpc'[y] = wpc[y] /\ cno'[y] = cno[y]
      BY <1>2 DEF STypes, SServeFood
<1>4. tray[x] = c /\ c # None
      BY <1>1, <1>3, Basics DEF tray
<1>5. sTold[c] = 1 /\ w[c] = x
      BY <1>4 DEF SKitchen, KitchenIn, sPlaces
<1>6. sNote' = sNote /\ tray' = [tray EXCEPT ![x] = None] /\ pan' = pan
  <2>1. cno'[x] = None /\ pan' = pan
        BY <1>2 DEF STypes, pan
  <2>2. sNote' = sNote
        BY ONLY <1>3, x \in Waiters DEF sNote
  <2>3. tray' = [tray EXCEPT ![x] = None]
        BY ONLY <1>3, <2>1, x \in Waiters DEF tray
  <2> QED BY <2>1, <2>2, <2>3
<1>7. \A d \in Customers : Placing(d)' <=> Placing(d)
      BY <1>2, <1>3 DEF Placing, STypes
<1>8. sTold'[c] = 2
  <2>1. SWaiting(c) /\ Called(c) = 1 /\ ~Placing(c)
        BY <1>5 DEF sTold
  <2>2. Called(c)' = 2
    <3>1. customer[c] \in Nat
          BY DEF STypes
    <3> QED BY <1>2, <2>1, <3>1 DEF Called
  <2> QED BY <1>2, <1>7, <2>1, <2>2 DEF sTold, SWaiting
<1>9. ASSUME NEW d \in Customers, d # c
      PROVE  sTold'[d] = sTold[d]
      BY <1>2, <1>7, <1>9 DEF sTold, SWaiting, Called
<1>10. sTold' = [sTold EXCEPT ![c] = 2]
       BY <1>8, <1>9, SToldAt
<1> QED BY <1>1, <1>2, <1>4, <1>6, <1>10 DEF IsServedIn, sPlaces

(* Effects of the steps of a waiter ... *)
LEMMA SWaiterEffects ==
    ASSUME STypes, SHands, SHall, SKitchen, ~removed, NEW x \in Waiters, SWaiterStep(x)
    PROVE  SameIn(sPlaces, sPlaces')
           \/ \E c \in Customers : \/ IsAskedIn(sPlaces, sPlaces', c, x)
                                   \/ IsNotedIn(sPlaces, sPlaces', c, x)
                                   \/ IsFetchedIn(sPlaces, sPlaces', c, x)
                                   \/ IsServedIn(sPlaces, sPlaces', c, x)
<1> USE DEF WaiterMoves, sHall, sKitchen, semaphores, sCooks, guests
<1>1. w' = w /\ lost' = lost /\ cpc' = cpc /\ pan' = pan
  <2>1. UNCHANGED <<kpc, hand, w, cpc, lost>>
        BY SWaiterFrame
  <2> QED BY <2>1, SUnseen
<1>2. ASSUME UNCHANGED customer,
             \A d \in Customers : Placing(d)' <=> Placing(d)
      PROVE  sTold' = sTold
      BY <1>1, <1>2 DEF sTold, SWaiting, Called
<1>3. CASE SWaiterWakes(x) \/ SCallCook(x) \/ FindNothing(x)
  <2>1. UNCHANGED <<cookqueue, food_ready, queue, cno, customer>>
        BY <1>3 DEF SWaiterWakes, SCallCook, FindNothing
  <2>2. PICK s \in {"woken", "idle", "gone"} :
           wpc[x] \in {"idle", "placed", "woken"} /\ wpc' = [wpc EXCEPT ![x] = s]
        BY <1>3, Zenon DEF SWaiterWakes, SCallCook, FindNothing
  <2>3. sNote' = sNote /\ tray' = tray
        BY <2>1, <2>2 DEF sNote, tray, STypes
  <2>4. \A d \in Customers : Placing(d)' <=> Placing(d)
        BY <1>1, <2>1, <2>2 DEF Placing, STypes
  <2> QED BY <1>1, <1>2, <2>1, <2>3, <2>4 DEF SameIn, sPlaces
<1>4. CASE SFetchFood(x)
  <2> DEFINE c == food_ready[x]
  <2>1. /\ c \in Customers /\ customer' = customer /\ cno' = [cno EXCEPT ![x] = c]
        /\ wpc[x] = "woken" /\ wpc' = [wpc EXCEPT ![x] = "serving"]
        /\ food_ready' = [food_ready EXCEPT ![x] = None] /\ UNCHANGED <<queue, cookqueue>>
        BY <1>4 DEF SFetchFood, STypes
  <2>2. tray[x] = None /\ tray' = [tray EXCEPT ![x] = c] /\ sNote' = sNote
        BY <2>1 DEF tray, sNote, STypes
  <2>3. \A d \in Customers : Placing(d)' <=> Placing(d)
        BY <1>1, <2>1 DEF Placing, STypes
  <2> QED BY <1>1, <1>2, <2>1, <2>2, <2>3 DEF IsFetchedIn, sPlaces
<1>5. CASE STakeOrder(x)
  <2> DEFINE c == Head(queue[x])
  <2>1. queue[x] # <<>> /\ queue[x] \in Seq(Customers)
        BY <1>5 DEF STakeOrder, STypes
  <2>2. c \in Customers
        BY <2>1, EntryTaken
  <2>3. /\ customer' = customer /\ cno' = [cno EXCEPT ![x] = c]
        /\ wpc[x] = "woken" /\ wpc' = [wpc EXCEPT ![x] = "noting"]
        /\ queue' = [queue EXCEPT ![x] = Tail(@)] /\ UNCHANGED <<food_ready, cookqueue>>
        BY <1>5 DEF STakeOrder
  <2>4. sNote[x] = None /\ sNote' = [sNote EXCEPT ![x] = c] /\ tray' = tray
        BY <2>3 DEF tray, sNote, STypes
  <2>5. \A d \in Customers : Placing(d)' <=> Placing(d)
        BY <1>1, <2>3 DEF Placing, STypes
  <2> QED BY <1>1, <1>2, <2>1, <2>2, <2>3, <2>4, <2>5 DEF IsAskedIn, sPlaces
<1>6. CASE SServeFood(x)
      BY <1>6, SServeEffect
<1>7. CASE TellCustomer(x)
      BY <1>7, STellEffect
<1>8. CASE SPlaceOrder(x)
      BY <1>8, SPlaceEffect
<1> QED BY <1>3, <1>4, <1>5, <1>6, <1>7, <1>8 DEF SWaiterStep

(* A customer whose semaphore is above 0 and who has been called before    *)
(* has been called twice, and nobody places its order.                     *)
LEMMA SCalledTwice ==
    ASSUME STypes, SHands, NEW c \in Customers, cpc[c] = "hungry", customer[c] > 0
    PROVE  Called(c) = 2 /\ customer[c] = 1 /\ ~Placing(c)
<1>1. SWaiting(c) /\ Called(c) \in 0..2 /\ Called(c) = customer[c] + 1
      /\ customer[c] \in Nat
      BY DEF STypes, SHands, Called, SWaiting
<1>2. Called(c) = 2 /\ customer[c] = 1
      BY <1>1
<1>3. ~Placing(c)
  <2>1. w[c] \in Waiters
        BY DEF STypes
  <2> QED BY <1>2, <2>1 DEF Placing, SHands
<1> QED BY <1>2, <1>3

(* ... and of a customer. *)
LEMMA SCustomerEffects ==
    ASSUME STypes, SHands, ~removed, NEW c \in Customers, SCustomerStep(c)
    PROVE  \/ /\ \/ STurnAway(c) \/ SCallForWaiter(c) \/ OrderTaken(c)
                 \/ NoteTime(c) \/ SFinishEating(c)
              /\ SameIn(sPlaces, sPlaces')
           \/ SGetFood(c) /\ EatsIn(sPlaces, sPlaces', c)
           \/ STakeTable(c) /\ SitsIn(sPlaces, sPlaces', c, next_waiter)
<1> USE DEF CustomerMoves, sHall, semaphores
<1>1. UNCHANGED <<pan, sNote, tray, cookqueue, food_ready, lost, wpc, cno>>
  <2>1. UNCHANGED <<kpc, hand, wpc, cno, cookqueue, food_ready, lost>>
        BY SCustomerFrame
  <2> QED BY <2>1, SUnseen
<1>2. CASE STurnAway(c) \/ SCallForWaiter(c) \/ NoteTime(c)
           \/ SFinishEating(c)
  <2>1. UNCHANGED <<w, queue, customer>>
        BY <1>2 DEF STurnAway, SCallForWaiter, NoteTime, SFinishEating
  <2>2. /\ \A d \in Customers : d # c => cpc'[d] = cpc[d]
        /\ \/ cpc[c] = "arriving" /\ cpc'[c] = "gone"
           \/ cpc[c] = "calling" /\ cpc'[c] = "ordering"
           \/ cpc[c] = "told" /\ cpc'[c] = "hungry"
           \/ cpc[c] = "eating" /\ cpc'[c] = "gone"
        BY <1>2 DEF STurnAway, SCallForWaiter, NoteTime, SFinishEating, STypes
  <2>3. \A d \in Customers : /\ SWaiting(d)' <=> SWaiting(d)
                             /\ SWaiting(d) => Called(d)' = Called(d)
        BY <2>1, <2>2 DEF SWaiting, Called
  <2>4. \A d \in Customers : Placing(d)' <=> Placing(d)
        BY <1>1, <2>1 DEF Placing
  <2>5. sTold' = sTold
        BY <2>3, <2>4 DEF sTold
  <2> QED BY <1>2, <1>1, <2>1, <2>5 DEF SameIn, sPlaces
<1>3. CASE OrderTaken(c)
  <2>1. /\ UNCHANGED <<w, queue>> /\ cpc[c] = "ordering"
        /\ customer' = [customer EXCEPT ![c] = @ - 1]
        /\ cpc' = [cpc EXCEPT ![c] = "told"]
        BY <1>3 DEF OrderTaken, IsTold, Down
  <2>2. /\ \A d \in Customers : d # c => cpc'[d] = cpc[d] /\ customer'[d] = customer[d]
        /\ cpc'[c] = "told" /\ customer'[c] = customer[c] - 1 /\ customer[c] \in Nat
        BY <2>1 DEF STypes
  <2>3. \A d \in Customers : /\ SWaiting(d)' <=> SWaiting(d)
                             /\ Called(d)' = Called(d)
    <3>1. Called(c)' = Called(c)
          BY <2>1, <2>2 DEF Called
    <3> QED BY <2>1, <2>2, <3>1 DEF SWaiting, Called
  <2>4. \A d \in Customers : Placing(d)' <=> Placing(d)
        BY <1>1, <2>1 DEF Placing
  <2>5. sTold' = sTold
        BY <2>3, <2>4 DEF sTold
  <2> QED BY <1>3, <1>1, <2>1, <2>5 DEF SameIn, sPlaces
<1>4. CASE SGetFood(c)
  <2>1. /\ UNCHANGED <<w, queue>> /\ cpc[c] = "hungry" /\ customer[c] > 0
        /\ customer' = [customer EXCEPT ![c] = @ - 1]
        /\ cpc' = [cpc EXCEPT ![c] = "eating"]
        BY <1>4 DEF SGetFood, IsTold, Down, MayPass
  <2>2. /\ \A d \in Customers : d # c => cpc'[d] = cpc[d] /\ customer'[d] = customer[d]
        /\ cpc'[c] = "eating"
        BY <2>1 DEF STypes
  <2>3. sTold[c] = 2
        BY <2>1, SCalledTwice DEF sTold, SWaiting
  <2>4. sTold'[c] = 3
        BY <2>2 DEF sTold, SWaiting
  <2>5. ASSUME NEW d \in Customers, d # c
        PROVE  sTold'[d] = sTold[d]
        BY <1>1, <2>1, <2>2, <2>5 DEF sTold, SWaiting, Called, Placing
  <2>6. sTold' = [sTold EXCEPT ![c] = 3]
        BY <2>4, <2>5, SToldAt
  <2> QED BY <1>4, <1>1, <2>1, <2>3, <2>6 DEF EatsIn, sPlaces
<1>5. CASE STakeTable(c)
  <2>1. /\ cpc[c] = "arriving" /\ customer' = customer
        /\ w' = [w EXCEPT ![c] = next_waiter]
        /\ queue' = [queue EXCEPT ![next_waiter] = Append(@, c)]
        BY <1>5 DEF STakeTable
  <2>2. /\ \A d \in Customers : d # c => cpc'[d] = cpc[d] /\ w'[d] = w[d]
        /\ cpc'[c] = "calling"
        BY <1>5 DEF STakeTable, STypes
  <2>3. sTold[c] = 3 /\ customer[c] = 0
        BY <2>1 DEF sTold, SWaiting, SHands
  <2>4. sTold'[c] = 0
        BY <2>1, <2>2, <2>3 DEF sTold, SWaiting, Called
  <2>5. ASSUME NEW d \in Customers, d # c
        PROVE  sTold'[d] = sTold[d]
        BY <1>1, <2>1, <2>2, <2>5 DEF sTold, SWaiting, Called, Placing
  <2>6. sTold' = [sTold EXCEPT ![c] = 0]
        BY <2>4, <2>5, SToldAt
  <2> QED BY <1>5, <1>1, <2>1, <2>3, <2>6 DEF SitsIn, sPlaces
<1> QED BY <1>2, <1>3, <1>4, <1>5 DEF SCustomerStep

(* What the customers are told, one by one. *)
SCallsOf(c) == IF SWaiting(c) THEN Called(c) \in 0..2 ELSE customer[c] = 0
SPlacingOf(x) == wpc[x] = "placing" => SWaiting(cno[x]) /\ Called(cno[x]) = 1

(* No customer is called more than twice, and one whose order is about to  *)
(* be placed has been called once: nobody else calls it meanwhile.         *)
LEMMA SHandsStep ==
    STypes /\ SHands /\ SHall /\ SKitchen /\ CookCalls /\ ~removed
       /\ [SNext]_sVars => SHands'
<1> SUFFICES ASSUME STypes, SHands, SHall, SKitchen, CookCalls, ~removed,
                    [SNext]_sVars
             PROVE  SHands'
    OBVIOUS
<1>1. /\ \A k \in Cooks : kpc[k] \in {"cooking", "prepared", "leaving"} => hand[k] \in Orders
      /\ \A c \in Customers : SCallsOf(c)
      /\ \A x \in Waiters : SPlacingOf(x)
      BY DEF SHands, SCallsOf, SPlacingOf
<1>2. ASSUME \A k \in Cooks : kpc'[k] \in {"cooking", "prepared", "leaving"} => hand'[k] \in Orders,
             \A c \in Customers : SCallsOf(c)', \A x \in Waiters : SPlacingOf(x)'
      PROVE  SHands'
      BY <1>2 DEF SHands, SCallsOf, SPlacingOf
<1>3. ASSUME NEW k \in Cooks, SCookStep(k) PROVE SHands'
  <2>1. UNCHANGED <<customer, cpc, wpc, cno>>
        BY <1>3, SCookFrame
  <2>2. \A l \in Cooks : kpc'[l] \in {"cooking", "prepared", "leaving"} => hand'[l] \in Orders
    <3> USE DEF STypes, CookMoves
    <3>1. CASE SCookWakes(k) \/ SCallWaiter(k)
          BY <3>1, <1>1 DEF SCookWakes, SCallWaiter
    <3>2. CASE SPrepareOrder(k)
      <4>1. cookqueue # <<>>
            BY <3>2, SOrderThere DEF SPrepareOrder
      <4>2. Head(cookqueue) \in Orders /\ hand' = [hand EXCEPT ![k] = Head(cookqueue)]
            BY <3>2, <4>1, EntryTaken DEF SPrepareOrder
      <4> QED BY <3>2, <4>2, <1>1 DEF SPrepareOrder
    <3>3. CASE SFinishOrder(k)
      <4>1. hand' = hand /\ kpc[k] = "cooking" /\ \A l \in Cooks : l # k => kpc'[l] = kpc[l]
            BY <3>3 DEF SFinishOrder, sCooks
      <4> QED BY <4>1, <1>1
    <3> QED BY <1>3, <3>1, <3>2, <3>3 DEF SCookStep
  <2> QED BY <2>1, <2>2, <1>1, <1>2 DEF SCallsOf, SPlacingOf, SWaiting, Called
<1>4. ASSUME NEW x \in Waiters, SWaiterStep(x) PROVE SHands'
  <2> USE DEF WaiterMoves
  <2>1. UNCHANGED <<cpc, kpc, hand, w>>
        BY <1>4, SWaiterFrame
  <2>2. CASE SServeFood(x) \/ TellCustomer(x)
    <3>1. PICK c \in Customers : c = cno[x] /\ c # None
          BY <2>2, Basics DEF STypes, SServeFood, TellCustomer
    <3>2. /\ customer'[c] = customer[c] + 1
          /\ \A d \in Customers : d # c => customer'[d] = customer[d]
          BY <2>2, <3>1, SCallEffect DEF SServeFood, TellCustomer
    <3>3. /\ \A y \in Waiters : y # x => wpc'[y] = wpc[y] /\ cno'[y] = cno[y]
          /\ \/ SServeFood(x) /\ wpc[x] = "serving" /\ wpc'[x] = "idle"
             \/ TellCustomer(x) /\ wpc[x] = "noting" /\ wpc'[x] = "placing"
                /\ cno'[x] = c
          BY <2>2, <3>1 DEF STypes, SServeFood, TellCustomer
    <3>4. /\ w[c] = x /\ ~Placing(c)
          /\ \/ wpc[x] = "serving" /\ sTold[c] = 1
             \/ wpc[x] = "noting" /\ sTold[c] = 0
      <4>1. CASE wpc[x] = "serving"
        <5>1. tray[x] = c
              BY <3>1, <4>1 DEF tray
        <5>2. w[c] = x /\ sTold[c] = 1
              BY <3>1, <5>1 DEF SKitchen, KitchenIn, sPlaces
        <5> QED BY <4>1, <5>2 DEF Placing
      <4>2. CASE wpc[x] = "noting"
        <5>1. sNote[x] = c
              BY <3>1, <4>2 DEF sNote
        <5>2. w[c] = x /\ sTold[c] = 0
              BY <3>1, <5>1 DEF SHall, HallIn, sPlaces
        <5> QED BY <4>2, <5>2 DEF Placing
      <4> QED BY <3>3, <4>1, <4>2
    <3>5. /\ SWaiting(c)
          /\ Called(c) = IF wpc[x] = "serving" THEN 1 ELSE 0
          BY <3>4 DEF sTold
    <3>6. /\ SWaiting(c)'
          /\ Called(c)' = IF wpc[x] = "serving" THEN 2 ELSE 1
      <4>1. customer[c] \in Nat
            BY DEF STypes
      <4>2. Called(c)' = Called(c) + 1
            BY <2>1, <3>2, <4>1 DEF Called
      <4> QED BY <2>1, <3>5, <4>2 DEF SWaiting
    <3>7. \A d \in Customers : SCallsOf(d)'
      <4>1. SCallsOf(c)'
            BY <3>6 DEF SCallsOf
      <4>2. \A d \in Customers : d # c => SCallsOf(d)'
            BY <1>1, <2>1, <3>2 DEF SCallsOf, SWaiting, Called
      <4> QED BY <4>1, <4>2
    <3>8. ASSUME NEW y \in Waiters, wpc'[y] = "placing"
          PROVE  SWaiting(cno[y])' /\ Called(cno[y])' = 1
      <4>1. CASE y = x
        <5>1. cno'[y] = c /\ wpc[x] = "noting"
              BY <3>3, <3>8, <4>1
        <5> QED BY <3>6, <5>1 DEF SWaiting, Called
      <4>2. CASE y # x
        <5>1. PICK d \in Customers : d = cno[y] /\ d # None
              BY <3>3, <3>8, <4>2, Basics DEF STypes
        <5>2. sNote[y] = d
              BY <3>3, <3>8, <4>2, <5>1 DEF sNote
        <5>3. w[d] = y
              BY <5>1, <5>2 DEF SHall, HallIn, sPlaces
        <5>4. d # c
              BY <3>4, <4>2, <5>3
        <5>5. SWaiting(d) /\ Called(d) = 1
              BY <1>1, <3>3, <3>8, <4>2, <5>1 DEF SPlacingOf
        <5>6. SWaiting(d)' /\ Called(d)' = 1
              BY <2>1, <3>2, <5>4, <5>5 DEF SWaiting, Called
        <5> QED BY <3>3, <4>2, <5>1, <5>6 DEF SWaiting, Called
      <4> QED BY <4>1, <4>2
    <3> QED BY <1>1, <1>2, <2>1, <3>7, <3>8 DEF SPlacingOf
  <2>3. CASE \/ SWaiterWakes(x) \/ SFetchFood(x) \/ STakeOrder(x)
             \/ SPlaceOrder(x) \/ SCallCook(x) \/ FindNothing(x)
    <3>1. customer' = customer
          BY <2>3 DEF SWaiterWakes, SFetchFood, STakeOrder, SPlaceOrder,
                      SCallCook, FindNothing, semaphores
    <3>2. PICK s \in {"woken", "serving", "noting", "gone", "placed", "idle"} :
             wpc' = [wpc EXCEPT ![x] = s]
          BY <2>3, Zenon DEF SWaiterWakes, SFetchFood, STakeOrder, SPlaceOrder,
                             SCallCook, FindNothing
    <3>3. \A y \in Waiters : y # x => cno'[y] = cno[y]
          BY <2>3 DEF SWaiterWakes, SFetchFood, STakeOrder, SPlaceOrder,
                      SCallCook, FindNothing, STypes
    <3>4. wpc'[x] # "placing" /\ \A y \in Waiters : y # x => wpc'[y] = wpc[y]
          BY <3>2 DEF STypes
    <3>5. \A c \in Customers : SCallsOf(c)'
          BY <1>1, <2>1, <3>1 DEF SCallsOf, SWaiting, Called
    <3>6. \A y \in Waiters : SPlacingOf(y)'
          BY <1>1, <2>1, <3>1, <3>3, <3>4 DEF SPlacingOf, SWaiting, Called
    <3> QED BY <1>1, <1>2, <2>1, <3>5, <3>6
  <2> QED BY <1>4, <2>2, <2>3 DEF SWaiterStep
<1>5. ASSUME NEW c \in Customers, SCustomerStep(c) PROVE SHands'
  <2> USE DEF CustomerMoves
  <2>1. UNCHANGED <<kpc, hand, wpc, cno>>
        BY <1>5, SCustomerFrame
  <2>2. \A d \in Customers : d # c => cpc'[d] = cpc[d] /\ customer'[d] = customer[d]
    <3> USE DEF STypes
    <3>1. CASE \/ STurnAway(c) \/ STakeTable(c) \/ SCallForWaiter(c)
               \/ NoteTime(c) \/ SFinishEating(c)
          BY <3>1 DEF STurnAway, STakeTable, SCallForWaiter, NoteTime,
                      SFinishEating, semaphores
    <3>2. CASE OrderTaken(c) \/ SGetFood(c)
          BY <3>2 DEF OrderTaken, SGetFood, IsTold
    <3> QED BY <1>5, <3>1, <3>2 DEF SCustomerStep
  <2>3. /\ customer[c] \in Nat
        /\ IF SWaiting(c) THEN Called(c) \in 0..2 ELSE customer[c] = 0
        BY <1>1 DEF STypes, SCallsOf
  <2>4. /\ SCallsOf(c)'
        /\ SWaiting(c) /\ Called(c) = 1 => SWaiting(c)' /\ Called(c)' = 1
    <3>1. CASE \/ STurnAway(c) \/ STakeTable(c) \/ SCallForWaiter(c)
               \/ NoteTime(c) \/ SFinishEating(c)
      <4>1. customer'[c] = customer[c]
            BY <3>1 DEF STurnAway, STakeTable, SCallForWaiter, NoteTime,
                        SFinishEating, semaphores
      <4>2. \/ cpc[c] = "arriving" /\ cpc'[c] \in {"gone", "calling"}
            \/ cpc[c] = "calling" /\ cpc'[c] = "ordering"
            \/ cpc[c] = "told" /\ cpc'[c] = "hungry"
            \/ cpc[c] = "eating" /\ cpc'[c] = "gone"
            BY <3>1 DEF STurnAway, STakeTable, SCallForWaiter, NoteTime,
                        SFinishEating, STypes
      <4> QED BY <2>3, <4>1, <4>2 DEF SCallsOf, SWaiting, Called
    <3>2. CASE OrderTaken(c) \/ SGetFood(c)
      <4>1. customer[c] > 0 /\ customer'[c] = customer[c] - 1
            BY <3>2 DEF OrderTaken, SGetFood, IsTold, Down, MayPass, STypes
      <4>2. \/ cpc[c] = "ordering" /\ cpc'[c] = "told"
            \/ cpc[c] = "hungry" /\ cpc'[c] = "eating"
            BY <3>2 DEF OrderTaken, SGetFood, STypes
      <4> QED BY <2>3, <4>1, <4>2 DEF SCallsOf, SWaiting, Called
    <3> QED BY <1>5, <3>1, <3>2 DEF SCustomerStep
  <2>5. \A d \in Customers : SCallsOf(d)'
    <3>1. \A d \in Customers : d # c => SCallsOf(d)'
          BY <1>1, <2>2 DEF SCallsOf, SWaiting, Called
    <3> QED BY <2>4, <3>1
  <2>6. ASSUME NEW x \in Waiters, wpc'[x] = "placing"
        PROVE  SWaiting(cno[x])' /\ Called(cno[x])' = 1
    <3>1. PICK d \in Customers : d = cno[x]
          BY <2>1, <2>6 DEF STypes
    <3>2. SWaiting(d) /\ Called(d) = 1
          BY <1>1, <2>1, <2>6, <3>1 DEF SPlacingOf
    <3>3. SWaiting(d)' /\ Called(d)' = 1
      <4>1. CASE d = c
            BY <2>4, <3>2, <4>1
      <4>2. CASE d # c
            BY <2>2, <3>2, <4>2 DEF SWaiting, Called
      <4> QED BY <4>1, <4>2
    <3> QED BY <2>1, <3>1, <3>3 DEF SWaiting, Called
  <2> QED BY <1>1, <1>2, <2>1, <2>5, <2>6 DEF SPlacingOf
<1>6. CASE Remove \/ UNCHANGED sVars
  <2>1. UNCHANGED <<customer, cpc, wpc, cno, kpc, hand>>
        BY <1>6, SIdleFrame
  <2> QED BY <2>1 DEF SHands, SWaiting, Called
<1> QED BY <1>3, <1>4, <1>5, <1>6, SStepIs

(* So everybody and every order keeps its place. *)
LEMMA SPlacesStep ==
    STypes /\ SHands /\ SHall /\ SKitchen /\ CookCalls /\ ~removed
       /\ [SNext]_sVars => SHall' /\ SKitchen'
<1> SUFFICES ASSUME STypes, SHands, SHall, SKitchen, CookCalls, ~removed,
                    [SNext]_sVars
             PROVE  SHall' /\ SKitchen'
    OBVIOUS
<1>1. \/ SameIn(sPlaces, sPlaces')
      \/ \E c \in Customers, x \in Waiters :
            \/ SitsIn(sPlaces, sPlaces', c, x) \/ IsAskedIn(sPlaces, sPlaces', c, x)
            \/ IsNotedIn(sPlaces, sPlaces', c, x) \/ IsFetchedIn(sPlaces, sPlaces', c, x)
            \/ IsServedIn(sPlaces, sPlaces', c, x)
      \/ \E k \in Cooks : IsCookedIn(sPlaces, sPlaces', k) \/ IsReadyIn(sPlaces, sPlaces', k)
      \/ \E c \in Customers : EatsIn(sPlaces, sPlaces', c)
  <2>1. CASE \E k \in Cooks : SCookStep(k)
        BY <2>1, SCookEffects
  <2>2. CASE \E x \in Waiters : SWaiterStep(x)
        BY <2>2, SWaiterEffects
  <2>3. CASE \E c \in Customers : SCustomerStep(c)
    <3>1. next_waiter \in Waiters
          BY DEF STypes
    <3> QED BY <2>3, <3>1, SCustomerEffects
  <2>4. CASE Remove \/ UNCHANGED sVars
    <3>1. UNCHANGED <<cpc, customer, wpc, cno, kpc, hand, w, queue, cookqueue, food_ready, lost>>
          BY <2>4, SIdleFrame
    <3> QED BY <3>1, SUnseen DEF SameIn, sPlaces
  <2> QED BY <2>1, <2>2, <2>3, <2>4, SStepIs
<1>2. PlacesIn(sPlaces)
      BY SPlacesAre
<1> QED BY <1>1, <1>2, PlacesKept DEF SHall, SKitchen

(* The sets that are counted are finite. *)
LEMMA SFinite ==
    /\ IsFiniteSet(SAtTable)
    /\ \A x \in Waiters : IsFiniteSet(Calling(x)) /\ IsFiniteSet(SPrepared(x))
BY CallsFinite, RestaurantAssumption, FS_Subset DEF RestaurantAssumption, SAtTable, SPrepared

(* A table is taken by every customer from when it sits down until it has  *)
(* eaten, and there are as many as there were.                             *)
LEMMA STablesStep ==
    STypes /\ tables \in 0..NumTables /\ STables /\ ~removed
       /\ [SNext]_sVars => STables' /\ tables' \in 0..NumTables
<1> SUFFICES ASSUME STypes, tables \in 0..NumTables, STables, ~removed,
                    [SNext]_sVars
             PROVE  STables' /\ tables' \in 0..NumTables
    OBVIOUS
<1> USE DEF CustomerMoves
<1>1. /\ Cardinality(SAtTable) \in Nat /\ NumTables \in Nat
      /\ tables = NumTables - Cardinality(SAtTable)
      BY SFinite, Count, RestaurantAssumption DEF STables, RestaurantAssumption
<1>2. ASSUME NEW c \in Customers, SCustomerStep(c)
      PROVE  STables' /\ tables' \in 0..NumTables
  <2>1. CASE STakeTable(c)
    <3>1. c \notin SAtTable /\ SAtTable' = SAtTable \cup {c}
          BY <2>1 DEF STakeTable, SAtTable, STypes
    <3>2. Cardinality(SAtTable') = Cardinality(SAtTable) + 1
          BY <3>1, SFinite, Count
    <3>3. tables # 0 /\ tables' = tables - 1
          BY <2>1 DEF STakeTable
    <3> QED BY <3>2, <3>3, <1>1 DEF STables
  <2>2. CASE SFinishEating(c)
    <3>1. c \in SAtTable /\ SAtTable' = SAtTable \ {c}
          BY <2>2 DEF SFinishEating, SAtTable, STypes
    <3>2. Cardinality(SAtTable') = Cardinality(SAtTable) - 1 /\ Cardinality(SAtTable) > 0
          BY <3>1, SFinite, Count
    <3>3. tables' = tables + 1
          BY <2>2 DEF SFinishEating
    <3> QED BY <3>2, <3>3, <1>1 DEF STables
  <2>3. CASE \/ STurnAway(c) \/ SCallForWaiter(c) \/ OrderTaken(c)
             \/ NoteTime(c) \/ SGetFood(c)
    <3>1. tables' = tables
          BY <2>3 DEF STurnAway, SCallForWaiter, OrderTaken, NoteTime, SGetFood,
                      IsTold, sHall
    <3>2. SAtTable' = SAtTable
      <4>1. /\ \A d \in Customers : d # c => cpc'[d] = cpc[d]
            /\ \/ cpc[c] = "arriving" /\ cpc'[c] = "gone"
               \/ cpc[c] = "calling" /\ cpc'[c] = "ordering"
               \/ cpc[c] = "ordering" /\ cpc'[c] = "told"
               \/ cpc[c] = "told" /\ cpc'[c] = "hungry"
               \/ cpc[c] = "hungry" /\ cpc'[c] = "eating"
            BY <2>3 DEF STurnAway, SCallForWaiter, OrderTaken, NoteTime,
                        SGetFood, STypes
      <4> QED BY <4>1 DEF SAtTable
    <3> QED BY <3>1, <3>2 DEF STables
  <2> QED BY <1>2, <2>1, <2>2, <2>3 DEF SCustomerStep
<1>3. CASE \/ \E k \in Cooks : SCookStep(k)
           \/ \E x \in Waiters : SWaiterStep(x)
           \/ Remove \/ UNCHANGED sVars
  <2>1. UNCHANGED <<tables, cpc>>
        BY <1>3, SCookFrame, SWaiterFrame, SIdleFrame
  <2> QED BY <2>1 DEF STables, SAtTable
<1> QED BY <1>2, <1>3, SStepIs

(* A cook is called for every order, by a waiter that goes home too.       *)
LEMMA SCookCallsStep ==
    STypes /\ CookCalls /\ ~removed /\ [SNext]_sVars => CookCalls'
<1> SUFFICES ASSUME STypes, CookCalls, ~removed, [SNext]_sVars
             PROVE  CookCalls'
    OBVIOUS
<1> USE DEF sKitchen, semaphores, CookMoves, WaiterMoves
<1>1. /\ Cardinality(Woken) \in Nat /\ Cardinality(Placed) \in Nat
      /\ cookqueue \in Seq(Orders) /\ Len(cookqueue) \in Nat /\ cook \in Nat
      /\ Len(cookqueue) = cook + Cardinality(Woken) + Cardinality(Placed)
      BY CallsFinite, Count, LenProperties DEF STypes, CookCalls
<1>2. CASE UNCHANGED <<cookqueue, cook, Woken, Placed>>
      BY <1>2 DEF CookCalls
<1>3. ASSUME NEW k \in Cooks, SCookStep(k) PROVE CookCalls'
  <2>1. Placed' = Placed
        BY <1>3, SCookFrame DEF Placed
  <2>2. CASE SCookWakes(k)
    <3>1. k \notin Woken /\ Woken' = Woken \cup {k}
          BY <2>2 DEF SCookWakes, Woken, STypes
    <3>2. Cardinality(Woken') = Cardinality(Woken) + 1
          BY <3>1, CallsFinite, Count
    <3>3. cook' = cook - 1 /\ cookqueue' = cookqueue
          BY <2>2 DEF SCookWakes, Down
    <3> QED BY <2>1, <3>2, <3>3, <1>1 DEF CookCalls
  <2>3. CASE SPrepareOrder(k)
    <3>1. kpc[k] = "woken" /\ k \in Woken /\ Woken' = Woken \ {k}
          BY <2>3 DEF SPrepareOrder, Woken, STypes
    <3>2. Cardinality(Woken') = Cardinality(Woken) - 1
          BY <3>1, CallsFinite, Count
    <3>3. cookqueue # <<>>
          BY <3>1, SOrderThere
    <3>4. cookqueue' = Tail(cookqueue) /\ cook' = cook
          BY <2>3, <3>3 DEF SPrepareOrder
    <3>5. Len(cookqueue') = Len(cookqueue) - 1
          BY <3>3, <3>4, <1>1, EntryTaken
    <3> QED BY <2>1, <3>2, <3>4, <3>5, <1>1 DEF CookCalls
  <2>4. CASE SFinishOrder(k) \/ SCallWaiter(k)
    <3>1. UNCHANGED <<cookqueue, cook>>
          BY <2>4 DEF SFinishOrder, SCallWaiter
    <3>2. \E s \in {"leaving", "prepared", "idle", "gone"} :
             kpc[k] # "woken" /\ kpc' = [kpc EXCEPT ![k] = s]
          BY <2>4, Zenon DEF SFinishOrder, SCallWaiter
    <3>3. Woken' = Woken
          BY <3>2 DEF Woken, STypes
    <3> QED BY <1>2, <2>1, <3>1, <3>3
  <2> QED BY <1>3, <2>2, <2>3, <2>4 DEF SCookStep
<1>4. ASSUME NEW x \in Waiters, SWaiterStep(x) PROVE CookCalls'
  <2>1. Woken' = Woken
        BY <1>4, SWaiterFrame DEF Woken
  <2>2. CASE SPlaceOrder(x)
    <3>1. [waiter |-> x, customer |-> cno[x]] \in Orders
          BY <2>2 DEF SPlaceOrder, STypes, Orders
    <3>2. Len(cookqueue') = Len(cookqueue) + 1 /\ wpc[x] = "placing"
          BY <2>2, <3>1, <1>1, EntryAdded DEF SPlaceOrder
    <3>3. \/ wpc' = [wpc EXCEPT ![x] = "gone"] /\ cook' = cook + 1
          \/ wpc' = [wpc EXCEPT ![x] = "placed"] /\ cook' = cook
          BY <2>2 DEF SPlaceOrder, Up
    <3>4. CASE wpc' = [wpc EXCEPT ![x] = "gone"] /\ cook' = cook + 1
      <4>1. Placed' = Placed
            BY <3>2, <3>4 DEF Placed, STypes
      <4> QED BY <2>1, <3>2, <3>4, <4>1, <1>1 DEF CookCalls
    <3>5. CASE wpc' = [wpc EXCEPT ![x] = "placed"] /\ cook' = cook
      <4>1. x \notin Placed /\ Placed' = Placed \cup {x}
            BY <3>2, <3>5 DEF Placed, STypes
      <4>2. Cardinality(Placed') = Cardinality(Placed) + 1
            BY <4>1, CallsFinite, Count
      <4> QED BY <2>1, <3>2, <3>5, <4>2, <1>1 DEF CookCalls
    <3> QED BY <3>3, <3>4, <3>5
  <2>3. CASE SCallCook(x)
    <3>1. x \in Placed /\ Placed' = Placed \ {x}
          BY <2>3 DEF SCallCook, Placed, STypes
    <3>2. Cardinality(Placed') = Cardinality(Placed) - 1
          BY <3>1, CallsFinite, Count
    <3>3. cookqueue' = cookqueue /\ cook' = cook + 1
          BY <2>3 DEF SCallCook, Up
    <3> QED BY <2>1, <3>2, <3>3, <1>1 DEF CookCalls
  <2>4. CASE \/ SWaiterWakes(x) \/ SFetchFood(x) \/ SServeFood(x)
             \/ STakeOrder(x) \/ TellCustomer(x) \/ FindNothing(x)
    <3>1. UNCHANGED <<cookqueue, cook>>
          BY <2>4 DEF SWaiterWakes, SFetchFood, SServeFood, STakeOrder,
                      TellCustomer, Tells, FindNothing
    <3>2. \E s \in {"woken", "serving", "idle", "noting", "placing", "gone"} :
             wpc[x] # "placed" /\ wpc' = [wpc EXCEPT ![x] = s]
          BY <2>4, Zenon DEF SWaiterWakes, SFetchFood, SServeFood, STakeOrder,
                             TellCustomer, FindNothing
    <3>3. Placed' = Placed
          BY <3>2 DEF Placed, STypes
    <3> QED BY <1>2, <2>1, <3>1, <3>3
  <2> QED BY <1>4, <2>2, <2>3, <2>4 DEF SWaiterStep
<1>5. CASE \/ \E c \in Customers : SCustomerStep(c)
           \/ Remove \/ UNCHANGED sVars
  <2>1. UNCHANGED <<cookqueue, cook, kpc, wpc>>
        BY <1>5, SCustomerFrame, SIdleFrame
  <2> QED BY <1>2, <2>1 DEF Woken, Placed
<1> QED BY <1>3, <1>4, <1>5, SStepIs

(* By how much the duties of a waiter and the calls for it change.         *)
SMoved(x, q, f, v, c, p, a) ==
    /\ Len(queue[x])' = Len(queue[x]) + q
    /\ Food(x)' = Food(x) + f
    /\ waiter[x]' = waiter[x] + v
    /\ Cardinality(Calling(x)') = Cardinality(Calling(x)) + c
    /\ Cardinality(SPrepared(x)') = Cardinality(SPrepared(x)) + p
    /\ Awake(x)' = Awake(x) + a

(* A new duty needs a new call, and a used call takes a duty with it.      *)
LEMMA SBalance ==
    ASSUME STypes, SWaiterCalls, NEW x \in Waiters,
           NEW q \in Int, NEW f \in Int, NEW v \in Int, NEW c \in Int, NEW p \in Int,
           NEW a \in Int, SMoved(x, q, f, v, c, p, a), q + f <= v + c + p + a
    PROVE  Duties(x)' <= SCalls(x)'
<1>1. /\ Cardinality(Calling(x)) \in Nat /\ Cardinality(SPrepared(x)) \in Nat
      /\ Len(queue[x]) \in Nat /\ waiter[x] \in Nat /\ Food(x) \in Nat /\ Awake(x) \in Nat
      BY SFinite, Count, LenProperties DEF STypes, Food, Awake
<1>2. Len(queue[x]) + Food(x)
         <= waiter[x] + Cardinality(Calling(x)) + Cardinality(SPrepared(x)) + Awake(x)
      BY DEF SWaiterCalls, Duties, SCalls
<1>3. PICK l \in Nat, h \in Nat, m \in Nat, i \in Nat, r \in Nat, b \in Nat :
         /\ l = Len(queue[x]) /\ h = Food(x) /\ m = waiter[x]
         /\ i = Cardinality(Calling(x)) /\ r = Cardinality(SPrepared(x)) /\ b = Awake(x)
      BY <1>1
<1>4. Duties(x)' = (l + q) + (h + f)
      BY <1>3 DEF SMoved, Duties
<1>5. SCalls(x)' = (m + v) + (i + c) + (r + p) + (b + a)
      BY <1>3 DEF SMoved, SCalls
<1>6. l + h <= m + i + r + b
      BY <1>2, <1>3
<1>7. (l + q) + (h + f) <= (m + v) + (i + c) + (r + p) + (b + a)
      BY <1>6
<1> QED BY <1>4, <1>5, <1>7

(* For every new duty of a waiter there is a new call, and it takes a call *)
(* for one duty at most.                                                   *)
LEMMA SWaiterCallsStep ==
    STypes /\ SWaiterCalls /\ ~removed /\ [SNext]_sVars => SWaiterCalls'
<1> SUFFICES ASSUME STypes, SWaiterCalls, ~removed, [SNext]_sVars
             PROVE  SWaiterCalls'
    OBVIOUS
<1> USE DEF sKitchen, semaphores, sHall, sCooks
<1>1. \A x \in Waiters :
         /\ Cardinality(Calling(x)) \in Nat /\ Cardinality(SPrepared(x)) \in Nat
         /\ queue[x] \in Seq(Customers) /\ Len(queue[x]) \in Nat /\ waiter[x] \in Nat
         /\ Food(x) \in Nat /\ Awake(x) \in Nat /\ Duties(x) <= SCalls(x)
      BY SFinite, Count, LenProperties DEF STypes, SWaiterCalls, Food, Awake
<1>2. ASSUME NEW x \in Waiters,
             UNCHANGED <<queue[x], food_ready[x], waiter[x], Calling(x), SPrepared(x), wpc[x]>>
      PROVE  Duties(x)' <= SCalls(x)'
      BY <1>1, <1>2 DEF Duties, SCalls, Food, Awake
<1>3. ASSUME NEW k \in Cooks, SCookStep(k) PROVE SWaiterCalls'
  <2> USE DEF CookMoves
  <2>1. UNCHANGED <<queue, wpc, cpc, w>>
        BY <1>3, SCookFrame
  <2>2. \A x \in Waiters : Calling(x)' = Calling(x)
        BY <2>1 DEF Calling
  <2>3. PICK y \in Waiters : y = WaiterOf(k)
    <3>1. hand[k] = None \/ hand[k].waiter \in Waiters
          BY OrderIs DEF STypes
    <3>2. 0 \in Waiters
          BY RestaurantAssumption DEF RestaurantAssumption, Waiters
    <3> QED BY <3>1, <3>2 DEF WaiterOf
  <2>4. CASE SCookWakes(k) \/ SPrepareOrder(k)
    <3>1. UNCHANGED <<food_ready, waiter>>
          BY <2>4 DEF SCookWakes, SPrepareOrder
    <3>2. /\ \A l \in Cooks : l # k => kpc'[l] = kpc[l] /\ hand'[l] = hand[l]
          /\ kpc[k] \in {"idle", "woken"} /\ kpc'[k] \in {"woken", "cooking"}
          BY <2>4 DEF SCookWakes, SPrepareOrder, STypes
    <3>3. \A x \in Waiters : SPrepared(x)' = SPrepared(x)
          BY <3>2 DEF SPrepared, WaiterOf
    <3> QED BY <2>1, <2>2, <3>1, <3>3, <1>2 DEF SWaiterCalls
  <2>5. CASE SFinishOrder(k)
    <3>1. hand' = hand /\ waiter' = waiter
          BY <2>5 DEF SFinishOrder
    <3>2. /\ \A l \in Cooks : l # k => kpc'[l] = kpc[l]
          /\ kpc[k] = "cooking" /\ kpc'[k] \in {"prepared", "leaving"}
      <4>1. PICK s \in {"leaving", "prepared"} : kpc' = [kpc EXCEPT ![k] = s]
            BY <2>5, Zenon DEF SFinishOrder
      <4> QED BY <2>5, <4>1 DEF SFinishOrder, STypes
    <3>3. \A x \in Waiters : x # y => food_ready'[x] = food_ready[x]
          BY <2>3, <2>5 DEF SFinishOrder, STypes
    <3>4. \A x \in Waiters : x # y => SPrepared(x)' = SPrepared(x)
          BY <2>3, <3>1, <3>2 DEF SPrepared, WaiterOf
    <3>5. k \notin SPrepared(y) /\ SPrepared(y)' = SPrepared(y) \cup {k}
          BY <2>3, <3>1, <3>2 DEF SPrepared, WaiterOf
    <3>6. Cardinality(SPrepared(y)') = Cardinality(SPrepared(y)) + 1
          BY <3>5, SFinite, Count
    <3>7. Awake(y)' = Awake(y) /\ Food(y)' \in {0, 1}
          BY <2>1 DEF Awake, Food
    <3>8. SMoved(y, 0, Food(y)' - Food(y), 0, 0, 1, 0)
          BY <3>6, <3>7, <3>1, <2>1, <2>2, <1>1 DEF SMoved
    <3>9. PICK f \in Int : f = Food(y)' - Food(y) /\ f <= 1
          BY <3>7, <1>1
    <3>10. SMoved(y, 0, f, 0, 0, 1, 0)
          BY <3>8, <3>9
    <3>11. Duties(y)' <= SCalls(y)'
          BY <3>9, <3>10, SBalance
    <3> QED BY <2>1, <2>2, <3>1, <3>3, <3>4, <3>11, <1>2 DEF SWaiterCalls
  <2>6. CASE SCallWaiter(k)
    <3>1. food_ready' = food_ready /\ waiter' = [waiter EXCEPT ![y] = @ + 1]
          BY <2>3, <2>6 DEF SCallWaiter, Up
    <3>2. /\ \A l \in Cooks : l # k => kpc'[l] = kpc[l] /\ hand'[l] = hand[l]
          /\ kpc[k] \in {"prepared", "leaving"} /\ kpc'[k] \in {"idle", "gone"}
          BY <2>6 DEF SCallWaiter, STypes
    <3>3. waiter'[y] = waiter[y] + 1 /\ \A x \in Waiters : x # y => waiter'[x] = waiter[x]
          BY <3>1 DEF STypes
    <3>4. \A x \in Waiters : x # y => SPrepared(x)' = SPrepared(x)
          BY <2>3, <3>2 DEF SPrepared, WaiterOf
    <3>5. k \in SPrepared(y) /\ SPrepared(y)' = SPrepared(y) \ {k}
          BY <2>3, <3>2 DEF SPrepared, WaiterOf
    <3>6. Cardinality(SPrepared(y)') = Cardinality(SPrepared(y)) - 1
          BY <3>5, SFinite, Count
    <3>7. Awake(y)' = Awake(y) /\ Food(y)' = Food(y)
          BY <2>1, <3>1 DEF Awake, Food
    <3>8. SMoved(y, 0, 0, 1, 0, -1, 0)
          BY <3>3, <3>6, <3>7, <2>1, <2>2, <1>1 DEF SMoved
    <3>9. Duties(y)' <= SCalls(y)'
          BY <3>8, SBalance
    <3> QED BY <2>1, <2>2, <3>1, <3>3, <3>4, <3>9, <1>2 DEF SWaiterCalls
  <2> QED BY <1>3, <2>4, <2>5, <2>6 DEF SCookStep
<1>4. ASSUME NEW x \in Waiters, SWaiterStep(x) PROVE SWaiterCalls'
  <2> USE DEF WaiterMoves
  <2>1. UNCHANGED <<kpc, hand, cpc, w>>
        BY <1>4, SWaiterFrame
  <2>2. \A y \in Waiters : Calling(y)' = Calling(y) /\ SPrepared(y)' = SPrepared(y)
        BY <2>1 DEF Calling, SPrepared, WaiterOf
  <2>3. \A y \in Waiters : y # x => UNCHANGED <<queue[y], food_ready[y], waiter[y], wpc[y]>>
        BY <1>4 DEF SWaiterStep, SWaiterWakes, SFetchFood, SServeFood,
                    STakeOrder, TellCustomer, Tells, SPlaceOrder, SCallCook,
                    FindNothing, STypes
  <2>4. Duties(x)' <= SCalls(x)'
    <3>1. CASE SWaiterWakes(x)
      <4>1. /\ queue' = queue /\ food_ready' = food_ready /\ waiter'[x] = waiter[x] - 1
            /\ wpc[x] = "idle" /\ wpc'[x] = "woken"
            BY <3>1 DEF SWaiterWakes, Down, STypes
      <4>2. Food(x)' = Food(x) /\ Awake(x)' = Awake(x) + 1
            BY <4>1 DEF Food, Awake
      <4>3. SMoved(x, 0, 0, -1, 0, 0, 1)
            BY <4>1, <4>2, <2>2, <1>1 DEF SMoved
      <4> QED BY <4>3, SBalance
    <3>2. CASE SFetchFood(x)
      <4>1. /\ queue' = queue /\ waiter' = waiter /\ food_ready[x] # None
            /\ food_ready'[x] = None /\ wpc[x] = "woken" /\ wpc'[x] = "serving"
            BY <3>2 DEF SFetchFood, STypes
      <4>2. Food(x)' = Food(x) - 1 /\ Awake(x)' = Awake(x) - 1
            BY <4>1 DEF Food, Awake
      <4>3. SMoved(x, 0, -1, 0, 0, 0, -1)
            BY <4>1, <4>2, <2>2, <1>1 DEF SMoved
      <4> QED BY <4>3, SBalance
    <3>3. CASE STakeOrder(x)
      <4>1. /\ queue[x] # <<>> /\ queue'[x] = Tail(queue[x])
            /\ waiter' = waiter /\ food_ready' = food_ready
            /\ wpc[x] = "woken" /\ wpc'[x] = "noting"
            BY <3>3 DEF STakeOrder, STypes
      <4>2. Len(queue'[x]) = Len(queue[x]) - 1
            BY <4>1, <1>1, EntryTaken
      <4>3. Food(x)' = Food(x) /\ Awake(x)' = Awake(x) - 1
            BY <4>1 DEF Food, Awake
      <4>4. SMoved(x, -1, 0, 0, 0, 0, -1)
            BY <4>1, <4>2, <4>3, <2>2, <1>1 DEF SMoved
      <4> QED BY <4>4, SBalance
    <3>4. CASE FindNothing(x)
      <4>1. /\ queue' = queue /\ food_ready' = food_ready /\ waiter' = waiter
            /\ food_ready[x] = None /\ queue[x] = <<>>
            BY <3>4 DEF FindNothing, SNothingToServe
      <4>2. wpc'[x] \in {"gone", "idle"}
        <5>1. PICK s \in {"gone", "idle"} : wpc' = [wpc EXCEPT ![x] = s]
              BY <3>4, Zenon DEF FindNothing
        <5> QED BY <5>1 DEF STypes
      <4>3. Len(queue[x]) = 0
            BY <4>1
      <4>4. Food(x)' = 0 /\ Awake(x)' = 0
            BY <4>1, <4>2 DEF Food, Awake
      <4>5. /\ Len(queue'[x]) = 0 /\ waiter'[x] \in Nat
            /\ Cardinality(Calling(x)') \in Nat /\ Cardinality(SPrepared(x)') \in Nat
            BY <4>1, <4>3, <2>2, <1>1
      <4> QED BY <4>4, <4>5 DEF Duties, SCalls
    <3>5. CASE \/ SServeFood(x) \/ TellCustomer(x) \/ SPlaceOrder(x)
               \/ SCallCook(x)
      <4>1. UNCHANGED <<queue, food_ready, waiter>>
            BY <3>5 DEF SServeFood, TellCustomer, Tells, SPlaceOrder, SCallCook
      <4>2. wpc[x] # "woken" /\ wpc'[x] # "woken"
        <5>1. PICK s \in {"idle", "placing", "gone", "placed"} :
                 wpc[x] # "woken" /\ wpc' = [wpc EXCEPT ![x] = s]
              BY <3>5, Zenon DEF SServeFood, TellCustomer, SPlaceOrder,
                                 SCallCook
        <5> QED BY <5>1 DEF STypes
      <4>3. Food(x)' = Food(x) /\ Awake(x)' = Awake(x)
            BY <4>1, <4>2 DEF Food, Awake
      <4>4. SMoved(x, 0, 0, 0, 0, 0, 0)
            BY <4>1, <4>3, <2>2, <1>1 DEF SMoved
      <4> QED BY <4>4, SBalance
    <3> QED BY <1>4, <3>1, <3>2, <3>3, <3>4, <3>5 DEF SWaiterStep
  <2> QED BY <2>2, <2>3, <2>4, <1>2 DEF SWaiterCalls
<1>5. ASSUME NEW c \in Customers, SCustomerStep(c) PROVE SWaiterCalls'
  <2> USE DEF CustomerMoves
  <2>1. UNCHANGED <<kpc, hand, wpc, food_ready>>
        BY <1>5, SCustomerFrame
  <2>2. \A y \in Waiters : SPrepared(y)' = SPrepared(y)
        BY <2>1 DEF SPrepared, WaiterOf
  <2>3. CASE STakeTable(c)
    <3>1. PICK x \in Waiters : x = next_waiter
          BY DEF STypes
    <3>2. \A y \in Waiters : y # x => queue'[y] = queue[y] /\ Calling(y)' = Calling(y)
          BY <2>3, <3>1 DEF STakeTable, Calling, STypes
    <3>3. c \notin Calling(x) /\ Calling(x)' = Calling(x) \cup {c}
          BY <2>3, <3>1 DEF STakeTable, Calling, STypes
    <3>4. Cardinality(Calling(x)') = Cardinality(Calling(x)) + 1
          BY <3>3, SFinite, Count
    <3>5. waiter' = waiter /\ queue'[x] = Append(queue[x], c)
          BY <2>3, <3>1 DEF STakeTable, STypes
    <3>6. Len(queue'[x]) = Len(queue[x]) + 1
          BY <3>5, <1>1, EntryAdded
    <3>7. Duties(x)' <= SCalls(x)'
      <4>1. Food(x)' = Food(x) /\ Awake(x)' = Awake(x)
            BY <2>1 DEF Food, Awake
      <4>2. SMoved(x, 1, 0, 0, 1, 0, 0)
            BY <2>1, <2>2, <3>4, <3>5, <3>6, <4>1, <1>1 DEF SMoved
      <4> QED BY <4>2, SBalance
    <3> QED BY <2>1, <2>2, <3>2, <3>5, <3>7, <1>2 DEF SWaiterCalls
  <2>4. CASE SCallForWaiter(c)
    <3>1. PICK x \in Waiters : x = w[c]
          BY DEF STypes
    <3>2. \A y \in Waiters : y # x => waiter'[y] = waiter[y] /\ Calling(y)' = Calling(y)
          BY <2>4, <3>1 DEF SCallForWaiter, Calling, STypes
    <3>3. c \in Calling(x) /\ Calling(x)' = Calling(x) \ {c}
          BY <2>4, <3>1 DEF SCallForWaiter, Calling, STypes
    <3>4. Cardinality(Calling(x)') = Cardinality(Calling(x)) - 1
          BY <3>3, SFinite, Count
    <3>5. queue' = queue /\ waiter'[x] = waiter[x] + 1
          BY <2>4, <3>1 DEF SCallForWaiter, Up, STypes
    <3>6. Duties(x)' <= SCalls(x)'
      <4>1. Food(x)' = Food(x) /\ Awake(x)' = Awake(x)
            BY <2>1 DEF Food, Awake
      <4>2. SMoved(x, 0, 0, 1, -1, 0, 0)
            BY <2>1, <2>2, <3>4, <3>5, <4>1, <1>1 DEF SMoved
      <4> QED BY <4>2, SBalance
    <3> QED BY <2>1, <2>2, <3>2, <3>5, <3>6, <1>2 DEF SWaiterCalls
  <2>5. CASE \/ STurnAway(c) \/ OrderTaken(c) \/ NoteTime(c)
             \/ SGetFood(c) \/ SFinishEating(c)
    <3>1. UNCHANGED <<queue, waiter, w>>
          BY <2>5 DEF STurnAway, OrderTaken, NoteTime, SGetFood, IsTold,
                      SFinishEating
    <3>2. \A d \in Customers : cpc'[d] = "calling" <=> cpc[d] = "calling"
          BY <2>5 DEF STurnAway, OrderTaken, NoteTime, SGetFood, SFinishEating,
                      STypes
    <3>3. \A y \in Waiters : Calling(y)' = Calling(y)
          BY <3>1, <3>2 DEF Calling
    <3> QED BY <2>1, <2>2, <3>1, <3>3, <1>2 DEF SWaiterCalls
  <2> QED BY <1>5, <2>3, <2>4, <2>5 DEF SCustomerStep
<1>6. CASE Remove \/ UNCHANGED sVars
  <2>1. UNCHANGED <<queue, food_ready, waiter, cpc, w, kpc, hand, wpc>>
        BY <1>6, SIdleFrame
  <2> QED BY <1>2, <2>1 DEF Calling, SPrepared, WaiterOf, SWaiterCalls
<1> QED BY <1>3, <1>4, <1>5, <1>6, SStepIs

(* When the semaphores are removed nobody counts the tables or calls a     *)
(* customer any more.                                                      *)
LEMMA SFrozen ==
    STypes /\ SLimits /\ removed /\ [SNext]_sVars => SLimits' /\ removed'
<1> SUFFICES ASSUME STypes, SLimits, removed, [SNext]_sVars
             PROVE  SLimits' /\ removed'
    OBVIOUS
<1>1. CASE \E k \in Cooks : SCookStep(k)
      BY <1>1, SCookFrame DEF SLimits
<1>2. ASSUME NEW x \in Waiters, SWaiterStep(x) PROVE SLimits' /\ removed'
  <2>1. tables' = tables /\ removed' = removed
        BY <1>2, SWaiterFrame
  <2>2. customer' = customer
    <3>1. \/ customer' = customer
          \/ \E c : customer' = [customer EXCEPT ![c] = Up(@)]
          BY <1>2 DEF SWaiterStep, SWaiterWakes, SFetchFood, SServeFood,
                      STakeOrder, TellCustomer, Tells, SPlaceOrder, SCallCook,
                      FindNothing, semaphores
    <3> QED BY <3>1 DEF Up, STypes
  <2> QED BY <2>1, <2>2 DEF SLimits
<1>3. ASSUME NEW c \in Customers, SCustomerStep(c) PROVE SLimits' /\ removed'
  <2>1. removed' = removed
        BY <1>3, SCustomerFrame
  <2>2. tables' = tables
        BY <1>3 DEF SCustomerStep, STurnAway, STakeTable, SCallForWaiter,
                    OrderTaken, NoteTime, SGetFood, IsTold, SFinishEating, sHall
  <2>3. customer' = customer \/ customer' = [customer EXCEPT ![c] = Down(@)]
        BY <1>3 DEF SCustomerStep, STurnAway, STakeTable, SCallForWaiter,
                    OrderTaken, NoteTime, SGetFood, IsTold, SFinishEating,
                    semaphores
  <2>4. customer' = customer
        BY <2>3 DEF Down, STypes
  <2> QED BY <2>1, <2>2, <2>4 DEF SLimits
<1>4. CASE Remove \/ UNCHANGED sVars
  <2>1. removed'
        BY <1>4 DEF Remove, sVars, semaphores
  <2> QED BY <1>4, <2>1, SIdleFrame DEF SLimits
<1> QED BY <1>1, <1>2, <1>3, <1>4, SStepIs

(* The restaurant opens with nobody in it. *)
LEMMA SInvInit == SInit => SInv
<1> SUFFICES ASSUME SInit PROVE SInv
    OBVIOUS
<1> USE RestaurantAssumption DEF RestaurantAssumption
<1>1. STypes
  <2>1. 0 \in Waiters
        BY DEF Waiters
  <2>2. <<>> \in Seq(Customers) /\ <<>> \in Seq(Orders)
        BY EmptySeq
  <2>3. /\ queue \in [Waiters -> Seq(Customers)] /\ cookqueue \in Seq(Orders)
        /\ w \in [Customers -> Waiters] /\ next_waiter \in Waiters
        BY <2>1, <2>2 DEF SInit
  <2>4. /\ kpc \in [Cooks -> SCookSteps] /\ wpc \in [Waiters -> SWaiterSteps]
        /\ cpc \in [Customers -> SCustomerSteps]
        BY DEF SInit, SCookSteps, SWaiterSteps, SCustomerSteps
  <2> QED BY <2>3, <2>4 DEF SInit, STypes
<1>2. SHands
      BY DEF SInit, SHands, SWaiting
<1>3. /\ sTold = [c \in Customers |-> 3]
      /\ \A x \in Waiters : sNote[x] = None /\ tray[x] = None /\ queue[x] = <<>>
      /\ \A k \in Cooks : pan[k] = NoOrder
      BY DEF SInit, sTold, SWaiting, sNote, tray, pan
<1>4. SHall
  <2>1. \A c \in Customers : w[c] \in Waiters /\ sNote[w[c]] # c
        BY <1>1, <1>3 DEF STypes
  <2> QED BY <1>3, <2>1 DEF SHall, HallIn, QueuedIn, sPlaces
<1>5. SKitchen
      BY <1>3 DEF SInit, SKitchen, KitchenIn, sPlaces
<1>6. Cardinality({}) = 0 /\ Len(<<>>) = 0
      BY FS_EmptySet
<1>7. STables /\ tables \in 0..NumTables
  <2>1. SAtTable = {}
        BY DEF SInit, SAtTable
  <2> QED BY <1>6, <2>1 DEF SInit, STables
<1>8. CookCalls
  <2>1. Woken = {} /\ Placed = {}
        BY DEF SInit, Woken, Placed
  <2> QED BY <1>6, <2>1 DEF SInit, CookCalls
<1>9. SWaiterCalls
  <2> SUFFICES ASSUME NEW x \in Waiters PROVE Duties(x) <= SCalls(x)
      BY DEF SWaiterCalls
  <2>1. Calling(x) = {} /\ SPrepared(x) = {}
        BY DEF SInit, Calling, SPrepared
  <2>2. queue[x] = <<>> /\ food_ready[x] = None /\ waiter[x] = 0 /\ wpc[x] # "woken"
        BY DEF SInit
  <2>3. Food(x) = 0 /\ Awake(x) = 0
        BY <2>2 DEF Food, Awake
  <2> QED BY <1>6, <2>1, <2>2, <2>3 DEF Duties, SCalls
<1>10. customer \in [Customers -> 0..2]
       BY DEF SInit
<1> QED BY <1>1, <1>2, <1>4, <1>5, <1>7, <1>8, <1>9, <1>10 DEF SInv, SBooks, SLimits

(* A step that ends with the semaphores in place began with them.          *)
LEMMA SStillThere ==
    [SNext]_sVars /\ ~removed' => ~removed
BY SCookFrame, SWaiterFrame, SCustomerFrame, SStepIs
   DEF Remove, sVars, semaphores

(* SInv is inductive.                                                      *)
LEMMA SInvNext == SInv /\ [SNext]_sVars => SInv'
<1> SUFFICES ASSUME SInv, [SNext]_sVars PROVE SInv'
    OBVIOUS
<1>1. STypes /\ SLimits /\ STypes'
      BY STypesStep DEF SInv
<1>2. CASE removed
  <2>1. SLimits' /\ removed'
        BY <1>1, <1>2, SFrozen
  <2> QED BY <1>1, <2>1 DEF SInv
<1>3. CASE ~removed
  <2>1. SHands /\ SHall /\ SKitchen /\ STables /\ CookCalls /\ SWaiterCalls
        BY <1>3 DEF SInv, SBooks
  <2>2. SHands' /\ SHall' /\ SKitchen'
        BY <1>1, <1>3, <2>1, SHandsStep, SPlacesStep
  <2>3. STables' /\ tables' \in 0..NumTables
        BY <1>1, <1>3, <2>1, STablesStep DEF SLimits
  <2>4. CookCalls' /\ SWaiterCalls'
        BY <1>1, <1>3, <2>1, SCookCallsStep, SWaiterCallsStep
  <2>5. customer' \in [Customers -> 0..2]
    <3>1. ASSUME NEW c \in Customers PROVE customer'[c] \in 0..2
      <4>1. customer'[c] \in Nat
            BY <1>1 DEF STypes
      <4>2. \/ customer'[c] = 0 \/ customer'[c] + 1 \in 0..2 \/ customer'[c] + 0 \in 0..2
            BY <2>2 DEF SHands, Called
      <4> QED BY <4>1, <4>2
    <3> QED BY <1>1, <3>1 DEF STypes
  <2> QED BY <1>1, <2>2, <2>3, <2>4, <2>5 DEF SInv, SBooks, SLimits
<1> QED BY <1>2, <1>3

(* So it holds always, for any cooks, waiters, tables and customers.       *)
THEOREM StudentInvariance == SSpec => []SInv
BY SInvInit, SInvNext, PTL DEF SSpec

(* While there are semaphores there is a call for every order, so that no  *)
(* cook takes an order that is not there, and one for every duty of a      *)
(* waiter; and at all times no table is given twice and no customer is     *)
(* called more than twice.                                                 *)
THEOREM StudentCalls == SSpec => []CallsCoverDuties
<1>1. SInv => CallsCoverDuties
  <2> SUFFICES ASSUME SInv PROVE CallsCoverDuties
      OBVIOUS
  <2>1. STypes /\ SLimits
        BY DEF SInv
  <2>2. STypeOK
        BY <2>1 DEF STypes, SLimits, STypeOK, SCookSteps, SWaiterSteps,
                    SCustomerSteps
  <2>3. ASSUME ~removed
        PROVE  /\ Len(cookqueue) = cook + Cardinality(Woken) + Cardinality(Placed)
               /\ \A x \in Waiters : Duties(x) <= SCalls(x)
        BY <2>3 DEF SInv, SBooks, CookCalls, SWaiterCalls
  <2>4. \A x \in Waiters :
           /\ SCallsComing(x) = Cardinality(Calling(x)) + Cardinality(SPrepared(x))
           /\ Cardinality(Calling(x)) \in Nat /\ Cardinality(SPrepared(x)) \in Nat
           /\ waiter[x] \in Nat /\ Awake(x) \in Nat
    <3>1. \A x \in Waiters :
             SCallsComing(x) = Cardinality(Calling(x)) + Cardinality(SPrepared(x))
          BY DEF SCallsComing, Calling, SPrepared
    <3>2. \A x \in Waiters : /\ Cardinality(Calling(x)) \in Nat
                             /\ Cardinality(SPrepared(x)) \in Nat
          BY SFinite, Count
    <3> QED BY <2>1, <3>1, <3>2 DEF STypes, Awake
  <2>5. \A x \in Waiters : waiter[x] + SCallsComing(x) + Awake(x) = SCalls(x)
        BY <2>4 DEF SCalls
  <2>6. ASSUME ~removed
        PROVE  Len(cookqueue) = cook + Cardinality({k \in Cooks : kpc[k] = "woken"})
                                  + Cardinality({x \in Waiters : wpc[x] = "placed"})
        BY <2>3, <2>6 DEF Woken, Placed
  <2>7. ASSUME ~removed, NEW x \in Waiters
        PROVE  Len(queue[x]) + (IF food_ready[x] = None THEN 0 ELSE 1)
                  <= waiter[x] + SCallsComing(x) + (IF wpc[x] = "woken" THEN 1 ELSE 0)
        BY <2>3, <2>5, <2>7 DEF Duties, Food, Awake
  <2> QED BY <2>2, <2>6, <2>7 DEF CallsCoverDuties
<1> QED BY <1>1, StudentInvariance, PTL

(* What the table service is seen as. *)
SView ==
    /\ sStage = StageIn(sPlaces, cpc) /\ orders = OrdersIn(sPlaces)
    /\ sStove = StoveIn(sPlaces) /\ sReady = DoneIn(sPlaces)

(* The customers see the same as in the other restaurant.                  *)
LEMMA SViewHolds == STypes /\ SHands /\ SHall /\ SKitchen => SView
<1> SUFFICES ASSUME STypes, SHands, SHall, SKitchen PROVE SView
    OBVIOUS
<1>1. sStage = StageIn(sPlaces, cpc)
  <2> DEFINE seen(c) == IF sTold[c] = 0 THEN "seated"
                        ELSE IF sTold[c] \in {1, 2} THEN "ordered"
                        ELSE IF cpc[c] = "arriving" THEN "outside" ELSE cpc[c]
  <2>1. StageIn(sPlaces, cpc) = [c \in Customers |-> seen(c)]
        BY DEF StageIn, sPlaces
  <2> SUFFICES ASSUME NEW c \in Customers PROVE sStage[c] = seen(c)
      BY <2>1 DEF sStage
  <2>2. CASE SWaiting(c)
    <3>1. sTold[c] \in 0..2 /\ cpc[c] # "arriving"
          BY <2>2 DEF sTold, SHands, SWaiting
    <3>2. InHall(c) <=> sTold[c] = 0
      <4>1. w[c] \in Waiters /\ c # None
            BY Basics DEF STypes
      <4>2. InHall(c) <=> QueuedIn(sPlaces, c) \/ sNote[w[c]] = c
            BY <4>1 DEF InHall, QueuedIn, sPlaces, sNote
      <4>3. QueuedIn(sPlaces, c) \/ sNote[w[c]] = c => sTold[c] = 0
            BY <4>1 DEF SHall, HallIn, QueuedIn, sPlaces
      <4>4. sTold[c] = 0 => QueuedIn(sPlaces, c) \/ sNote[w[c]] = c
            BY DEF SHall, HallIn, sPlaces
      <4> QED BY <4>2, <4>3, <4>4
    <3>3. sStage[c] = IF InHall(c) THEN "seated" ELSE "ordered"
          BY <2>2, <3>1 DEF sStage, SWaiting
    <3> QED BY <3>1, <3>2, <3>3
  <2>3. CASE ~SWaiting(c)
    <3>1. sTold[c] = 3 /\ cpc[c] \in {"arriving", "eating", "gone"}
          BY <2>3 DEF sTold, STypes, SCustomerSteps, SWaiting
    <3>2. sStage[c] = IF cpc[c] = "arriving" THEN "outside" ELSE cpc[c]
          BY <2>3, <3>1 DEF sStage
    <3> QED BY <3>1, <3>2
  <2> QED BY <2>2, <2>3
<1>2. orders = OrdersIn(sPlaces)
      BY DEF orders, OrdersIn, sPlaces
<1>3. sStove = StoveIn(sPlaces)
  <2> SUFFICES ASSUME NEW k \in Cooks
               PROVE  (IF kpc[k] = "cooking" /\ hand[k] # None THEN hand[k].customer ELSE None)
                         = IF pan[k] = NoOrder THEN None ELSE pan[k].customer
      BY DEF sStove, StoveIn, sPlaces
  <2>1. kpc[k] = "cooking" => hand[k] \in Orders /\ hand[k] # NoOrder /\ hand[k] # None
        BY Basics, RestaurantAssumption DEF SHands, RestaurantAssumption
  <2> QED BY <2>1 DEF pan
<1>4. sReady = DoneIn(sPlaces)
  <2>1. \A c \in Customers : cpc[c] # "ordered"
        BY DEF STypes, SCustomerSteps
  <2>2. PlacesIn(sPlaces) /\ KitchenIn(sPlaces)
        BY SPlacesAre DEF SKitchen
  <2> QED BY <2>1, <2>2, <1>1, <1>2, <1>3, DoneIs DEF sReady, Range
<1> QED BY <1>1, <1>2, <1>3, <1>4 DEF SView

(* What a step shows to the customers is read off the places. *)
SLooks ==
    /\ PlacesIn(sPlaces) /\ PlacesIn(sPlaces') /\ HallIn(sPlaces)
    /\ KitchenIn(sPlaces) /\ KitchenIn(sPlaces') /\ SView /\ SView'

(* It can be, while there are semaphores.                                  *)
LEMMA SLooksHold == SInv /\ ~removed' /\ [SNext]_sVars => SLooks
<1> SUFFICES ASSUME SInv, ~removed', [SNext]_sVars PROVE SLooks
    OBVIOUS
<1>1. /\ STypes /\ SHands /\ SHall /\ SKitchen
      /\ STypes' /\ SHands' /\ SHall' /\ SKitchen'
      BY SInvNext, SStillThere DEF SInv, SBooks
<1>2. SView /\ SView' /\ PlacesIn(sPlaces) /\ PlacesIn(sPlaces)'
      BY <1>1, SViewHolds, SPlacesAre, PTL
<1> QED BY <1>1, <1>2 DEF SLooks, SHall, SKitchen

(* Steps that neither change the places nor where a customer is.           *)
LEMMA SNotSeen ==
    ASSUME SLooks, tables' = tables,
           \A c \in Customers : sTold[c] = 3 => cpc'[c] = cpc[c],
           SameIn(sPlaces, sPlaces')
           \/ \E c \in Customers, x \in Waiters : \/ IsAskedIn(sPlaces, sPlaces', c, x)
                                                  \/ IsFetchedIn(sPlaces, sPlaces', c, x)
                                                  \/ IsServedIn(sPlaces, sPlaces', c, x)
    PROVE  UNCHANGED SGuests!vars
<1>1. \A c \in Customers : sPlaces.told[c] = 3 => cpc'[c] = cpc[c]
      BY DEF sPlaces
<1>2. /\ StageIn(sPlaces', cpc') = StageIn(sPlaces, cpc)
      /\ OrdersIn(sPlaces') = OrdersIn(sPlaces)
      /\ StoveIn(sPlaces') = StoveIn(sPlaces) /\ DoneIn(sPlaces') = DoneIn(sPlaces)
  <2>1. PlacesIn(sPlaces) /\ KitchenIn(sPlaces) /\ KitchenIn(sPlaces')
        BY DEF SLooks
  <2> QED BY <1>1, <2>1, SeenNothing
<1> QED BY <1>2 DEF SLooks, SView, SGuests!vars

(* A cook starts with the first order, and what it has cooked is out of    *)
(* the kitchen, in the waiter's hands or lost.                             *)
LEMMA SCookRefines ==
    ASSUME STypes, SHands, CookCalls, SLooks, NEW k \in Cooks, SCookStep(k)
    PROVE  SGuests!Next \/ UNCHANGED SGuests!vars
<1>1. UNCHANGED <<tables, cpc>>
      BY SCookFrame
<1>2. CASE SameIn(sPlaces, sPlaces')
      BY <1>1, <1>2, SNotSeen
<1>3. CASE IsCookedIn(sPlaces, sPlaces', k)
  <2>1. /\ OrdersIn(sPlaces) # <<>> /\ StoveIn(sPlaces)[k] = None
        /\ StoveIn(sPlaces') = [StoveIn(sPlaces) EXCEPT ![k] = Head(OrdersIn(sPlaces))]
        /\ OrdersIn(sPlaces') = Tail(OrdersIn(sPlaces))
        /\ StageIn(sPlaces', cpc) = StageIn(sPlaces, cpc)
        /\ DoneIn(sPlaces') = DoneIn(sPlaces)
        BY <1>3, SeenCooked DEF SLooks
  <2>2. SGuests!StartCooking(k)
        BY <2>1, <1>1 DEF SLooks, SView, SGuests!StartCooking
  <2> QED BY <2>2 DEF SGuests!Next
<1>4. CASE IsReadyIn(sPlaces, sPlaces', k)
  <2>1. /\ StoveIn(sPlaces)[k] # None
        /\ StoveIn(sPlaces') = [StoveIn(sPlaces) EXCEPT ![k] = None]
        /\ DoneIn(sPlaces') = DoneIn(sPlaces) \cup {StoveIn(sPlaces)[k]}
        /\ StageIn(sPlaces', cpc) = StageIn(sPlaces, cpc)
        /\ OrdersIn(sPlaces') = OrdersIn(sPlaces)
        BY <1>4, SeenReady DEF SLooks
  <2>2. SGuests!FinishCooking(k)
        BY <2>1, <1>1 DEF SLooks, SView, SGuests!FinishCooking
  <2> QED BY <2>2 DEF SGuests!Next
<1> QED BY <1>2, <1>3, <1>4, SCookEffects

(* What the waiters do shows when an order is placed only.                 *)
LEMMA SWaiterRefines ==
    ASSUME STypes, SHands, SHall, SKitchen, ~removed, SLooks, NEW x \in Waiters,
           SWaiterStep(x)
    PROVE  SGuests!Next \/ UNCHANGED SGuests!vars
<1>1. UNCHANGED <<tables, cpc>>
      BY SWaiterFrame
<1>2. CASE SameIn(sPlaces, sPlaces')
           \/ \E c \in Customers : \/ IsAskedIn(sPlaces, sPlaces', c, x)
                                   \/ IsFetchedIn(sPlaces, sPlaces', c, x)
                                   \/ IsServedIn(sPlaces, sPlaces', c, x)
      BY <1>1, <1>2, SNotSeen
<1>3. ASSUME NEW c \in Customers, IsNotedIn(sPlaces, sPlaces', c, x)
      PROVE  SGuests!Next
  <2>1. /\ StageIn(sPlaces, cpc)[c] = "seated"
        /\ StageIn(sPlaces', cpc) = [StageIn(sPlaces, cpc) EXCEPT ![c] = "ordered"]
        /\ OrdersIn(sPlaces') = Append(OrdersIn(sPlaces), c)
        /\ StoveIn(sPlaces') = StoveIn(sPlaces) /\ DoneIn(sPlaces') = DoneIn(sPlaces)
        BY <1>3, SeenNoted DEF SLooks
  <2>2. SGuests!Order(c)
        BY <2>1, <1>1 DEF SLooks, SView, SGuests!Order, SGuests!Becomes
  <2> QED BY <2>2 DEF SGuests!Next
<1> QED BY <1>2, <1>3, SWaiterEffects

(* The steps of a customer are those of the table service that are about   *)
(* tables and eating, or calls that only the waiters hear.                 *)
LEMMA SCustomerRefines ==
    ASSUME STypes, SHands, tables \in 0..NumTables, ~removed, SLooks, NEW c \in Customers,
           SCustomerStep(c)
    PROVE  SGuests!Next \/ UNCHANGED SGuests!vars
<1> USE DEF CustomerMoves, sHall
<1>1. \A d \in Customers : d # c => cpc'[d] = cpc[d]
      BY DEF SCustomerStep, STurnAway, STakeTable, SCallForWaiter, OrderTaken,
             NoteTime, SGetFood, SFinishEating, STypes
<1>2. CASE SGetFood(c) /\ EatsIn(sPlaces, sPlaces', c)
  <2>1. cpc'[c] = "eating" /\ tables' = tables
        BY <1>2 DEF SGetFood, IsTold, STypes
  <2>2. /\ StageIn(sPlaces, cpc)[c] = "ordered"
        /\ StageIn(sPlaces', cpc') = [StageIn(sPlaces, cpc) EXCEPT ![c] = "eating"]
        /\ c \in DoneIn(sPlaces) /\ DoneIn(sPlaces') = DoneIn(sPlaces) \ {c}
        /\ OrdersIn(sPlaces') = OrdersIn(sPlaces) /\ StoveIn(sPlaces') = StoveIn(sPlaces)
        BY <1>1, <1>2, <2>1, SeenEating DEF SLooks
  <2>3. SGuests!Eat(c)
        BY <2>1, <2>2 DEF SLooks, SView, SGuests!Eat, SGuests!Becomes
  <2> QED BY <2>3 DEF SGuests!Next
<1>3. CASE (STurnAway(c) \/ SFinishEating(c)) /\ SameIn(sPlaces, sPlaces')
  <2>1. /\ cpc[c] \in {"arriving", "eating"} /\ cpc'[c] = "gone"
        /\ cpc[c] = "arriving" => tables' = tables
        /\ cpc[c] = "eating" => tables' = tables + 1
        BY <1>3 DEF STurnAway, SFinishEating, STypes
  <2>2. sPlaces.told[c] = 3
        BY <2>1 DEF sPlaces, sTold, SWaiting
  <2>3. /\ StageIn(sPlaces, cpc)[c] = IF cpc[c] = "arriving" THEN "outside" ELSE "eating"
        /\ StageIn(sPlaces', cpc') = [StageIn(sPlaces, cpc) EXCEPT ![c] = "gone"]
        /\ OrdersIn(sPlaces') = OrdersIn(sPlaces) /\ StoveIn(sPlaces') = StoveIn(sPlaces)
        /\ DoneIn(sPlaces') = DoneIn(sPlaces)
    <3>1. GoesIn(sPlaces, sPlaces', cpc, cpc', c)
          BY <1>1, <1>3, <2>1, <2>2 DEF GoesIn
    <3> QED BY ONLY <3>1, c \in Customers, SeenMoving
  <2>4. SGuests!TurnAway(c) \/ SGuests!Leave(c)
        BY <2>1, <2>3 DEF SLooks, SView, SGuests!TurnAway, SGuests!Leave,
                          SGuests!Becomes
  <2> QED BY <2>4 DEF SGuests!Next
<1>4. CASE STakeTable(c) /\ SitsIn(sPlaces, sPlaces', c, next_waiter)
  <2>1. /\ cpc[c] = "arriving" /\ next_waiter \in Waiters
        /\ tables > 0 /\ tables' = tables - 1
    <3>1. tables \in Nat
          OBVIOUS
    <3> QED BY <1>4, <3>1 DEF STakeTable, STypes
  <2>2. /\ StageIn(sPlaces, cpc)[c] = "outside"
        /\ StageIn(sPlaces', cpc') = [StageIn(sPlaces, cpc) EXCEPT ![c] = "seated"]
        /\ OrdersIn(sPlaces') = OrdersIn(sPlaces) /\ StoveIn(sPlaces') = StoveIn(sPlaces)
        /\ DoneIn(sPlaces') = DoneIn(sPlaces)
        BY <1>1, <1>4, <2>1, SeenSitting DEF SLooks
  <2>3. SGuests!Sit(c)
        BY <2>1, <2>2 DEF SLooks, SView, SGuests!Sit, SGuests!Becomes
  <2> QED BY <2>3 DEF SGuests!Next
<1>5. CASE (SCallForWaiter(c) \/ OrderTaken(c) \/ NoteTime(c))
           /\ SameIn(sPlaces, sPlaces')
  <2>1. cpc[c] \in {"calling", "ordering", "told"} /\ tables' = tables
        BY <1>5 DEF SCallForWaiter, OrderTaken, NoteTime, IsTold
  <2>2. sTold[c] # 3
    <3>1. SWaiting(c) /\ Called(c) \in 0..2
          BY <2>1 DEF SWaiting, SHands
    <3> QED BY <3>1 DEF sTold
  <2>3. \A d \in Customers : sTold[d] = 3 => cpc'[d] = cpc[d]
        BY <1>1, <2>2
  <2> QED BY <1>5, <2>1, <2>3, SNotSeen
<1> QED BY <1>2, <1>3, <1>4, <1>5, SCustomerEffects

(* Every step of the restaurant, as long as there are semaphores, is one   *)
(* of the table service or is not seen.                                    *)
LEMMA SStepRefines ==
    SInv /\ [SNext]_sVars
       => removed \/ SGuests!Next \/ UNCHANGED SGuests!vars
<1> SUFFICES ASSUME SInv, [SNext]_sVars, ~removed
             PROVE  SGuests!Next \/ UNCHANGED SGuests!vars
    OBVIOUS
<1>1. CASE Remove \/ UNCHANGED sVars
  <2>1. UNCHANGED <<tables, queue, cookqueue, kpc, hand, wpc, cno, cpc, w>>
        BY <1>1, SIdleFrame
  <2>2. \A c : (InHall(c)' <=> InHall(c))
                  /\ (SWaiting(c)' <=> SWaiting(c))
        BY <2>1 DEF InHall, SWaiting
  <2>3. /\ sStage' = sStage /\ orders' = orders
        /\ sStove' = sStove
        BY <2>1, <2>2 DEF sStage, orders, sStove
  <2>4. sReady' = sReady
        BY <2>3 DEF sReady
  <2> QED BY <2>1, <2>3, <2>4 DEF SGuests!vars
<1>2. CASE \/ \E k \in Cooks : SCookStep(k)
           \/ \E x \in Waiters : SWaiterStep(x)
           \/ \E c \in Customers : SCustomerStep(c)
  <2>1. ~removed'
        BY <1>2, SCookFrame, SWaiterFrame, SCustomerFrame
  <2>2. /\ STypes /\ SHands /\ SHall /\ SKitchen /\ CookCalls /\ tables \in 0..NumTables
        /\ SLooks
        BY <2>1, SLooksHold DEF SInv, SBooks, SLimits
  <2> QED BY <1>2, <2>2, SCookRefines, SWaiterRefines, SCustomerRefines
<1> QED BY <1>1, <1>2, SStepIs

(* The restaurant opens as the table service does. *)
LEMMA SInitRefines == SInit => SGuests!Init
<1> SUFFICES ASSUME SInit PROVE SGuests!Init
    OBVIOUS
<1>1. SView
      BY SInvInit, SViewHolds DEF SInv, SBooks, SInit
<1>2. sTold = [c \in Customers |-> 3] /\ \A k \in Cooks : pan[k] = NoOrder
      BY DEF SInit, sTold, SWaiting, pan
<1>3. sStage = [c \in Customers |-> "outside"]
      BY <1>1, <1>2 DEF SInit, SView, StageIn, sPlaces
<1>4. sStove = [k \in Cooks |-> None]
      BY <1>1, <1>2 DEF SView, StoveIn, sPlaces
<1>5. sReady = {}
      BY <1>1, <1>2 DEF SView, DoneIn, IsOutIn, sPlaces
<1>6. orders = <<>>
      BY DEF SInit, orders
<1> QED BY <1>3, <1>4, <1>5, <1>6 DEF SInit, SGuests!Init

(* The student's restaurant too serves each customer what was cooked for   *)
(* it, until one of the programs removes the semaphores.                   *)
THEOREM StudentServes == SSpec => ServesUntilRemoved
<1>1. SInv /\ [SNext]_sVars
         => [removed \/ SGuests!Next \/ UNCHANGED SGuests!vars]_sVars
      BY SStepRefines
<1> QED BY <1>1, SInitRefines, StudentInvariance, PTL
        DEF SSpec, ServesUntilRemoved

-----------------------------------------------------------------------------
(* Waiting in vain in the student's restaurant *)

(* A waiter who is still there when everything stands still has no duty,   *)
(* ...                                                                     *)
LEMMA SNoDutyLeft ==
    ASSUME STypes, SWaiterCalls, SHangs, ~removed, NEW x \in Waiters, wpc[x] # "gone"
    PROVE  queue[x] = <<>> /\ food_ready[x] = None
<1>1. wpc[x] = "idle" /\ waiter[x] = 0
      BY DEF SHangs, MayPass, STypes
<1>2. Calling(x) = {} /\ SPrepared(x) = {}
      BY DEF SHangs, Calling, SPrepared
<1>3. SCalls(x) = 0
  <2>1. Cardinality(Calling(x)) = 0 /\ Cardinality(SPrepared(x)) = 0
        BY <1>2, FS_EmptySet
  <2>2. Awake(x) = 0
        BY <1>1 DEF Awake
  <2> QED BY <1>1, <2>1, <2>2 DEF SCalls
<1>4. Len(queue[x]) \in Nat /\ queue[x] \in Seq(Customers) /\ Food(x) \in {0, 1}
      BY LenProperties DEF STypes, Food
<1>5. Len(queue[x]) = 0 /\ Food(x) = 0
  <2>1. Len(queue[x]) + Food(x) <= 0
        BY <1>3 DEF SWaiterCalls, Duties
  <2> QED BY <2>1, <1>4
<1>6. queue[x] = <<>>
      BY <1>4, <1>5, EmptySeq
<1> QED BY <1>5, <1>6 DEF Food

(* ... and there is no order for a cook who is still there.                *)
LEMMA SNoOrderLeft ==
    ASSUME STypes, CookCalls, SHangs, ~removed, NEW k \in Cooks, kpc[k] # "gone"
    PROVE  cookqueue = <<>>
<1>1. cook = 0
      BY DEF SHangs, MayPass, STypes
<1>2. Woken = {} /\ Placed = {}
      BY DEF SHangs, Woken, Placed
<1>3. Cardinality(Woken) = 0 /\ Cardinality(Placed) = 0
      BY <1>2, FS_EmptySet
<1>4. Len(cookqueue) = 0
      BY <1>1, <1>3 DEF CookCalls
<1> QED BY <1>4, EmptySeq DEF STypes

(* When the session hangs, a customer that waits has lost its food or its  *)
(* waiter: a waiter who is there has fetched all food and asked everybody, *)
(* and as some cook is there too (else the semaphores were removed), all   *)
(* orders are cooked.                                                      *)
THEOREM StudentHangIsExplained == SSpec => []WaitsInVainExplained
<1>1. SInv => WaitsInVainExplained
  <2> SUFFICES ASSUME SInv, SHangs, NEW c \in Customers, SWaiting(c),
                      wpc[w[c]] # "gone"
               PROVE  c \in lost
      BY DEF WaitsInVainExplained
  <2>1. ~removed
        BY DEF SHangs, MayPass, SWaiting
  <2>2. STypes /\ SHands /\ SHall /\ SKitchen /\ CookCalls /\ SWaiterCalls
        BY <2>1 DEF SInv, SBooks
  <2>3. PICK x \in Waiters : x = w[c]
        BY <2>2 DEF STypes
  <2>4. customer[c] = 0 /\ cpc[c] \in {"ordering", "hungry"}
    <3>1. customer[c] \in Nat /\ cpc[c] # "gone"
          BY <2>2 DEF STypes, SWaiting
    <3> QED BY <2>1, <3>1 DEF SHangs, MayPass
  <2>5. wpc[x] = "idle" /\ queue[x] = <<>> /\ food_ready[x] = None
        BY <2>1, <2>2, <2>3, SNoDutyLeft DEF SHangs
  <2>6. sNote[x] = None /\ tray[x] = None /\ c # None
        BY <2>5, Basics DEF sNote, tray
  <2>7. sTold[c] \in {0, 1}
    <3>1. Called(c) \in {0, 1}
          BY <2>4 DEF Called
    <3> QED BY <3>1 DEF sTold
  <2>8. sTold[c] # 0
    <3>1. ~QueuedIn(sPlaces, c)
          BY <2>3, <2>5 DEF QueuedIn, sPlaces
    <3> QED BY <2>2, <2>3, <2>6, <3>1 DEF SHall, HallIn, sPlaces
  <2>9. OnePlaceIn(sPlaces, c)
        BY <2>2, <2>7, <2>8 DEF SKitchen, KitchenIn, sPlaces
  <2>10. ~ReadyIn(sPlaces, c) /\ ~ServingIn(sPlaces, c)
         BY <2>3, <2>5, <2>6 DEF ReadyIn, ServingIn, sPlaces
  <2>11. ~OnStoveIn(sPlaces, c)
    <3>1. \A k \in Cooks : pan[k] = NoOrder
          BY DEF SHangs, pan
    <3> QED BY <3>1 DEF OnStoveIn, sPlaces
  <2>12. ~ToCookIn(sPlaces, c)
    <3>1. PICK k \in Cooks : kpc[k] # "gone"
          BY <2>1 DEF SHangs, AllGone
    <3>2. cookqueue = <<>>
          BY <2>1, <2>2, <3>1, SNoOrderLeft
    <3> QED BY <3>2 DEF ToCookIn, sPlaces
  <2> QED BY <2>9, <2>10, <2>11, <2>12 DEF OnePlaceIn, sPlaces
<1> QED BY <1>1, StudentInvariance, PTL
=============================================================================
