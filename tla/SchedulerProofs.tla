-------------------------- MODULE SchedulerProofs --------------------------
(***************************************************************************)
(* Proofs about CpuScheduler, for any number of processes, any quanta and  *)
(* any proc.txt.                                                           *)
(*                                                                         *)
(* First the heap, in the order of either program: the arrivals make one,  *)
(* by pushes or by sinking from the last parent on, and an event that is   *)
(* pushed or popped leaves one, with the others in it.  The loops that     *)
(* sift are recursive functions of the place; their equations and what     *)
(* they leave are proved by induction (NumberInduction).  Then the loop    *)
(* over the events: every process is in one place, and nobody waits for    *)
(* long.  Then the accounts: waiting, running and IO fill the time of a    *)
(* process, running and idling that of the CPU, so that the two programs,  *)
(* which count differently, count the same.  At last the order of events:  *)
(* what the student's program does is what the instructor's does, except   *)
(* that it may take the end of a burst before the arrivals of that time;   *)
(* so both print the same.                                                 *)
(***************************************************************************)
EXTENDS CpuScheduler, SequenceTheorems, FiniteSetTheorems, WellFoundedInduction,
        TLAPS

-----------------------------------------------------------------------------
(* Numbers *)

(* A set of numbers that is not empty has a least element.                 *)
LEMMA LeastNumber ==
    ASSUME NEW I, I \subseteq Nat, I # {}
    PROVE  \E a \in I : \A b \in I : a <= b
<1> DEFINE R == {p \in Nat \X Nat : p[1] < p[2]}
<1>1. IsWellFoundedOn(R, Nat)
      BY NatLessThanWellFounded DEF OpToRel
<1>2. PICK a \in I : \A b \in I : ~(<<b, a>> \in R)
  <2> HIDE DEF R
  <2> QED BY <1>1, WFMin
<1>3. ASSUME NEW b \in I PROVE a <= b
  <2>1. <<b, a>> \in R <=> b < a
        OBVIOUS
  <2> QED BY <1>2, <2>1
<1> QED BY <1>3

(* What holds of 0 and of k + 1 whenever of k holds of every number.       *)
LEMMA NumberInduction ==
    ASSUME NEW I, 0 \in I, \A k \in I \cap Nat : k + 1 \in I
    PROVE  Nat \subseteq I
<1> SUFFICES ASSUME Nat \ I # {} PROVE FALSE
    OBVIOUS
<1>1. PICK a \in Nat \ I : \A b \in Nat \ I : a <= b
      BY LeastNumber
<1>2. a - 1 \in Nat \cap I
      BY <1>1
<1> QED BY <1>1, <1>2

(* Where the parent of a place in the heap is.                             *)
LEMMA Halves ==
    \A i \in Nat : /\ i \div 2 \in Nat /\ 2 * (i \div 2) <= i /\ i <= 2 * (i \div 2) + 1
                   /\ i >= 2 => i \div 2 \in 1..i - 1
                   /\ (2 * i) \div 2 = i /\ (2 * i + 1) \div 2 = i
<1> SUFFICES ASSUME NEW i \in Nat
             PROVE  /\ i \div 2 \in Nat /\ 2 * (i \div 2) <= i /\ i <= 2 * (i \div 2) + 1
                    /\ i >= 2 => i \div 2 \in 1..i - 1
                    /\ (2 * i) \div 2 = i /\ (2 * i + 1) \div 2 = i
    OBVIOUS
<1>1. i = 2 * (i \div 2) + (i % 2) /\ i % 2 \in 0..1 /\ i \div 2 \in Nat
      OBVIOUS
<1>2. (2 * i) \div 2 = i /\ (2 * i + 1) \div 2 = i
      OBVIOUS
<1> QED BY <1>1, <1>2

-----------------------------------------------------------------------------
(* The order of events *)

Kinds == {"arrival", "io", "end", "timeout"}
Events == [time : Nat, p : Processes, type : Kinds]

(* Before orders the events of S one after the other. *)
Ordered(S) ==
    /\ \A a \in S : ~Before(a, a)
    /\ \A a, b \in S : a # b => Before(a, b) \/ Before(b, a)
    /\ \A a, b, c \in S : Before(a, b) /\ Before(b, c) => Before(a, c)

(* There is one event per process in S, and of all that are to end a time  *)
(* on the CPU there is one.                                                *)
Single(S) ==
    \A a, b \in S : a.p = b.p \/ (a.type \notin Joins /\ b.type \notin Joins) => a = b

(* The student's order is not transitive in general, as a timeout, a       *)
(* burst's end and an arrival at one time show; but of the first two only  *)
(* one is ever pending.                                                    *)
LEMMA EventsOrdered ==
    ASSUME version \in {"student", "instructor"}, NEW S, S \subseteq Events, Single(S)
    PROVE  Ordered(S)
<1>1. \A a \in S : /\ a.time \in Int /\ a.p \in Int /\ a.type \in Kinds
                   /\ rank[a.type] \in Int /\ (rank[a.type] = 1 <=> a.type \in Joins)
                   /\ (rank[a.type] = 2 <=> a.type = "end")
                   /\ (rank[a.type] = 3 <=> a.type = "timeout")
  <2> SUFFICES ASSUME NEW a \in S
               PROVE  /\ a.time \in Int /\ a.p \in Int /\ a.type \in Kinds
                      /\ rank[a.type] \in Int /\ (rank[a.type] = 1 <=> a.type \in Joins)
                      /\ (rank[a.type] = 2 <=> a.type = "end")
                      /\ (rank[a.type] = 3 <=> a.type = "timeout")
      OBVIOUS
  <2>1. a.time \in Nat /\ a.p \in Processes /\ a.type \in Kinds
        BY DEF Events
  <2>2. a.p \in Int
        BY <2>1, SchedulerAssumption DEF Processes, SchedulerAssumption
  <2>3. /\ rank["arrival"] = 1 /\ rank["io"] = 1 /\ rank["end"] = 2
        /\ rank["timeout"] = 3
        BY DEF rank
  <2> HIDE DEF rank
  <2> QED BY <2>1, <2>2, <2>3 DEF Kinds, Joins
<1>2. \A a \in S : ~Before(a, a)
      BY <1>1 DEF Before, Joins
<1>3. ASSUME NEW a \in S, NEW b \in S, a # b
      PROVE  Before(a, b) \/ Before(b, a)
  <2>1. a.p # b.p
        BY <1>3 DEF Single
  <2>2. a.p < b.p \/ b.p < a.p
        BY <1>1, <2>1
  <2>3. CASE version = "student"
        BY <1>1, <2>2, <2>3 DEF Before, Joins
  <2>4. CASE version = "instructor"
        BY <1>1, <2>2, <2>4 DEF Before
  <2> QED BY <2>3, <2>4
<1>4. ASSUME NEW a \in S, NEW b \in S, NEW c \in S, Before(a, b), Before(b, c)
      PROVE  Before(a, c)
  <2>1. /\ a.type \notin Joins /\ b.type \notin Joins => a = b
        /\ a.type \notin Joins /\ c.type \notin Joins => a = c
        /\ b.type \notin Joins /\ c.type \notin Joins => b = c
        BY DEF Single
  <2>2. a # b /\ b # c
        BY <1>2, <1>4
  <2>3. CASE version = "student"
    <3>1. a.time <= b.time /\ b.time <= c.time
          BY <1>1, <1>4 DEF Before
    <3>2. CASE a.time < c.time
          BY <3>2 DEF Before
    <3>3. CASE a.time = c.time
      <4>1. a.time = b.time /\ b.time = c.time
            BY <1>1, <3>1, <3>3
      <4>2. /\ IF a.type = "timeout" /\ b.type \in Joins THEN FALSE
               ELSE (a.type \in Joins /\ b.type = "timeout") \/ a.p < b.p
            /\ IF b.type = "timeout" /\ c.type \in Joins THEN FALSE
               ELSE (b.type \in Joins /\ c.type = "timeout") \/ b.p < c.p
            BY <1>1, <1>4, <2>3, <4>1 DEF Before
      <4>3. IF a.type = "timeout" /\ c.type \in Joins THEN FALSE
            ELSE (a.type \in Joins /\ c.type = "timeout") \/ a.p < c.p
            BY <1>1, <2>1, <2>2, <4>2 DEF Joins, Kinds
      <4> QED BY <2>3, <3>3, <4>3 DEF Before
    <3> QED BY <1>1, <3>1, <3>2, <3>3
  <2>4. CASE version = "instructor"
    <3> DEFINE x == rank[a.type]
               y == rank[b.type]
               z == rank[c.type]
    <3>1. /\ a.time < b.time \/ (a.time = b.time /\ (x < y \/ (x = y /\ a.p < b.p)))
          /\ b.time < c.time \/ (b.time = c.time /\ (y < z \/ (y = z /\ b.p < c.p)))
          BY <1>4, <2>4 DEF Before
    <3>2. x \in Int /\ y \in Int /\ z \in Int
          BY <1>1
    <3> HIDE DEF x, y, z
    <3>3. a.time < c.time \/ (a.time = c.time /\ (x < z \/ (x = z /\ a.p < c.p)))
          BY <1>1, <3>1, <3>2
    <3> QED BY <2>4, <3>3 DEF Before, x, z
  <2> QED BY <2>3, <2>4
<1> QED BY <1>2, <1>3, <1>4 DEF Ordered

(* Of two events that are ordered one is before the other.                 *)
LEMMA OneBefore ==
    ASSUME NEW S, Ordered(S), NEW a \in S, NEW b \in S, a # b, ~Before(a, b)
    PROVE  Before(b, a)
BY DEF Ordered

-----------------------------------------------------------------------------
(* Rising and sinking *)

(* The recursive definitions of Rise and Sink have solutions.              *)
Climb(f, H, e, D) ==
    f = [i \in D |->
            IF i = 1 \/ ~Before(e, H[i \div 2]) THEN [H EXCEPT ![i] = e]
            ELSE [f[i \div 2] EXCEPT ![i] = H[i \div 2]]]

LEMMA ClimbExists ==
    ASSUME NEW H, NEW e
    PROVE  \A k \in Nat : \E f : Climb(f, H, e, 1..k)
<1> DEFINE I == {k \in Nat : \E f : Climb(f, H, e, 1..k)}
<1>1. 0 \in I
  <2> DEFINE g == [i \in 1..0 |->
                      IF i = 1 \/ ~Before(e, H[i \div 2]) THEN [H EXCEPT ![i] = e]
                      ELSE H]
  <2>1. 1..0 = {}
        OBVIOUS
  <2>2. Climb(g, H, e, 1..0)
        BY <2>1 DEF Climb
  <2> QED BY <2>2
<1>2. ASSUME NEW k \in I \cap Nat PROVE k + 1 \in I
  <2>1. PICK g : Climb(g, H, e, 1..k)
        OBVIOUS
  <2> DEFINE new == IF k + 1 = 1 \/ ~Before(e, H[(k + 1) \div 2])
                    THEN [H EXCEPT ![k + 1] = e]
                    ELSE [g[(k + 1) \div 2] EXCEPT ![k + 1] = H[(k + 1) \div 2]]
  <2>2. PICK h : h = [i \in 1..k + 1 |-> IF i = k + 1 THEN new ELSE g[i]]
        OBVIOUS
  <2>3. ASSUME NEW i \in 1..k + 1
        PROVE  h[i] = IF i = 1 \/ ~Before(e, H[i \div 2]) THEN [H EXCEPT ![i] = e]
                      ELSE [h[i \div 2] EXCEPT ![i] = H[i \div 2]]
    <3>0. i \in Nat /\ (i # 1 => i >= 2)
          OBVIOUS
    <3>1. PICK d : d = i \div 2 /\ (i # 1 => d \in 1..i - 1)
          BY <3>0, Halves
    <3>2. i # 1 => d \in 1..k + 1 /\ d # k + 1
          BY <3>1
    <3>3. i # 1 => h[d] = g[d]
          BY <2>2, <3>2
    <3>4. CASE i = k + 1
      <4>1. h[i] = IF i = 1 \/ ~Before(e, H[d]) THEN [H EXCEPT ![i] = e]
                   ELSE [g[d] EXCEPT ![i] = H[d]]
            BY <2>2, <3>1, <3>4
      <4> QED BY <3>1, <3>3, <4>1
    <3>5. CASE i # k + 1
      <4>1. i \in 1..k
            BY <3>5
      <4>2. g[i] = IF i = 1 \/ ~Before(e, H[d]) THEN [H EXCEPT ![i] = e]
                   ELSE [g[d] EXCEPT ![i] = H[d]]
            BY <2>1, <3>1, <4>1 DEF Climb
      <4>3. h[i] = g[i]
            BY <2>2, <3>5
      <4> QED BY <3>1, <3>3, <4>2, <4>3
    <3> QED BY <3>4, <3>5
  <2>4. DOMAIN h = 1..k + 1 /\ h = [i \in 1..k + 1 |-> h[i]]
        BY <2>2
  <2>5. Climb(h, H, e, 1..k + 1)
        BY <2>3, <2>4 DEF Climb
  <2> QED BY <2>5
<1> HIDE DEF I
<1>3. Nat \subseteq I
      BY <1>1, <1>2, NumberInduction
<1> QED BY <1>3 DEF I

(* R is what becomes of H, whose last place is k, when e rises from the    *)
(* hole at i: the places up to i then hold e and what was before the hole. *)
Rose(R, H, e, k, i) ==
    /\ DOMAIN R = 1..k /\ R = [j \in 1..k |-> R[j]]
    /\ \A j \in i + 1..k : R[j] = H[j]
    /\ i < k => Before(R[i], H[i])
    /\ \A j \in 2..k : j < k \/ j = i => Before(R[j \div 2], R[j])
    /\ \A j \in 1..i : R[j] = e \/ \E l \in 1..i - 1 : R[j] = H[l]
    /\ \E j \in 1..i : R[j] = e
    /\ \A l \in 1..i - 1 : \E j \in 1..i : R[j] = H[l]
    /\ \A j, l \in 1..i : R[j] = R[l] => j = l

(* What is given: a heap but for its last place, and an event that may     *)
(* rise from the hole at i.                                                *)
Rising(H, e, k, i) ==
    /\ k \in Nat /\ i \in 1..k
    /\ DOMAIN H = 1..k
    /\ Ordered({H[j] : j \in 1..k} \cup {e})
    /\ \A j \in 1..k - 1 : H[j] # e
    /\ \A j, l \in 1..k - 1 : H[j] = H[l] => j = l
    /\ \A j \in 2..k - 1 : Before(H[j \div 2], H[j])
    /\ i < k => Before(e, H[i])

LEMMA RiseStops ==
    ASSUME NEW H, NEW e, NEW k, NEW i, Rising(H, e, k, i),
           i = 1 \/ ~Before(e, H[i \div 2])
    PROVE  Rose([H EXCEPT ![i] = e], H, e, k, i)
<1>0. PICK R : R = [H EXCEPT ![i] = e]
      OBVIOUS
<1>1. /\ k \in Nat /\ i \in 1..k /\ DOMAIN H = 1..k
      BY DEF Rising
<1>2. /\ DOMAIN R = 1..k /\ R[i] = e /\ \A j \in 1..k : j # i => R[j] = H[j]
      /\ R = [j \in 1..k |-> R[j]]
      BY <1>0, <1>1
<1>3. \A j \in i + 1..k : R[j] = H[j]
      BY <1>1, <1>2
<1>4. i < k => Before(R[i], H[i])
      BY <1>2 DEF Rising
<1>5. ASSUME NEW j \in 2..k, j < k \/ j = i
      PROVE  Before(R[j \div 2], R[j])
  <2>1. PICK d \in 1..j - 1 : d = j \div 2
        BY <1>1, Halves
  <2>2. d \in 1..k /\ j \in 1..k /\ d # j /\ d \in 1..k - 1
        BY <1>1, <2>1
  <2>3. CASE j = i
    <3>1. ~Before(e, H[d]) /\ H[d] # e /\ H[d] \in {H[l] : l \in 1..k} \cup {e}
          BY <2>1, <2>2, <2>3 DEF Rising
    <3>2. Before(H[d], e)
          BY <3>1, OneBefore DEF Rising
    <3> QED BY <1>2, <2>1, <2>2, <2>3, <3>2
  <2>4. CASE j # i
    <3>1. j \in 2..k - 1
          BY <1>1, <1>5, <2>4
    <3>2. Before(H[d], H[j])
          BY <2>1, <3>1 DEF Rising
    <3>3. CASE d = i
      <4>1. Before(e, H[i])
            BY <1>1, <2>2, <3>1, <3>3 DEF Rising
      <4>2. Before(e, H[j])
            BY <1>1, <2>2, <3>2, <3>3, <4>1 DEF Rising, Ordered
      <4> QED BY <1>2, <2>1, <2>2, <2>4, <3>3, <4>2
    <3>4. CASE d # i
          BY <1>2, <2>1, <2>2, <2>4, <3>2, <3>4
    <3> QED BY <3>3, <3>4
  <2> QED BY <2>3, <2>4
<1>6. \A j \in 1..i : R[j] = e \/ \E l \in 1..i - 1 : R[j] = H[l]
  <2>1. \A j \in 1..i : j # i => j \in 1..i - 1 /\ j \in 1..k
        BY <1>1
  <2> QED BY <1>2, <2>1
<1>7. /\ \E j \in 1..i : R[j] = e
      /\ \A l \in 1..i - 1 : \E j \in 1..i : R[j] = H[l]
  <2>1. i \in 1..i /\ \A l \in 1..i - 1 : l \in 1..i /\ l \in 1..k /\ l # i
        BY <1>1
  <2> QED BY <1>2, <2>1
<1>8. ASSUME NEW j \in 1..i, NEW l \in 1..i, R[j] = R[l]
      PROVE  j = l
  <2>1. \A x \in 1..i : x # i => x \in 1..k - 1 /\ x \in 1..k
        BY <1>1
  <2>2. \A x \in 1..i : x # i => R[x] = H[x] /\ H[x] # e
        BY <1>2, <2>1 DEF Rising
  <2>3. j # i /\ l # i => j = l
        BY <1>8, <2>1, <2>2 DEF Rising
  <2> QED BY <1>2, <1>8, <2>2, <2>3
<1>9. Rose(R, H, e, k, i)
      BY <1>2, <1>3, <1>4, <1>5, <1>6, <1>7, <1>8 DEF Rose
<1> QED BY <1>0, <1>9

LEMMA RiseGoesOn ==
    ASSUME NEW H, NEW e, NEW k, NEW i, NEW m, NEW P, Rising(H, e, k, i), i # 1,
           m = i \div 2, Before(e, H[m]), Rose(P, H, e, k, m)
    PROVE  Rose([P EXCEPT ![i] = H[m]], H, e, k, i)
<1>0. PICK R : R = [P EXCEPT ![i] = H[m]]
      OBVIOUS
<1>1. /\ k \in Nat /\ i \in 1..k /\ m \in 1..i - 1 /\ m < k /\ m \in 1..k
      /\ m \in 1..k - 1 /\ i \in 2..k
  <2>1. k \in Nat /\ i \in 1..k /\ i >= 2 /\ i \in Nat
        BY DEF Rising
  <2>2. m \in 1..i - 1
        BY <2>1, Halves
  <2> QED BY <2>1, <2>2
<1>2. /\ DOMAIN P = 1..k /\ \A j \in m + 1..k : P[j] = H[j]
      /\ Before(P[m], H[m])
      /\ \A j \in 2..k : j < k \/ j = m => Before(P[j \div 2], P[j])
      /\ \A j \in 1..m : P[j] = e \/ \E l \in 1..m - 1 : P[j] = H[l]
      /\ \E j \in 1..m : P[j] = e
      /\ \A l \in 1..m - 1 : \E j \in 1..m : P[j] = H[l]
      /\ \A j, l \in 1..m : P[j] = P[l] => j = l
      BY <1>1 DEF Rose
<1>3. /\ DOMAIN R = 1..k /\ R[i] = H[m] /\ \A j \in 1..k : j # i => R[j] = P[j]
      BY <1>0, <1>1, <1>2
<1>3a. R = [j \in 1..k |-> R[j]]
       BY <1>0, <1>2
<1>4. \A j \in i + 1..k : R[j] = H[j]
  <2>1. \A j \in i + 1..k : j \in m + 1..k /\ j \in 1..k /\ j # i
        BY <1>1
  <2> QED BY <1>2, <1>3, <2>1
<1>5. i < k => Before(R[i], H[i])
  <2>1. i < k => i \in 2..k - 1
        BY <1>1
  <2> QED BY <1>3, <2>1 DEF Rising
<1>6. ASSUME NEW j \in 2..k, j < k \/ j = i
      PROVE  Before(R[j \div 2], R[j])
  <2>1. PICK d \in 1..j - 1 : d = j \div 2
        BY <1>1, Halves
  <2>2. d \in 1..k /\ j \in 1..k /\ d # j /\ d \in 1..k - 1
        BY <1>1, <2>1
  <2>3. CASE j = i
        BY <1>1, <1>2, <1>3, <2>1, <2>2, <2>3
  <2>4. CASE j # i
    <3>1. j \in 2..k - 1 /\ j < k
          BY <1>1, <1>6, <2>4
    <3>2. CASE d = i
      <4>1. j \in i + 1..k
            BY <2>1, <2>2, <3>2
      <4>2. Before(H[i], H[j]) /\ Before(H[m], H[i])
        <5>1. i \in 2..k - 1
              BY <1>1, <2>2, <3>2
        <5> QED BY <2>1, <3>1, <3>2, <5>1 DEF Rising
      <4>3. Before(H[m], H[j])
            BY <1>1, <2>2, <4>2 DEF Rising, Ordered
      <4> QED BY <1>3, <1>4, <2>1, <3>2, <4>1, <4>3
    <3>3. CASE d # i
          BY <1>2, <1>3, <2>1, <2>2, <2>4, <3>1, <3>3
    <3> QED BY <3>2, <3>3
  <2> QED BY <2>3, <2>4
<1>7. /\ \A j \in 1..m : j \in 1..k /\ j # i /\ j \in 1..i /\ R[j] = P[j]
      /\ \A j \in m + 1..i - 1 : j \in 1..k /\ j # i /\ j \in 1..i /\ R[j] = H[j]
      /\ \A j \in 1..i : j \in 1..m \/ j \in m + 1..i - 1 \/ j = i
  <2>1. /\ \A j \in 1..m : j \in 1..k /\ j # i /\ j \in 1..i
        /\ \A j \in m + 1..i - 1 : j \in 1..k /\ j # i /\ j \in 1..i /\ j \in m + 1..k
        /\ \A j \in 1..i : j \in 1..m \/ j \in m + 1..i - 1 \/ j = i
        BY <1>1
  <2> QED BY <1>2, <1>3, <2>1
<1>8. /\ \A l \in 1..m - 1 : l \in 1..i - 1 /\ l \in 1..k - 1 /\ l # m
      /\ \A l \in m + 1..i - 1 : l \in 1..i - 1 /\ l \in 1..k - 1 /\ l # m
      /\ m \in 1..i - 1
      /\ \A l \in 1..i - 1 : l \in 1..m - 1 \/ l \in m + 1..i - 1 \/ l = m
      BY <1>1
<1>9. \A j \in 1..i : R[j] = e \/ \E l \in 1..i - 1 : R[j] = H[l]
  <2> SUFFICES ASSUME NEW j \in 1..i PROVE R[j] = e \/ \E l \in 1..i - 1 : R[j] = H[l]
      OBVIOUS
  <2>1. CASE j \in 1..m
        BY <1>2, <1>7, <1>8, <2>1
  <2>2. CASE j \in m + 1..i - 1
        BY <1>7, <1>8, <2>2
  <2>3. CASE j = i
        BY <1>3, <1>8, <2>3
  <2> QED BY <1>7, <2>1, <2>2, <2>3
<1>10. \E j \in 1..i : R[j] = e
       BY <1>2, <1>7
<1>11. ASSUME NEW l \in 1..i - 1 PROVE \E j \in 1..i : R[j] = H[l]
  <2>1. CASE l \in 1..m - 1
        BY <1>2, <1>7, <2>1
  <2>2. CASE l \in m + 1..i - 1
        BY <1>7, <2>2
  <2>3. CASE l = m
    <3>1. i \in 1..i
          BY <1>1
    <3> QED BY <1>3, <2>3, <3>1
  <2> QED BY <1>8, <2>1, <2>2, <2>3
<1>12. ASSUME NEW j \in 1..i, NEW l \in 1..i, R[j] = R[l]
       PROVE  j = l
  <2>0. /\ \A x \in 1..k - 1 : H[x] # e
        /\ \A x, y \in 1..k - 1 : H[x] = H[y] => x = y
        BY DEF Rising
  <2>1. \A x \in 1..m : R[x] # H[m] /\ \A y \in m + 1..i - 1 : R[x] # R[y]
    <3> SUFFICES ASSUME NEW x \in 1..m
                 PROVE  P[x] # H[m] /\ \A y \in m + 1..i - 1 : P[x] # H[y]
        BY <1>7
    <3>1. CASE P[x] = e
          BY <1>1, <1>8, <2>0, <3>1
    <3>2. ASSUME NEW z \in 1..m - 1, P[x] = H[z]
          PROVE  P[x] # H[m] /\ \A y \in m + 1..i - 1 : P[x] # H[y]
      <4>1. \A y \in m + 1..i - 1 : z # y
            BY <1>1
      <4> QED BY <1>1, <1>8, <2>0, <3>2, <4>1
    <3> QED BY <1>2, <3>1, <3>2
  <2>2. \A x \in m + 1..i - 1 : R[x] # H[m]
        BY <1>1, <1>7, <1>8, <2>0
  <2>3. \A x, y \in m + 1..i - 1 : R[x] = R[y] => x = y
        BY <1>7, <1>8, <2>0
  <2>4. \A x, y \in 1..m : R[x] = R[y] => x = y
        BY <1>2, <1>7
  <2> QED BY <1>3, <1>7, <1>12, <2>1, <2>2, <2>3, <2>4
<1>13. Rose(R, H, e, k, i)
       BY <1>3, <1>3a, <1>4, <1>5, <1>6, <1>9, <1>10, <1>11, <1>12 DEF Rose
<1> QED BY <1>0, <1>13

LEMMA Risen ==
    ASSUME NEW H, NEW e, NEW k, Rising(H, e, k, k)
    PROVE  Rose(Rise(H, k, e), H, e, k, k)
<1>0. k \in Nat /\ k >= 1 /\ DOMAIN H = 1..k
      BY DEF Rising
<1> DEFINE f == CHOOSE g : Climb(g, H, e, DOMAIN H)
<1>1. Rise(H, k, e) = f[k]
      BY DEF Rise, Climb
<1>2. Climb(f, H, e, 1..k)
      BY <1>0, ClimbExists
<1> HIDE DEF f
<1> DEFINE I == {c \in Nat : \A i \in 1..k : i <= c /\ Rising(H, e, k, i)
                                             => Rose(f[i], H, e, k, i)}
<1>3. 0 \in I
      OBVIOUS
<1>4. ASSUME NEW c \in I \cap Nat PROVE c + 1 \in I
  <2> SUFFICES ASSUME NEW i \in 1..k, i <= c + 1, Rising(H, e, k, i)
               PROVE  Rose(f[i], H, e, k, i)
      OBVIOUS
  <2>1. f[i] = IF i = 1 \/ ~Before(e, H[i \div 2]) THEN [H EXCEPT ![i] = e]
               ELSE [f[i \div 2] EXCEPT ![i] = H[i \div 2]]
        BY <1>2 DEF Climb
  <2>2. CASE i = 1 \/ ~Before(e, H[i \div 2])
    <3>1. f[i] = [H EXCEPT ![i] = e]
          BY <2>1, <2>2
    <3>2. Rose([H EXCEPT ![i] = e], H, e, k, i)
          BY <2>2, RiseStops
    <3> QED BY <3>1, <3>2
  <2>3. CASE ~(i = 1 \/ ~Before(e, H[i \div 2]))
    <3>1. PICK m : m = i \div 2
          OBVIOUS
    <3>2. m \in 1..i - 1
      <4>1. i \in Nat /\ i >= 2
            BY <1>0, <2>3
      <4> QED BY <3>1, <4>1, Halves
    <3>3. m \in 1..k /\ m <= c
          BY <1>0, <3>2
    <3>4. Rising(H, e, k, m)
          BY <2>3, <3>1, <3>3 DEF Rising
    <3>5. Rose(f[m], H, e, k, m)
          BY <1>4, <3>3, <3>4
    <3>6. Rose([f[m] EXCEPT ![i] = H[m]], H, e, k, i)
          BY <2>3, <3>1, <3>5, RiseGoesOn
    <3>7. f[i] = [f[m] EXCEPT ![i] = H[m]]
          BY <2>1, <2>3, <3>1
    <3> QED BY <3>6, <3>7
  <2> QED BY <2>2, <2>3
<1>5. Nat \subseteq I
  <2> HIDE DEF I
  <2> QED BY <1>3, <1>4, NumberInduction
<1>6. k \in I /\ k \in 1..k /\ k <= k
      BY <1>0, <1>5
<1> QED BY <1>1, <1>6

(* Which of a hole with e in it and its children comes first. *)
At(H, e, i, j) == IF i = j THEN e ELSE H[j]
Earlier(H, e, i, j, c) ==
    IF c \in DOMAIN H /\ Before(H[c], At(H, e, i, j)) THEN c ELSE j
Smallest(H, e, i) == Earlier(H, e, i, Earlier(H, e, i, i, 2 * i), 2 * i + 1)

Descend(f, H, e, D) ==
    f = [i \in D |->
            IF Smallest(H, e, i) = i THEN [H EXCEPT ![i] = e]
            ELSE [f[Smallest(H, e, i)] EXCEPT ![i] = H[Smallest(H, e, i)]]]

LEMMA SmallestBelow ==
    ASSUME NEW H, NEW e, NEW k \in Nat, DOMAIN H = 1..k, NEW i \in 1..k
    PROVE  /\ Smallest(H, e, i) \in {i, 2 * i, 2 * i + 1} /\ Smallest(H, e, i) \in 1..k
           /\ Smallest(H, e, i) # i => Smallest(H, e, i) \in i + 1..k
BY DEF Smallest, Earlier

LEMMA DescendExists ==
    ASSUME NEW H, NEW e, NEW k \in Nat, DOMAIN H = 1..k
    PROVE  \E f : Descend(f, H, e, 1..k)
<1> DEFINE Low(c) == {i \in 1..k : i + c > k}
           I == {c \in Nat : \E f : Descend(f, H, e, Low(c))}
<1>1. 0 \in I
  <2> DEFINE g == [i \in Low(0) |-> H]
  <2>1. Low(0) = {}
        OBVIOUS
  <2>2. Descend(g, H, e, Low(0))
        BY <2>1 DEF Descend
  <2> QED BY <2>2
<1>2. ASSUME NEW c \in I \cap Nat PROVE c + 1 \in I
  <2>1. PICK g : Descend(g, H, e, Low(c))
        OBVIOUS
  <2> DEFINE new(i) == IF Smallest(H, e, i) = i THEN [H EXCEPT ![i] = e]
                       ELSE [g[Smallest(H, e, i)] EXCEPT ![i] = H[Smallest(H, e, i)]]
  <2>2. PICK h : h = [i \in Low(c + 1) |-> IF i \in Low(c) THEN g[i] ELSE new(i)]
        OBVIOUS
  <2>3. ASSUME NEW i \in Low(c + 1)
        PROVE  h[i] = IF Smallest(H, e, i) = i THEN [H EXCEPT ![i] = e]
                      ELSE [h[Smallest(H, e, i)] EXCEPT ![i] = H[Smallest(H, e, i)]]
    <3>1. PICK s : s = Smallest(H, e, i) /\ (s # i => s \in i + 1..k)
          BY SmallestBelow
    <3>2. s # i => s \in Low(c) /\ s \in Low(c + 1)
          BY <3>1
    <3>3. s # i => h[s] = g[s]
          BY <2>2, <3>2
    <3>4. CASE i \in Low(c)
      <4>1. g[i] = new(i)
            BY <2>1, <3>4 DEF Descend
      <4>2. h[i] = IF s = i THEN [H EXCEPT ![i] = e] ELSE [g[s] EXCEPT ![i] = H[s]]
            BY <2>2, <3>1, <3>4, <4>1
      <4> QED BY <3>1, <3>3, <4>2
    <3>5. CASE i \notin Low(c)
      <4>1. h[i] = IF s = i THEN [H EXCEPT ![i] = e] ELSE [g[s] EXCEPT ![i] = H[s]]
            BY <2>2, <3>1, <3>5
      <4> QED BY <3>1, <3>3, <4>1
    <3> QED BY <3>4, <3>5
  <2>4. DOMAIN h = Low(c + 1) /\ h = [i \in Low(c + 1) |-> h[i]]
        BY <2>2
  <2>5. Descend(h, H, e, Low(c + 1))
    <3> HIDE DEF Low
    <3> QED BY <2>3, <2>4 DEF Descend
  <2>6. \E z : Descend(z, H, e, Low(c + 1))
    <3> HIDE DEF Low
    <3> QED BY <2>5
  <2>7. c + 1 \in Nat
        OBVIOUS
  <2> HIDE DEF Low
  <2> QED BY <2>6, <2>7
<1>3. Nat \subseteq I
  <2> HIDE DEF I
  <2> QED BY <1>1, <1>2, NumberInduction
<1>4. Low(k) = 1..k
      OBVIOUS
<1>5. k \in I
      BY <1>3
<1> QED BY <1>4, <1>5

(* R is what becomes of H, whose places are 1..k, when e sinks from the    *)
(* hole at i: the places from i on then hold e and what was behind it.     *)
Sank(R, H, e, k, i) ==
    /\ DOMAIN R = 1..k /\ R = [j \in 1..k |-> R[j]]
    /\ \A j \in 1..k : j < 2 * i /\ j # i => R[j] = H[j]
    /\ R[i] = e \/ \E c \in 1..k : c \in {2 * i, 2 * i + 1} /\ R[i] = H[c]
    /\ \A j \in 2..k : j \div 2 >= i => Before(R[j \div 2], R[j])
    /\ \A j \in i..k : R[j] = e \/ \E l \in i + 1..k : R[j] = H[l]
    /\ \E j \in i..k : R[j] = e
    /\ \A l \in i + 1..k : \E j \in i..k : R[j] = H[l]
    /\ \A j, l \in i..k : R[j] = R[l] => j = l

(* What is given: behind the hole at i there are heaps.                    *)
Sinking(H, e, k, i) ==
    /\ k \in Nat /\ i \in 1..k
    /\ DOMAIN H = 1..k
    /\ Ordered({H[j] : j \in 1..k} \cup {e})
    /\ \A j \in i + 1..k : H[j] # e
    /\ \A j, l \in i + 1..k : H[j] = H[l] => j = l
    /\ \A j \in 2..k : j \div 2 > i => Before(H[j \div 2], H[j])

(* The earliest of a hole with e in it and its children. *)
LEMMA SmallestFirst ==
    ASSUME NEW H, NEW e, NEW k, NEW i, Sinking(H, e, k, i), NEW s,
           s = Smallest(H, e, i)
    PROVE  /\ s = i => \A c \in 1..k : c \in {2 * i, 2 * i + 1} => Before(e, H[c])
           /\ s # i => /\ Before(H[s], e)
                       /\ \A c \in 1..k : c \in {2 * i, 2 * i + 1} /\ c # s
                                          => Before(H[s], H[c])
<1> DEFINE S == {H[j] : j \in 1..k} \cup {e}
<1>1. /\ k \in Nat /\ i \in 1..k /\ DOMAIN H = 1..k
      /\ \A c \in 1..k : c \in {2 * i, 2 * i + 1} => c \in i + 1..k /\ c # i
      BY DEF Sinking
<1>2. /\ \A c \in 1..k : H[c] \in S
      /\ e \in S
      /\ \A c \in 1..k : c \in {2 * i, 2 * i + 1} =>
            /\ H[c] # e
            /\ \A d \in 1..k : d \in {2 * i, 2 * i + 1} /\ d # c => H[d] # H[c]
      BY <1>1 DEF Sinking
<1>3. Ordered(S)
      BY DEF Sinking
<1> HIDE DEF S
<1>4. /\ \A a, b \in S : a # b /\ ~Before(a, b) => Before(b, a)
      /\ \A a, b, c \in S : Before(a, b) /\ Before(b, c) => Before(a, c)
      BY <1>3 DEF Ordered
<1>5. 2 * i # 2 * i + 1 /\ i # 2 * i /\ i # 2 * i + 1
      BY <1>1
<1>6. PICK a : a = Earlier(H, e, i, i, 2 * i)
      OBVIOUS
<1>7. a = IF 2 * i \in 1..k /\ Before(H[2 * i], e) THEN 2 * i ELSE i
      BY <1>1, <1>6 DEF Earlier, At
<1>8. s = IF 2 * i + 1 \in 1..k /\ Before(H[2 * i + 1], At(H, e, i, a))
          THEN 2 * i + 1 ELSE a
      BY <1>1, <1>6 DEF Smallest, Earlier
<1>9. PICK x, y : x = 2 * i /\ y = 2 * i + 1
      OBVIOUS
<1>10. CASE a = x
  <2>1. x \in 1..k /\ Before(H[x], e) /\ a # i
        BY <1>5, <1>7, <1>9, <1>10
  <2>2. At(H, e, i, a) = H[x]
        BY <1>10, <2>1 DEF At
  <2>3. s = IF y \in 1..k /\ Before(H[y], H[x]) THEN y ELSE x
        BY <1>8, <1>9, <1>10, <2>2
  <2>4. CASE s = y
        BY <1>2, <1>4, <1>5, <1>9, <2>1, <2>3, <2>4
  <2>5. CASE s = x
        BY <1>2, <1>4, <1>5, <1>9, <2>1, <2>3, <2>5
  <2> QED BY <2>3, <2>4, <2>5
<1>11. CASE a # x
  <2>1. a = i /\ ~(x \in 1..k /\ Before(H[x], e))
        BY <1>7, <1>9, <1>11
  <2>2. At(H, e, i, a) = e
        BY <2>1 DEF At
  <2>3. s = IF y \in 1..k /\ Before(H[y], e) THEN y ELSE i
        BY <1>8, <1>9, <2>1, <2>2
  <2>4. x \in 1..k => Before(e, H[x])
        BY <1>2, <1>4, <1>9, <2>1
  <2>5. CASE s = y
        BY <1>2, <1>4, <1>5, <1>9, <2>3, <2>4, <2>5
  <2>6. CASE s = i
        BY <1>2, <1>4, <1>5, <1>9, <2>3, <2>4, <2>6
  <2> QED BY <2>3, <2>5, <2>6
<1> QED BY <1>10, <1>11

LEMMA SinkStops ==
    ASSUME NEW H, NEW e, NEW k, NEW i, Sinking(H, e, k, i), Smallest(H, e, i) = i
    PROVE  Sank([H EXCEPT ![i] = e], H, e, k, i)
<1>0. PICK R : R = [H EXCEPT ![i] = e]
      OBVIOUS
<1>1. /\ k \in Nat /\ i \in 1..k /\ DOMAIN H = 1..k
      BY DEF Sinking
<1>2. /\ DOMAIN R = 1..k /\ R[i] = e /\ \A j \in 1..k : j # i => R[j] = H[j]
      /\ R = [j \in 1..k |-> R[j]]
      BY <1>0, <1>1
<1>3. ASSUME NEW j \in 2..k, j \div 2 >= i
      PROVE  Before(R[j \div 2], R[j])
  <2>1. PICK d \in 1..j - 1 : d = j \div 2 /\ 2 * d <= j /\ j <= 2 * d + 1
        BY <1>1, Halves
  <2>2. d \in 1..k /\ j \in 1..k /\ j # i /\ d >= i
        BY <1>1, <1>3, <2>1
  <2>3. CASE d = i
    <3>1. j \in {2 * i, 2 * i + 1}
          BY <1>1, <2>1, <2>3
    <3>2. Before(e, H[j])
          BY <2>2, <3>1, SmallestFirst
    <3> QED BY <1>2, <2>1, <2>2, <2>3, <3>2
  <2>4. CASE d # i
    <3>1. d > i
          BY <1>1, <2>2, <2>4
    <3>2. Before(H[d], H[j])
          BY <2>1, <3>1 DEF Sinking
    <3> QED BY <1>2, <2>1, <2>2, <2>4, <3>2
  <2> QED BY <2>3, <2>4
<1>4. \A j \in i..k : j \in 1..k /\ (j # i => j \in i + 1..k)
      BY <1>1
<1>5. \A j \in i..k : j # i => R[j] = H[j] /\ H[j] # e
      BY <1>2, <1>4 DEF Sinking
<1>6. /\ \A j \in i..k : R[j] = e \/ \E l \in i + 1..k : R[j] = H[l]
      BY <1>2, <1>4, <1>5
<1>7. /\ \E j \in i..k : R[j] = e
      /\ \A l \in i + 1..k : \E j \in i..k : R[j] = H[l]
  <2>1. i \in i..k /\ \A l \in i + 1..k : l \in i..k /\ l # i
        BY <1>1
  <2> QED BY <1>2, <1>5, <2>1
<1>8. ASSUME NEW j \in i..k, NEW l \in i..k, R[j] = R[l]
      PROVE  j = l
  <2>1. j # i /\ l # i => j = l
        BY <1>4, <1>5, <1>8 DEF Sinking
  <2> QED BY <1>2, <1>5, <1>8, <2>1
<1>9. Sank(R, H, e, k, i)
      BY <1>2, <1>3, <1>6, <1>7, <1>8 DEF Sank
<1> QED BY <1>0, <1>9

LEMMA SinkGoesOn ==
    ASSUME NEW H, NEW e, NEW k, NEW i, NEW s, NEW P, Sinking(H, e, k, i),
           s = Smallest(H, e, i), s # i, Sank(P, H, e, k, s)
    PROVE  Sank([P EXCEPT ![i] = H[s]], H, e, k, i)
<1>0. PICK R : R = [P EXCEPT ![i] = H[s]]
      OBVIOUS
<1>1. /\ k \in Nat /\ i \in 1..k /\ DOMAIN H = 1..k
      BY DEF Sinking
<1>2. s \in {2 * i, 2 * i + 1} /\ s \in 1..k /\ s \in i + 1..k
      BY <1>1, SmallestBelow
<1>3. /\ Before(H[s], e)
      /\ \A c \in 1..k : c \in {2 * i, 2 * i + 1} /\ c # s => Before(H[s], H[c])
      BY SmallestFirst
<1>4. /\ DOMAIN P = 1..k
      /\ \A j \in 1..k : j < 2 * s /\ j # s => P[j] = H[j]
      /\ P[s] = e \/ \E c \in 1..k : c \in {2 * s, 2 * s + 1} /\ P[s] = H[c]
      /\ \A j \in 2..k : j \div 2 >= s => Before(P[j \div 2], P[j])
      /\ \A j \in s..k : P[j] = e \/ \E l \in s + 1..k : P[j] = H[l]
      /\ \E j \in s..k : P[j] = e
      /\ \A l \in s + 1..k : \E j \in s..k : P[j] = H[l]
      /\ \A j, l \in s..k : P[j] = P[l] => j = l
      BY DEF Sank
<1>5. /\ DOMAIN R = 1..k /\ R[i] = H[s] /\ \A j \in 1..k : j # i => R[j] = P[j]
      BY <1>0, <1>1, <1>4
<1>5a. R = [j \in 1..k |-> R[j]]
       BY <1>0, <1>4
<1>6. \A j \in 1..k : j < 2 * i /\ j # i => R[j] = H[j]
  <2>1. \A j \in 1..k : j < 2 * i => j < 2 * s /\ j # s
        BY <1>1, <1>2
  <2> QED BY <1>4, <1>5, <2>1
<1>7. ASSUME NEW j \in 2..k, j \div 2 >= i
      PROVE  Before(R[j \div 2], R[j])
  <2>1. PICK d \in 1..j - 1 : d = j \div 2 /\ 2 * d <= j /\ j <= 2 * d + 1
        BY <1>1, Halves
  <2>2. d \in 1..k /\ j \in 1..k /\ j # i /\ d >= i /\ j > i
        BY <1>1, <1>7, <2>1
  <2>3. CASE d = i
    <3>1. j \in {2 * i, 2 * i + 1}
          BY <1>1, <2>1, <2>3
    <3>2. CASE j = s
      <4>1. Before(H[s], P[s])
        <5>1. CASE P[s] = e
              BY <1>3, <5>1
        <5>2. ASSUME NEW c \in 1..k, c \in {2 * s, 2 * s + 1}, P[s] = H[c]
              PROVE  Before(H[s], P[s])
          <6>1. c \in 2..k /\ c \div 2 = s /\ s > i
                BY <1>1, <1>2, <5>2, Halves
          <6>2. Before(H[s], H[c])
                BY <6>1 DEF Sinking
          <6> QED BY <5>2, <6>2
        <5> QED BY <1>4, <5>1, <5>2
      <4> QED BY <1>5, <2>1, <2>2, <2>3, <3>2, <4>1
    <3>3. CASE j # s
      <4>1. Before(H[s], H[j])
            BY <1>3, <2>2, <3>1, <3>3
      <4>2. j < 2 * s
            BY <1>1, <1>2, <3>1
      <4>3. P[j] = H[j]
            BY <1>4, <2>2, <3>3, <4>2
      <4> QED BY <1>5, <2>1, <2>2, <2>3, <4>1, <4>3
    <3> QED BY <3>2, <3>3
  <2>4. CASE d # i /\ d >= s
        BY <1>4, <1>5, <2>1, <2>2, <2>4
  <2>5. CASE d # i /\ d < s
    <3>1. d > i /\ j < 2 * s /\ d < 2 * s /\ d # s /\ j # s
          BY <1>1, <1>2, <2>1, <2>2, <2>5
    <3>2. Before(H[d], H[j])
          BY <2>1, <3>1 DEF Sinking
    <3>3. P[d] = H[d] /\ P[j] = H[j]
          BY <1>4, <2>2, <3>1
    <3> QED BY <1>5, <2>1, <2>2, <2>5, <3>2, <3>3
  <2>6. d >= s \/ d < s
        BY <1>2, <2>2
  <2> QED BY <2>3, <2>4, <2>5, <2>6
<1>8. /\ \A j \in s..k : j \in 1..k /\ j # i /\ j \in i..k /\ R[j] = P[j]
      /\ \A j \in i + 1..s - 1 : j \in 1..k /\ j # i /\ j \in i..k /\ R[j] = H[j]
      /\ \A j \in i..k : j \in s..k \/ j \in i + 1..s - 1 \/ j = i
  <2>1. /\ \A j \in s..k : j \in 1..k /\ j # i /\ j \in i..k
        /\ \A j \in i + 1..s - 1 : j \in 1..k /\ j # i /\ j \in i..k /\ j < 2 * s /\ j # s
        /\ \A j \in i..k : j \in s..k \/ j \in i + 1..s - 1 \/ j = i
        BY <1>1, <1>2
  <2> QED BY <1>4, <1>5, <2>1
<1>9. /\ \A l \in s + 1..k : l \in i + 1..k /\ l # s
      /\ \A l \in i + 1..s - 1 : l \in i + 1..k /\ l # s
      /\ \A l \in i + 1..k : l \in s + 1..k \/ l \in i + 1..s - 1 \/ l = s
      BY <1>1, <1>2
<1>10. \A j \in i..k : R[j] = e \/ \E l \in i + 1..k : R[j] = H[l]
  <2> SUFFICES ASSUME NEW j \in i..k PROVE R[j] = e \/ \E l \in i + 1..k : R[j] = H[l]
      OBVIOUS
  <2>1. CASE j \in s..k
        BY <1>4, <1>8, <1>9, <2>1
  <2>2. CASE j \in i + 1..s - 1
        BY <1>8, <1>9, <2>2
  <2>3. CASE j = i
        BY <1>2, <1>5, <2>3
  <2> QED BY <1>8, <2>1, <2>2, <2>3
<1>11. \E j \in i..k : R[j] = e
       BY <1>4, <1>8
<1>12. ASSUME NEW l \in i + 1..k PROVE \E j \in i..k : R[j] = H[l]
  <2>1. CASE l \in s + 1..k
        BY <1>4, <1>8, <2>1
  <2>2. CASE l \in i + 1..s - 1
        BY <1>8, <2>2
  <2>3. CASE l = s
    <3>1. i \in i..k
          BY <1>1
    <3> QED BY <1>5, <2>3, <3>1
  <2> QED BY <1>9, <2>1, <2>2, <2>3
<1>13. ASSUME NEW j \in i..k, NEW l \in i..k, R[j] = R[l]
       PROVE  j = l
  <2>0. /\ \A x \in i + 1..k : H[x] # e
        /\ \A x, y \in i + 1..k : H[x] = H[y] => x = y
        BY DEF Sinking
  <2>1. \A x \in s..k : R[x] # H[s] /\ \A y \in i + 1..s - 1 : R[x] # R[y]
    <3> SUFFICES ASSUME NEW x \in s..k
                 PROVE  P[x] # H[s] /\ \A y \in i + 1..s - 1 : P[x] # H[y]
        BY <1>8
    <3>1. CASE P[x] = e
          BY <1>2, <1>9, <2>0, <3>1
    <3>2. ASSUME NEW z \in s + 1..k, P[x] = H[z]
          PROVE  P[x] # H[s] /\ \A y \in i + 1..s - 1 : P[x] # H[y]
      <4>1. \A y \in i + 1..s - 1 : z # y
            BY <1>1, <1>2
      <4> QED BY <1>2, <1>9, <2>0, <3>2, <4>1
    <3> QED BY <1>4, <3>1, <3>2
  <2>2. \A x \in i + 1..s - 1 : R[x] # H[s]
        BY <1>2, <1>8, <1>9, <2>0
  <2>3. \A x, y \in i + 1..s - 1 : R[x] = R[y] => x = y
        BY <1>8, <1>9, <2>0
  <2>4. \A x, y \in s..k : R[x] = R[y] => x = y
        BY <1>4, <1>8
  <2> QED BY <1>5, <1>8, <1>13, <2>1, <2>2, <2>3, <2>4
<1>14. R[i] = e \/ \E c \in 1..k : c \in {2 * i, 2 * i + 1} /\ R[i] = H[c]
       BY <1>2, <1>5
<1>15. Sank(R, H, e, k, i)
       BY <1>5, <1>5a, <1>6, <1>7, <1>10, <1>11, <1>12, <1>13, <1>14 DEF Sank
<1> QED BY <1>0, <1>15

LEMMA Sunk ==
    ASSUME NEW H, NEW e, NEW k, NEW i, Sinking(H, e, k, i)
    PROVE  Sank(Sink(H, i, e), H, e, k, i)
<1>0. k \in Nat /\ i \in 1..k /\ DOMAIN H = 1..k
      BY DEF Sinking
<1> DEFINE f == CHOOSE g : Descend(g, H, e, DOMAIN H)
<1>1. Sink(H, i, e) = f[i]
      BY DEF Sink, Descend, Smallest, Earlier, At
<1>2. Descend(f, H, e, 1..k)
      BY <1>0, DescendExists
<1> HIDE DEF f
<1> DEFINE I == {c \in Nat : \A x \in 1..k : x + c > k /\ Sinking(H, e, k, x)
                                             => Sank(f[x], H, e, k, x)}
<1>3. 0 \in I
      BY <1>0
<1>4. ASSUME NEW c \in I \cap Nat PROVE c + 1 \in I
  <2> SUFFICES ASSUME NEW x \in 1..k, x + (c + 1) > k, Sinking(H, e, k, x)
               PROVE  Sank(f[x], H, e, k, x)
      OBVIOUS
  <2>1. PICK s : s = Smallest(H, e, x)
        OBVIOUS
  <2>2. f[x] = IF s = x THEN [H EXCEPT ![x] = e] ELSE [f[s] EXCEPT ![x] = H[s]]
        BY <1>2, <2>1 DEF Descend
  <2>3. CASE s = x
    <3>1. Sank([H EXCEPT ![x] = e], H, e, k, x)
          BY <2>1, <2>3, SinkStops
    <3> QED BY <2>2, <2>3, <3>1
  <2>4. CASE s # x
    <3>1. s \in x + 1..k /\ s \in 1..k
          BY <1>0, <2>1, <2>4, SmallestBelow
    <3>2. s + c > k
          BY <1>0, <3>1
    <3>3. Sinking(H, e, k, s)
      <4>1. /\ \A j \in s + 1..k : j \in x + 1..k
            /\ \A j \in 2..k : j \div 2 > s => j \div 2 > x
        <5>1. \A j \in 2..k : j \div 2 \in Nat
              BY <1>0, Halves
        <5> QED BY <1>0, <3>1, <5>1
      <4> QED BY <3>1, <4>1 DEF Sinking
    <3>4. Sank(f[s], H, e, k, s)
          BY <1>4, <3>1, <3>2, <3>3
    <3>5. Sank([f[s] EXCEPT ![x] = H[s]], H, e, k, x)
          BY <2>1, <2>4, <3>4, SinkGoesOn
    <3> QED BY <2>2, <2>4, <3>5
  <2> QED BY <2>3, <2>4
<1>5. Nat \subseteq I
  <2> HIDE DEF I
  <2> QED BY <1>3, <1>4, NumberInduction
<1>6. k \in I /\ i + k > k
      BY <1>0, <1>5
<1> QED BY <1>0, <1>1, <1>6

-----------------------------------------------------------------------------
(* The heap *)

Entries(H) == {H[j] : j \in 1..Len(H)}

(* No two places of a heap have the same event, no two events are of one   *)
(* process, and each but the root has its parent before it.                *)
Heap(H) ==
    /\ H \in Seq(Events)
    /\ \A i, j \in 1..Len(H) : H[i] = H[j] => i = j
    /\ Single(Entries(H))
    /\ \A j \in 2..Len(H) : Before(H[j \div 2], H[j])

(* An event joins the heap. *)
LEMMA EventPushed ==
    ASSUME version \in {"student", "instructor"}, NEW H, Heap(H), NEW e \in Events,
           Single(Entries(H) \cup {e}), \A x \in Entries(H) : x.p # e.p
    PROVE  /\ Heap(push_event(H, e)) /\ Len(push_event(H, e)) = Len(H) + 1
           /\ Entries(push_event(H, e)) = Entries(H) \cup {e}
<1>1. PICK k \in Nat : k = Len(H) + 1 /\ k - 1 = Len(H) /\ k >= 1
      BY LenProperties DEF Heap
<1>2. PICK G : G = Append(H, e)
      OBVIOUS
<1>3. /\ G \in Seq(Events) /\ DOMAIN G = 1..k /\ G[k] = e
      /\ \A j \in 1..k - 1 : G[j] = H[j]
  <2>1. /\ Append(H, e) \in Seq(Events) /\ Len(Append(H, e)) = Len(H) + 1
        /\ \A j \in 1..Len(H) : Append(H, e)[j] = H[j]
        /\ Append(H, e)[Len(H) + 1] = e
        BY AppendProperties DEF Heap
  <2> QED BY <1>1, <1>2, <2>1, LenProperties
<1>4. /\ \A j \in 1..k - 1 : H[j] \in Entries(H) /\ H[j] # e
      /\ \A j \in 1..k : j # k => j \in 1..k - 1
      BY <1>1 DEF Entries
<1>5. {G[j] : j \in 1..k} \cup {e} = Entries(H) \cup {e}
      BY <1>1, <1>3, <1>4 DEF Entries
<1>6. Entries(H) \cup {e} \subseteq Events
      BY <1>1, ElementOfSeq DEF Heap, Entries
<1>7. Rising(G, e, k, k)
  <2>1. Ordered({G[j] : j \in 1..k} \cup {e})
        BY <1>5, <1>6, EventsOrdered
  <2>2. /\ \A j \in 1..k - 1 : G[j] # e
        /\ \A j, l \in 1..k - 1 : G[j] = G[l] => j = l
        BY <1>1, <1>3, <1>4 DEF Heap
  <2>3. ASSUME NEW j \in 2..k - 1 PROVE Before(G[j \div 2], G[j])
    <3>1. PICK d \in 1..j - 1 : d = j \div 2
          BY <1>1, Halves
    <3>2. d \in 1..k - 1 /\ j \in 1..k - 1
          BY <1>1, <3>1
    <3>3. Before(H[d], H[j])
          BY <1>1, <3>1 DEF Heap
    <3> QED BY <1>3, <3>1, <3>2, <3>3
  <2>4. k \in 1..k
        BY <1>1
  <2> QED BY <1>1, <1>3, <2>1, <2>2, <2>3, <2>4 DEF Rising
<1>8. PICK R : R = push_event(H, e) /\ Rose(R, G, e, k, k)
  <2>1. push_event(H, e) = Rise(G, k, e)
        BY <1>1, <1>2 DEF push_event
  <2> QED BY <1>7, <2>1, Risen
<1> HIDE DEF push_event
<1>9. /\ R = [j \in 1..k |-> R[j]]
      /\ \A j \in 2..k : j < k \/ j = k => Before(R[j \div 2], R[j])
      /\ \A j \in 1..k : R[j] = e \/ \E l \in 1..k - 1 : R[j] = G[l]
      /\ \E j \in 1..k : R[j] = e
      /\ \A l \in 1..k - 1 : \E j \in 1..k : R[j] = G[l]
      /\ \A j, l \in 1..k : R[j] = R[l] => j = l
      BY <1>8 DEF Rose
<1>10. {R[j] : j \in 1..k} = Entries(H) \cup {e}
  <2>1. \A j \in 1..k : R[j] \in Entries(H) \cup {e}
        BY <1>3, <1>4, <1>9
  <2>2. \A x \in Entries(H) : \E j \in 1..k : R[j] = x
        BY <1>1, <1>3, <1>9 DEF Entries
  <2> QED BY <1>9, <2>1, <2>2
<1>11. R \in Seq(Events) /\ Len(R) = k
  <2>1. \A j \in 1..k : R[j] \in Events
        BY <1>6, <1>10
  <2>2. R \in [1..k -> Events]
        BY <1>9, <2>1
  <2> QED BY <1>1, <2>2
<1>12. Entries(R) = Entries(H) \cup {e}
       BY <1>10, <1>11 DEF Entries
<1>13. Heap(R)
  <2>1. ASSUME NEW j \in 2..k PROVE Before(R[j \div 2], R[j])
    <3>1. j < k \/ j = k
          BY <1>1
    <3> QED BY <1>9, <3>1
  <2>2. Single(Entries(R))
        BY <1>12
  <2> QED BY <1>9, <1>11, <2>1, <2>2 DEF Heap
<1> QED BY <1>1, <1>8, <1>11, <1>12, <1>13

(* The root is before all others. *)
LEMMA RootFirst ==
    ASSUME version \in {"student", "instructor"}, NEW H, Heap(H)
    PROVE  /\ \A j \in 2..Len(H) : Before(H[1], H[j])
           /\ \A j \in 1..Len(H) : H[1].time <= H[j].time
<1>1. /\ Len(H) \in Nat /\ Entries(H) \subseteq Events
      BY LenProperties, ElementOfSeq DEF Heap, Entries
<1>2. Ordered(Entries(H))
      BY <1>1, EventsOrdered DEF Heap
<1> DEFINE I == {c \in Nat : \A j \in 2..Len(H) : j <= c => Before(H[1], H[j])}
<1>3. 0 \in I
      OBVIOUS
<1>4. ASSUME NEW c \in I \cap Nat PROVE c + 1 \in I
  <2> SUFFICES ASSUME NEW j \in 2..Len(H), j <= c + 1 PROVE Before(H[1], H[j])
      OBVIOUS
  <2>1. PICK d \in 1..j - 1 : d = j \div 2
        BY <1>1, Halves
  <2>2. Before(H[d], H[j])
        BY <2>1 DEF Heap
  <2>3. CASE d = 1
        BY <2>2, <2>3
  <2>4. CASE d # 1
    <3>1. d \in 2..Len(H) /\ d <= c
          BY <1>1, <2>1, <2>4
    <3>2. Before(H[1], H[d])
          BY <1>4, <3>1
    <3>3. H[1] \in Entries(H) /\ H[d] \in Entries(H) /\ H[j] \in Entries(H)
          BY <1>1, <3>1 DEF Entries
    <3> QED BY <1>2, <2>2, <3>2, <3>3 DEF Ordered
  <2> QED BY <2>3, <2>4
<1>5. Nat \subseteq I
  <2> HIDE DEF I
  <2> QED BY <1>3, <1>4, NumberInduction
<1>6. ASSUME NEW j \in 2..Len(H) PROVE Before(H[1], H[j])
      BY <1>1, <1>5
<1>7. ASSUME NEW j \in 1..Len(H) PROVE H[1].time <= H[j].time
  <2>1. H[1] \in Events /\ H[j] \in Events
        BY <1>1 DEF Entries
  <2>2. H[1].time \in Nat /\ H[j].time \in Nat
        BY <2>1 DEF Events
  <2>3. j # 1 => Before(H[1], H[j])
        BY <1>1, <1>6
  <2> QED BY <2>2, <2>3 DEF Before
<1> QED BY <1>6, <1>7

(* The root leaves the heap. *)
LEMMA EventPopped ==
    ASSUME version \in {"student", "instructor"}, NEW H, Heap(H), H # <<>>
    PROVE  /\ Heap(pop_event(H)) /\ Entries(pop_event(H)) = Entries(H) \ {H[1]}
           /\ H[1] \in Entries(H)
<1>1. PICK k \in Nat : k = Len(H) - 1 /\ k + 1 = Len(H)
  <2>1. H \in Seq(Events)
        BY DEF Heap
  <2> QED BY <2>1, EmptySeq, LenProperties
<1>2. /\ H \in Seq(Events) /\ \A j \in 1..k + 1 : H[j] \in Events
      /\ \A i, j \in 1..k + 1 : H[i] = H[j] => i = j
      /\ \A j \in 2..k + 1 : Before(H[j \div 2], H[j])
      BY <1>1, ElementOfSeq DEF Heap
<1>3. PICK G : G = SubSeq(H, 1, Len(H) - 1)
      OBVIOUS
<1>4. /\ G \in Seq(Events) /\ Len(G) = k /\ DOMAIN G = 1..k
      /\ \A j \in 1..k : G[j] = H[j]
  <2>1. /\ SubSeq(H, 1, k) \in Seq(Events)
        /\ Len(SubSeq(H, 1, k)) = IF 1 <= k THEN k - 1 + 1 ELSE 0
        /\ \A j \in 1..(k - 1 + 1) : SubSeq(H, 1, k)[j] = H[1 + j - 1]
    <3>1. 1 \in Int /\ k \in Int /\ \A j \in 1..k : H[j] \in Events
          BY <1>1, <1>2
    <3> QED BY <3>1, SubSeqProperties
  <2> QED BY <1>1, <1>3, <2>1, LenProperties
<1>5. Entries(H) = {H[j] : j \in 1..k + 1} /\ Single(Entries(H)) /\ Entries(H) \subseteq Events
      /\ H[1] \in Entries(H)
      BY <1>1, <1>2 DEF Heap, Entries
<1>6. CASE k = 0
  <2>1. pop_event(H) = <<>>
        BY <1>3, <1>4, <1>6, EmptySeq DEF pop_event
  <2>2. Entries(H) = {H[1]}
        BY <1>5, <1>6
  <2>3. Entries(<<>>) = {} /\ Heap(<<>>)
        BY DEF Entries, Heap, Single
  <2> QED BY <1>5, <2>1, <2>2, <2>3
<1>7. CASE k # 0
  <2>0. 1 \in 1..k /\ k + 1 \in 1..k + 1 /\ k + 1 # 1
        BY <1>7
  <2>1. G # <<>>
        BY <1>4, <1>7
  <2>2. PICK e : e = H[k + 1]
        OBVIOUS
  <2>3. Sinking(G, e, k, 1)
    <3>1. {G[j] : j \in 1..k} \cup {e} = Entries(H)
      <4>1. \A j \in 1..k + 1 : j \in 1..k \/ j = k + 1
            OBVIOUS
      <4>2. \A j \in 1..k : j \in 1..k + 1
            OBVIOUS
      <4> QED BY <1>4, <1>5, <2>0, <2>2, <4>1, <4>2
    <3>2. Ordered(Entries(H))
          BY <1>5, EventsOrdered
    <3>3. \A j \in 1..k : j \in 1..k + 1 /\ j # k + 1
          OBVIOUS
    <3>4. /\ \A j \in 1..k : G[j] # e
          /\ \A j, l \in 1..k : G[j] = G[l] => j = l
      <4>1. PICK c : c = k + 1
            OBVIOUS
      <4>2. /\ \A i, j \in 1..c : H[i] = H[j] => i = j
            /\ c \in 1..c /\ e = H[c]
            /\ \A j \in 1..k : j \in 1..c /\ j # c
            BY <1>2, <2>0, <2>2, <3>3, <4>1
      <4> QED BY <1>4, <4>2
    <3>5. ASSUME NEW j \in 2..k PROVE Before(G[j \div 2], G[j])
      <4>1. PICK d \in 1..j - 1 : d = j \div 2
            BY Halves
      <4>2. d \in 1..k /\ j \in 1..k /\ j \in 2..k + 1
            BY <4>1
      <4>3. Before(H[d], H[j])
            BY <1>2, <4>1, <4>2
      <4> QED BY <1>4, <4>1, <4>2, <4>3
    <3>6. \A j \in 1 + 1..k : j \in 1..k
          OBVIOUS
    <3> QED BY <1>4, <2>0, <3>1, <3>2, <3>4, <3>5, <3>6 DEF Sinking
  <2>4. PICK R : R = pop_event(H) /\ Sank(R, G, e, k, 1)
    <3>1. Sank(Sink(G, 1, e), G, e, k, 1)
          BY <2>3, Sunk
    <3>2. pop_event(H) = Sink(G, 1, e)
          BY <1>1, <1>3, <2>1, <2>2 DEF pop_event
    <3> QED BY <3>1, <3>2
  <2> HIDE DEF pop_event
  <2>5. /\ R = [j \in 1..k |-> R[j]]
        /\ \A j \in 2..k : j \div 2 >= 1 => Before(R[j \div 2], R[j])
        /\ \A j \in 1..k : R[j] = e \/ \E l \in 1 + 1..k : R[j] = G[l]
        /\ \E j \in 1..k : R[j] = e
        /\ \A l \in 1 + 1..k : \E j \in 1..k : R[j] = G[l]
        /\ \A j, l \in 1..k : R[j] = R[l] => j = l
        BY <2>4 DEF Sank
  <2>6. {R[j] : j \in 1..k} = Entries(H) \ {H[1]}
    <3>1. /\ \A l \in 1 + 1..k : l \in 1..k /\ l \in 1..k + 1 /\ l # 1
          /\ 1 \in 1..k + 1
          /\ \A l \in 1..k + 1 : l = 1 \/ l = k + 1 \/ l \in 1 + 1..k
          OBVIOUS
    <3>2. \A j \in 1..k : R[j] \in Entries(H) \ {H[1]}
      <4>1. e \in Entries(H) \ {H[1]}
            BY <1>2, <1>5, <2>0, <2>2, <3>1
      <4>2. \A l \in 1 + 1..k : G[l] \in Entries(H) \ {H[1]}
            BY <1>2, <1>4, <1>5, <3>1
      <4> QED BY <2>5, <4>1, <4>2
    <3>3. ASSUME NEW x \in Entries(H) \ {H[1]} PROVE \E j \in 1..k : R[j] = x
      <4>1. PICK l \in 1..k + 1 : x = H[l]
            BY <1>5, <3>3
      <4>2. l = k + 1 \/ l \in 1 + 1..k
            BY <3>1, <3>3, <4>1
      <4> QED BY <1>4, <2>2, <2>5, <3>1, <4>1, <4>2
    <3> QED BY <3>2, <3>3
  <2>7. R \in Seq(Events) /\ Len(R) = k
    <3>1. \A j \in 1..k : R[j] \in Events
          BY <1>5, <2>6
    <3>2. R \in [1..k -> Events]
          BY <2>5, <3>1
    <3> QED BY <3>2
  <2>8. Entries(R) = Entries(H) \ {H[1]}
        BY <2>6, <2>7 DEF Entries
  <2>9. Heap(R)
    <3>1. ASSUME NEW j \in 2..k PROVE Before(R[j \div 2], R[j])
      <4>1. j \div 2 >= 1
            BY Halves
      <4> QED BY <2>5, <4>1
    <3>2. Single(Entries(R))
          BY <1>5, <2>8 DEF Single
    <3> QED BY <2>5, <2>7, <3>1, <3>2 DEF Heap
  <2> QED BY <1>5, <2>4, <2>8, <2>9
<1> QED BY <1>6, <1>7

-----------------------------------------------------------------------------
(* The heap at the start *)

LEMMA ArrivalsAre ==
    ASSUME J \in Inputs
    PROVE  /\ n \in Nat \ {0} /\ Arrivals \in Seq(Events) /\ Len(Arrivals) = n
           /\ \A p \in 1..n : /\ Arrivals[p] \in Events
                              /\ Arrivals[p].p = p /\ Arrivals[p].type = "arrival"
                              /\ Arrivals[p].time = J[p].atime
                              /\ Arrivals[p] = [time |-> J[p].atime, p |-> p, type |-> "arrival"]
<1> DEFINE a == [p \in 1..n |-> [time |-> J[p].atime, p |-> p, type |-> "arrival"]]
<1>1. n \in Nat \ {0} /\ \A p \in 1..n : J[p].atime \in Nat
      BY SchedulerAssumption DEF SchedulerAssumption, Processes
<1>2. \A p \in 1..n : [time |-> J[p].atime, p |-> p, type |-> "arrival"] \in Events
      BY <1>1 DEF Events, Processes, Kinds
<1>3. /\ \A p \in 1..n : a[p] \in Events /\ a[p].p = p /\ a[p].type = "arrival"
      /\ \A p \in 1..n : a[p].time = J[p].atime
      /\ \A p \in 1..n : a[p] = [time |-> J[p].atime, p |-> p, type |-> "arrival"]
      BY <1>2
<1>4. Arrivals = SubSeq(a, 1, n)
      BY DEF Arrivals, Processes
<1> HIDE DEF a
<1>5. /\ SubSeq(a, 1, n) \in Seq(Events)
      /\ Len(SubSeq(a, 1, n)) = IF 1 <= n THEN n - 1 + 1 ELSE 0
      /\ \A p \in 1..(n - 1 + 1) : SubSeq(a, 1, n)[p] = a[1 + p - 1]
  <2>1. 1 \in Int /\ n \in Int
        BY <1>1
  <2> QED BY <1>3, <2>1, SubSeqProperties
<1>6. \A p \in 1..n : p \in 1..(n - 1 + 1) /\ 1 + p - 1 = p
      BY <1>1
<1>7. \A p \in 1..n : Arrivals[p] = a[p]
      BY <1>4, <1>5, <1>6
<1>8. Len(Arrivals) = n
      BY <1>1, <1>4, <1>5
<1> QED BY <1>1, <1>3, <1>4, <1>5, <1>7, <1>8

(* No two arrivals are of one process. *)
LEMMA ArrivalsSingle ==
    ASSUME J \in Inputs, NEW S, S \subseteq Entries(Arrivals)
    PROVE  Single(S) /\ S \subseteq Events
<1>1. \A x \in S : \E p \in 1..n : x = Arrivals[p]
      BY ArrivalsAre DEF Entries
<1> QED BY <1>1, ArrivalsAre DEF Single, Joins

(* The student's program pushes the arrivals one by one. *)
Pushes(g, D) == g = [i \in D |-> IF i = 0 THEN <<>> ELSE push_event(g[i - 1], Arrivals[i])]

LEMMA PushesExist == \A k \in Nat : \E g : Pushes(g, 0..k)
<1> DEFINE I == {k \in Nat : \E g : Pushes(g, 0..k)}
<1>1. 0 \in I
  <2> DEFINE g == [i \in 0..0 |-> <<>>]
  <2>1. Pushes(g, 0..0)
        BY DEF Pushes
  <2> QED BY <2>1
<1>2. ASSUME NEW k \in I \cap Nat PROVE k + 1 \in I
  <2>1. PICK g : Pushes(g, 0..k)
        OBVIOUS
  <2>2. PICK h : h = [i \in 0..k + 1 |-> IF i = k + 1 THEN push_event(g[k], Arrivals[k + 1])
                                         ELSE g[i]]
        OBVIOUS
  <2>3. ASSUME NEW i \in 0..k + 1
        PROVE  h[i] = IF i = 0 THEN <<>> ELSE push_event(h[i - 1], Arrivals[i])
    <3>1. CASE i = k + 1
      <4>1. i # 0 /\ i - 1 = k /\ k \in 0..k + 1 /\ k # k + 1
            BY <3>1
      <4> QED BY <2>2, <3>1, <4>1
    <3>2. CASE i # k + 1
      <4>1. i \in 0..k
            BY <3>2
      <4>2. g[i] = IF i = 0 THEN <<>> ELSE push_event(g[i - 1], Arrivals[i])
            BY <2>1, <4>1 DEF Pushes
      <4>3. i # 0 => i - 1 \in 0..k + 1 /\ i - 1 # k + 1
            BY <4>1
      <4>4. i # 0 => h[i - 1] = g[i - 1]
            BY <2>2, <4>3
      <4>5. h[i] = g[i]
            BY <2>2, <3>2
      <4> QED BY <4>2, <4>4, <4>5
    <3> QED BY <3>1, <3>2
  <2>4. DOMAIN h = 0..k + 1 /\ h = [i \in 0..k + 1 |-> h[i]]
        BY <2>2
  <2>5. Pushes(h, 0..k + 1)
        BY <2>3, <2>4 DEF Pushes
  <2> QED BY <2>5
<1> HIDE DEF I
<1>3. Nat \subseteq I
      BY <1>1, <1>2, NumberInduction
<1> QED BY <1>3 DEF I

LEMMA Pushed ==
    ASSUME J \in Inputs, version \in {"student", "instructor"}
    PROVE  Heap(pushed) /\ Entries(pushed) = Entries(Arrivals)
<1>0. n \in Nat \ {0} /\ Len(Arrivals) = n
      BY ArrivalsAre
<1> DEFINE f == CHOOSE g : Pushes(g, 0..n)
           I == {k \in Nat : k <= n => /\ Heap(f[k])
                                       /\ Entries(f[k]) = {Arrivals[p] : p \in 1..k}}
<1>1. pushed = f[n]
      BY DEF pushed, Pushes
<1>2. Pushes(f, 0..n)
      BY <1>0, PushesExist
<1> HIDE DEF f
<1>3. \A i \in 0..n : f[i] = IF i = 0 THEN <<>> ELSE push_event(f[i - 1], Arrivals[i])
      BY <1>2 DEF Pushes
<1>4. 0 \in I
  <2>1. f[0] = <<>>
        BY <1>0, <1>3
  <2>2. Entries(<<>>) = {} /\ Heap(<<>>)
        BY DEF Entries, Heap, Single
  <2> QED BY <2>1, <2>2
<1>5. ASSUME NEW k \in I \cap Nat PROVE k + 1 \in I
  <2> SUFFICES ASSUME k + 1 <= n
               PROVE  /\ Heap(f[k + 1])
                      /\ Entries(f[k + 1]) = {Arrivals[p] : p \in 1..k + 1}
      OBVIOUS
  <2>1. PICK c : c = k + 1
        OBVIOUS
  <2>2. /\ c \in 0..n /\ c # 0 /\ c - 1 = k /\ k <= n /\ c \in 1..n /\ k \in 0..n
        /\ \A p \in 1..k : p \in 1..n /\ p # c /\ p \in 1..c
        /\ \A p \in 1..c : p = c \/ p \in 1..k
        BY <1>0, <2>1
  <2>3. f[c] = push_event(f[k], Arrivals[c])
        BY <1>3, <2>2
  <2>4. Heap(f[k]) /\ Entries(f[k]) = {Arrivals[p] : p \in 1..k}
        BY <2>2
  <2>5. Entries(f[k]) \cup {Arrivals[c]} \subseteq Entries(Arrivals)
        BY <1>0, <2>2, <2>4 DEF Entries
  <2>6. /\ Arrivals[c] \in Events
        /\ Single(Entries(f[k]) \cup {Arrivals[c]})
        /\ \A x \in Entries(f[k]) : x.p # Arrivals[c].p
    <3>1. \A x \in Entries(f[k]) : x.p # Arrivals[c].p
          BY <2>2, <2>4, ArrivalsAre
    <3> QED BY <2>2, <2>5, <3>1, ArrivalsAre, ArrivalsSingle
  <2>7. /\ Heap(push_event(f[k], Arrivals[c]))
        /\ Entries(push_event(f[k], Arrivals[c])) = Entries(f[k]) \cup {Arrivals[c]}
        BY <2>4, <2>6, EventPushed
  <2>8. {Arrivals[p] : p \in 1..c} = {Arrivals[p] : p \in 1..k} \cup {Arrivals[c]}
        BY <2>2
  <2> QED BY <2>1, <2>3, <2>4, <2>7, <2>8
<1>6. Nat \subseteq I
  <2> HIDE DEF I
  <2> QED BY <1>4, <1>5, NumberInduction
<1>7. n \in I /\ n <= n
      BY <1>0, <1>6
<1> QED BY <1>0, <1>1, <1>7 DEF Entries

(* The instructor's makes a heap of them from the end. *)
Makes(g, D) ==
    g = [i \in D |-> IF i > n \div 2 THEN Arrivals ELSE Sink(g[i + 1], i, g[i + 1][i])]

LEMMA MakesExist ==
    ASSUME n \in Nat
    PROVE  \E g : Makes(g, 1..(n \div 2 + 1))
<1>0. PICK k \in Nat : k = n \div 2 + 1 /\ k - 1 = n \div 2
      BY Halves
<1> DEFINE Low(c) == {i \in 1..k : i + c > k}
           I == {c \in Nat : \E f : Makes(f, Low(c))}
<1>1. 0 \in I
  <2> DEFINE g == [i \in Low(0) |-> Arrivals]
  <2>1. Low(0) = {}
        OBVIOUS
  <2>2. Makes(g, Low(0))
        BY <2>1 DEF Makes
  <2> QED BY <2>2
<1>2. ASSUME NEW c \in I \cap Nat PROVE c + 1 \in I
  <2>1. PICK g : Makes(g, Low(c))
        OBVIOUS
  <2> DEFINE new(i) == IF i > n \div 2 THEN Arrivals ELSE Sink(g[i + 1], i, g[i + 1][i])
  <2>2. PICK h : h = [i \in Low(c + 1) |-> IF i \in Low(c) THEN g[i] ELSE new(i)]
        OBVIOUS
  <2>3. ASSUME NEW i \in Low(c + 1)
        PROVE  h[i] = IF i > n \div 2 THEN Arrivals ELSE Sink(h[i + 1], i, h[i + 1][i])
    <3>1. PICK s : s = i + 1 /\ (~(i > n \div 2) => s \in Low(c) /\ s \in Low(c + 1))
          BY <1>0
    <3>2. ~(i > n \div 2) => h[s] = g[s]
          BY <2>2, <3>1
    <3>3. CASE i \in Low(c)
      <4>1. g[i] = new(i)
            BY <2>1, <3>3 DEF Makes
      <4>2. h[i] = IF i > n \div 2 THEN Arrivals ELSE Sink(g[s], i, g[s][i])
            BY <2>2, <3>1, <3>3, <4>1
      <4> QED BY <3>1, <3>2, <4>2
    <3>4. CASE i \notin Low(c)
      <4>1. h[i] = IF i > n \div 2 THEN Arrivals ELSE Sink(g[s], i, g[s][i])
            BY <2>2, <3>1, <3>4
      <4> QED BY <3>1, <3>2, <4>1
    <3> QED BY <3>3, <3>4
  <2>4. DOMAIN h = Low(c + 1) /\ h = [i \in Low(c + 1) |-> h[i]]
        BY <2>2
  <2>5. Makes(h, Low(c + 1))
    <3> HIDE DEF Low
    <3> QED BY <2>3, <2>4 DEF Makes
  <2>6. \E z : Makes(z, Low(c + 1))
    <3> HIDE DEF Low
    <3> QED BY <2>5
  <2>7. c + 1 \in Nat
        OBVIOUS
  <2> HIDE DEF Low
  <2> QED BY <2>6, <2>7
<1>3. Nat \subseteq I
  <2> HIDE DEF I
  <2> QED BY <1>1, <1>2, NumberInduction
<1>4. Low(k) = 1..k
      OBVIOUS
<1>5. k \in I
      BY <1>3
<1> QED BY <1>0, <1>4, <1>5

(* X has the arrivals, of which those from place i on are in heaps.        *)
Made(X, i) ==
    /\ X = [j \in 1..n |-> X[j]]
    /\ {X[j] : j \in 1..n} = Entries(Arrivals)
    /\ \A j, l \in 1..n : X[j] = X[l] => j = l
    /\ \A j \in 2..n : j \div 2 >= i => Before(X[j \div 2], X[j])

LEMMA MadeOneMore ==
    ASSUME J \in Inputs, version \in {"student", "instructor"},
           NEW X, NEW i \in 1..n, Made(X, i + 1)
    PROVE  Made(Sink(X, i, X[i]), i)
<1>0. n \in Nat \ {0} /\ Len(Arrivals) = n
      BY ArrivalsAre
<1>1. PICK e : e = X[i]
      OBVIOUS
<1>2. /\ DOMAIN X = 1..n /\ {X[j] : j \in 1..n} = Entries(Arrivals)
      /\ \A j, l \in 1..n : X[j] = X[l] => j = l
      /\ \A j \in 2..n : j \div 2 >= i + 1 => Before(X[j \div 2], X[j])
      BY DEF Made
<1>3. Sinking(X, e, n, i)
  <2>1. {X[j] : j \in 1..n} \cup {e} = Entries(Arrivals)
        BY <1>1, <1>2
  <2>2. Ordered(Entries(Arrivals))
        BY ArrivalsSingle, EventsOrdered
  <2>3. /\ \A j \in i + 1..n : j \in 1..n /\ j # i
        BY <1>0
  <2>4. /\ \A j \in i + 1..n : X[j] # e
        /\ \A j, l \in i + 1..n : X[j] = X[l] => j = l
        BY <1>1, <1>2, <2>3
  <2>5. ASSUME NEW j \in 2..n, j \div 2 > i PROVE Before(X[j \div 2], X[j])
    <3>1. j \div 2 >= i + 1
          BY <1>0, <2>5, Halves
    <3> QED BY <1>2, <3>1
  <2> QED BY <1>0, <1>2, <2>1, <2>2, <2>4, <2>5 DEF Sinking
<1>4. PICK R : R = Sink(X, i, e) /\ Sank(R, X, e, n, i)
      BY <1>3, Sunk
<1>5. /\ R = [j \in 1..n |-> R[j]]
      /\ \A j \in 1..n : j < 2 * i /\ j # i => R[j] = X[j]
      /\ \A j \in 2..n : j \div 2 >= i => Before(R[j \div 2], R[j])
      /\ \A j \in i..n : R[j] = e \/ \E l \in i + 1..n : R[j] = X[l]
      /\ \E j \in i..n : R[j] = e
      /\ \A l \in i + 1..n : \E j \in i..n : R[j] = X[l]
      /\ \A j, l \in i..n : R[j] = R[l] => j = l
      BY <1>4 DEF Sank
<1>6. /\ \A j \in 1..i - 1 : j \in 1..n /\ j # i /\ j < 2 * i
      /\ \A j \in i..n : j \in 1..n
      /\ \A j \in i + 1..n : j \in 1..n /\ j # i
      /\ \A j \in 1..n : j \in 1..i - 1 \/ j \in i..n
      /\ \A j \in i..n : j = i \/ j \in i + 1..n
      /\ \A j \in 1..i - 1 : j \notin i..n
      BY <1>0
<1>7. \A j \in 1..i - 1 : R[j] = X[j]
      BY <1>5, <1>6
<1>8. \A j \in i..n : \E l \in i..n : R[j] = X[l]
  <2>1. i \in i..n /\ \A j \in i + 1..n : j \in i..n
        BY <1>0
  <2> QED BY <1>1, <1>5, <2>1
<1>9. {R[j] : j \in 1..n} = Entries(Arrivals)
  <2>1. \A j \in 1..n : \E l \in 1..n : R[j] = X[l]
        BY <1>6, <1>7, <1>8
  <2>2. ASSUME NEW l \in 1..n PROVE \E j \in 1..n : R[j] = X[l]
    <3>1. CASE l \in 1..i - 1
          BY <1>7, <3>1
    <3>2. CASE l = i
          BY <1>1, <1>5, <1>6, <3>2
    <3>3. CASE l \in i + 1..n
          BY <1>5, <1>6, <3>3
    <3> QED BY <1>6, <3>1, <3>2, <3>3
  <2>3. PICK A : A = Entries(Arrivals) /\ A = {X[l] : l \in 1..n}
        BY <1>2
  <2>4. \A j \in 1..n : R[j] \in A
        BY <2>1, <2>3
  <2>5. \A x \in A : \E j \in 1..n : R[j] = x
        BY <2>2, <2>3
  <2>6. {R[j] : j \in 1..n} = A
        BY <2>4, <2>5
  <2> QED BY <2>3, <2>6
<1>10. ASSUME NEW j \in 1..n, NEW l \in 1..n, R[j] = R[l] PROVE j = l
  <2>1. CASE j \in 1..i - 1 /\ l \in 1..i - 1
        BY <1>2, <1>7, <1>10, <2>1
  <2>2. CASE j \in i..n /\ l \in i..n
        BY <1>5, <1>10, <2>2
  <2>3. \A x \in 1..i - 1, y \in i..n : R[x] # R[y]
        BY <1>2, <1>6, <1>7, <1>8
  <2> QED BY <1>6, <1>10, <2>1, <2>2, <2>3
<1>11. Made(R, i)
       BY <1>5, <1>9, <1>10 DEF Made
<1> QED BY <1>1, <1>4, <1>11

LEMMA MadeHeap ==
    ASSUME J \in Inputs, version \in {"student", "instructor"}
    PROVE  Heap(makeheap) /\ Entries(makeheap) = Entries(Arrivals)
<1>0. /\ n \in Nat \ {0} /\ Arrivals \in Seq(Events) /\ Len(Arrivals) = n
      /\ \A p \in 1..n : Arrivals[p] \in Events /\ Arrivals[p].p = p
      BY ArrivalsAre
<1>1. PICK k \in Nat : k = n \div 2 + 1 /\ 1 \in 1..k /\ n \div 2 = k - 1 /\ k - 1 <= n
  <2>1. /\ n \in Nat /\ n \div 2 \in Nat /\ 2 * (n \div 2) <= n
        BY <1>0, Halves
  <2> QED BY <2>1
<1> DEFINE f == CHOOSE g : Makes(g, 1..(n \div 2 + 1))
           I == {c \in Nat : \A i \in 1..k : i + c >= k => Made(f[i], i)}
<1>2. makeheap = f[1]
      BY DEF makeheap, Makes
<1>3. Makes(f, 1..k)
  <2>1. Makes(f, 1..(n \div 2 + 1))
        BY <1>0, MakesExist
  <2> QED BY <1>1, <2>1
<1> HIDE DEF f
<1>4. \A i \in 1..k : f[i] = IF i > k - 1 THEN Arrivals ELSE Sink(f[i + 1], i, f[i + 1][i])
      BY <1>1, <1>3 DEF Makes
<1>5. Made(Arrivals, k)
  <2>1. Arrivals = [j \in 1..n |-> Arrivals[j]]
        BY <1>0
  <2>2. {Arrivals[j] : j \in 1..n} = Entries(Arrivals)
        BY <1>0 DEF Entries
  <2>3. \A j, l \in 1..n : Arrivals[j] = Arrivals[l] => j = l
        BY <1>0
  <2>4. \A j \in 2..n : ~(j \div 2 >= k)
    <3> SUFFICES ASSUME NEW j \in 2..n PROVE ~(j \div 2 >= k)
        OBVIOUS
    <3>1. /\ j \in Nat /\ n \in Nat /\ j \div 2 \in Nat /\ n \div 2 \in Nat
          /\ 2 * (j \div 2) <= j /\ n <= 2 * (n \div 2) + 1 /\ j <= n
          BY <1>0, Halves
    <3> QED BY <1>1, <3>1
  <2> QED BY <2>1, <2>2, <2>3, <2>4 DEF Made
<1>6. 0 \in I
  <2> SUFFICES ASSUME NEW i \in 1..k, i + 0 >= k PROVE Made(f[i], i)
      OBVIOUS
  <2>1. i = k /\ i > k - 1
        BY <1>1
  <2> QED BY <1>4, <1>5, <2>1
<1>7. ASSUME NEW c \in I \cap Nat PROVE c + 1 \in I
  <2> SUFFICES ASSUME NEW i \in 1..k, i + (c + 1) >= k PROVE Made(f[i], i)
      OBVIOUS
  <2>1. CASE i = k
    <3>1. i > k - 1
          BY <1>1, <2>1
    <3> QED BY <1>4, <1>5, <2>1, <3>1
  <2>2. CASE i # k
    <3>1. PICK s : s = i + 1
          OBVIOUS
    <3>2. s \in 1..k /\ s + c >= k /\ ~(i > k - 1) /\ i \in 1..n
          BY <1>0, <1>1, <2>2, <3>1
    <3>3. Made(f[s], s)
          BY <1>7, <3>2
    <3>4. f[i] = Sink(f[s], i, f[s][i])
          BY <1>4, <3>1, <3>2
    <3>5. Made(Sink(f[s], i, f[s][i]), i)
      <4>1. Made(f[s], i + 1)
            BY <3>1, <3>3
      <4> QED BY <3>2, <4>1, MadeOneMore
    <3> QED BY <3>4, <3>5
  <2> QED BY <2>1, <2>2
<1>8. Nat \subseteq I
  <2> HIDE DEF I
  <2> QED BY <1>6, <1>7, NumberInduction
<1>9. Made(f[1], 1)
  <2>1. k \in I /\ 1 + k >= k
        BY <1>8
  <2> QED BY <1>1, <2>1
<1>10. PICK X : X = f[1]
       OBVIOUS
<1>11. /\ X = [j \in 1..n |-> X[j]] /\ {X[j] : j \in 1..n} = Entries(Arrivals)
       /\ \A j, l \in 1..n : X[j] = X[l] => j = l
       /\ \A j \in 2..n : j \div 2 >= 1 => Before(X[j \div 2], X[j])
       BY <1>9, <1>10 DEF Made
<1>12. X \in Seq(Events) /\ Len(X) = n
  <2>1. \A j \in 1..n : X[j] \in Events
        BY <1>11, ArrivalsSingle
  <2>2. X \in [1..n -> Events]
        BY <1>11, <2>1
  <2> QED BY <1>0, <2>2
<1>13. Entries(X) = Entries(Arrivals)
       BY <1>11, <1>12 DEF Entries
<1>14. Heap(X)
  <2>1. ASSUME NEW j \in 2..n PROVE Before(X[j \div 2], X[j])
    <3>1. j \div 2 >= 1
          BY <1>0, Halves
    <3> QED BY <1>11, <3>1
  <2>2. Single(Entries(X))
        BY <1>13, ArrivalsSingle
  <2> QED BY <1>11, <1>12, <2>1, <2>2 DEF Heap
<1> QED BY <1>2, <1>10, <1>13, <1>14

-----------------------------------------------------------------------------
(* The loop of schedule, between two events *)

Queued(Q) == {Q[k] : k \in 1..Len(Q)}
Pending(H) == {e.p : e \in Entries(H)}
Gone(x) == {x[i].p : i \in 1..Len(x)}

(* Every process is in one place: an event will move it, or it is ready    *)
(* and once in the queue, or it has exited.                                *)
Placed(H, Q, gone) ==
    /\ Heap(H) /\ Q \in Seq(Processes)
    /\ \A k, l \in 1..Len(Q) : Q[k] = Q[l] => k = l
    /\ Processes = Pending(H) \cup Queued(Q) \cup gone
    /\ Pending(H) \cap Queued(Q) = {}
    /\ gone \cap (Pending(H) \cup Queued(Q)) = {}

(* At time t the k-th of the queue has been ready for at most the quanta   *)
(* of those that can have run before it.                                   *)
Timely(Q, from, t, q) == \A k \in 1..Len(Q) : t - from[Q[k]] <= (n - k) * q

(* The event that ends the time on the CPU is that of the process that     *)
(* runs, and the queue is still in time when it comes.                     *)
Loop(H, Q, r, rem, from, t, gone, q) ==
    /\ Placed(H, Q, gone)
    /\ rem \in [Processes -> Nat] /\ from \in [Processes -> Nat] /\ t \in Nat
    /\ r \in 0..n /\ (Q # <<>> => r # 0)
    /\ \A e \in Entries(H) : e.time >= t /\ (e.type \notin Joins <=> e.p = r)
    /\ r # 0 => \E e \in Entries(H) : e.p = r
    /\ \A e \in Entries(H) : e.p = r => e.time - t <= q /\ Timely(Q, from, e.time, q)

(* Everybody fits into the queue, and nobody who is elsewhere is in it.    *)
LEMMA QueueFits ==
    ASSUME NEW Q \in Seq(Processes), \A k, l \in 1..Len(Q) : Q[k] = Q[l] => k = l
    PROVE  /\ n \in Nat \ {0} /\ Len(Q) \in 0..n
           /\ \A p \in Processes \ Queued(Q) : Len(Q) <= n - 1
<1>1. n \in Nat \ {0} /\ Processes = 1..n
      BY SchedulerAssumption DEF SchedulerAssumption, Processes
<1>2. PICK c \in Nat : c = Len(Q)
      BY LenProperties
<1> DEFINE f == [k \in 1..c |-> Q[k]]
<1>3. \A k \in 1..c : Q[k] \in Queued(Q) /\ Q[k] \in Processes
      BY <1>2, ElementOfSeq DEF Queued
<1>4. /\ IsFiniteSet(Processes) /\ Cardinality(Processes) = n
      /\ IsFiniteSet(1..c) /\ Cardinality(1..c) = c
  <2>1. 1 \in Int /\ n \in Int /\ c \in Int /\ n >= 1
        BY <1>1
  <2>2. /\ IsFiniteSet(1..n) /\ Cardinality(1..n) = IF 1 > n THEN 0 ELSE n - 1 + 1
        BY <2>1, FS_Interval
  <2>3. /\ IsFiniteSet(1..c) /\ Cardinality(1..c) = IF 1 > c THEN 0 ELSE c - 1 + 1
        BY <2>1, FS_Interval
  <2>4. (IF 1 > n THEN 0 ELSE n - 1 + 1) = n /\ (IF 1 > c THEN 0 ELSE c - 1 + 1) = c
        BY <1>1
  <2> QED BY <1>1, <2>2, <2>3, <2>4
<1>5. c <= n
  <2>1. f \in Injection(1..c, Processes)
        BY <1>2, <1>3 DEF Injection, IsInjective
  <2> HIDE DEF f
  <2>2. Cardinality(1..c) <= Cardinality(Processes)
        BY <1>4, <2>1, FS_Injection
  <2> QED BY <1>4, <2>2
<1>6. ASSUME NEW p \in Processes \ Queued(Q) PROVE c <= n - 1
  <2>1. PICK T : T = Processes \ {p}
        OBVIOUS
  <2>2. IsFiniteSet(T) /\ Cardinality(T) = n - 1
    <3>1. /\ IsFiniteSet(Processes \ {p})
          /\ Cardinality(Processes \ {p})
               = IF p \in Processes THEN Cardinality(Processes) - 1 ELSE Cardinality(Processes)
          BY <1>4, FS_RemoveElement
    <3> QED BY <1>4, <2>1, <3>1
  <2>3. f \in Injection(1..c, T)
    <3>1. \A k \in 1..c : Q[k] \in T
          BY <1>3, <2>1
    <3> QED BY <1>2, <3>1 DEF Injection, IsInjective
  <2> HIDE DEF f
  <2>4. Cardinality(1..c) <= Cardinality(T)
        BY <2>2, <2>3, FS_Injection
  <2> QED BY <1>4, <2>2, <2>4
<1> QED BY <1>1, <1>2, <1>5, <1>6

(* One turn is a quantum. *)
LEMMA Turns ==
    \A q \in Nat, k \in Nat : k * q >= 0 /\ (k + 1) * q = k * q + q
<1> SUFFICES ASSUME NEW q \in Nat, NEW k \in Nat
             PROVE  k * q >= 0 /\ (k + 1) * q = k * q + q
    OBVIOUS
<1> QED OBVIOUS

(* The queue with one more. *)
LEMMA Appended ==
    ASSUME NEW Q \in Seq(Processes), NEW p \in Processes \ Queued(Q),
           \A k, l \in 1..Len(Q) : Q[k] = Q[l] => k = l
    PROVE  /\ Append(Q, p) \in Seq(Processes) /\ Append(Q, p) # <<>>
           /\ Len(Append(Q, p)) = Len(Q) + 1 /\ Len(Q) \in Nat
           /\ \A k \in 1..Len(Q) : Append(Q, p)[k] = Q[k]
           /\ Append(Q, p)[Len(Q) + 1] = p
           /\ \A k, l \in 1..Len(Append(Q, p)) : Append(Q, p)[k] = Append(Q, p)[l] => k = l
           /\ Queued(Append(Q, p)) = Queued(Q) \cup {p}
<1>1. PICK c \in Nat : c = Len(Q)
      BY LenProperties
<1>2. PICK s : s = Append(Q, p)
      OBVIOUS
<1>3. /\ s \in Seq(Processes) /\ s # <<>> /\ Len(s) = c + 1
      /\ \A k \in 1..c : s[k] = Q[k]
      /\ s[c + 1] = p
      BY <1>1, <1>2, AppendProperties
<1>4. /\ \A k \in 1..c : Q[k] # p /\ k \in 1..c + 1
      /\ \A k \in 1..c + 1 : k = c + 1 \/ k \in 1..c
      /\ c + 1 \in 1..c + 1
      BY <1>1 DEF Queued
<1>5. \A k, l \in 1..c + 1 : s[k] = s[l] => k = l
      BY <1>1, <1>3, <1>4
<1>6. {s[k] : k \in 1..c + 1} = {Q[k] : k \in 1..c} \cup {p}
      BY <1>3, <1>4
<1> QED BY <1>1, <1>2, <1>3, <1>5, <1>6 DEF Queued

(* A process that comes to the end of the queue at time t has waited for   *)
(* nothing; the others are where they were.                                *)
LEMMA JoinedTimely ==
    ASSUME NEW Q \in Seq(Processes), NEW p \in Processes \ Queued(Q),
           \A k, l \in 1..Len(Q) : Q[k] = Q[l] => k = l,
           NEW from \in [Processes -> Nat], NEW t \in Nat, NEW u \in Nat, NEW q \in Nat,
           Timely(Q, from, u, q), \/ u - t <= 0
                                  \/ u - t <= q /\ Len(Q) + 1 <= n - 1
    PROVE  Timely(Append(Q, p), [from EXCEPT ![p] = t], u, q)
<1>1. PICK c \in Nat : c = Len(Q) /\ n \in Nat /\ c + 1 <= n
  <2>1. n \in Nat \ {0} /\ Len(Q) \in 0..n /\ Len(Q) <= n - 1
        BY QueueFits
  <2> QED BY <2>1
<1>2. PICK s : s = Append(Q, p)
      OBVIOUS
<1>3. /\ Len(s) = c + 1 /\ s[c + 1] = p /\ \A k \in 1..c : s[k] = Q[k]
      BY <1>1, <1>2, Appended
<1>4. PICK g : g = [from EXCEPT ![p] = t]
      OBVIOUS
<1>5. g[p] = t /\ \A k \in 1..c : g[Q[k]] = from[Q[k]]
  <2>1. \A k \in 1..c : Q[k] # p /\ Q[k] \in Processes
        BY <1>1, ElementOfSeq DEF Queued
  <2> QED BY <1>4, <2>1
<1>6. u - t <= (n - (c + 1)) * q
  <2>0. n - (c + 1) \in Nat
        BY <1>1
  <2>1. PICK d \in Nat : d = n - (c + 1)
        BY <2>0
  <2>2. d * q >= 0
        BY <2>1, Turns
  <2>3. CASE u - t <= 0
    <3>1. d * q \in Int
          OBVIOUS
    <3> QED BY <2>1, <2>2, <2>3, <3>1
  <2>4. CASE u - t <= q /\ c + 1 <= n - 1
    <3>1. PICK b \in Nat : d = b + 1
      <4>1. d - 1 \in Nat /\ d = (d - 1) + 1
            BY <1>1, <2>1, <2>4
      <4> QED BY <4>1
    <3>2. d * q = b * q + q /\ b * q >= 0
          BY <3>1, Turns
    <3>3. b * q \in Int
          OBVIOUS
    <3>4. PICK w \in Int : w = b * q
          BY <3>3
    <3> QED BY <2>1, <2>4, <3>2, <3>4
  <2> QED BY <1>1, <2>3, <2>4
<1>7. ASSUME NEW k \in 1..c + 1 PROVE u - g[s[k]] <= (n - k) * q
  <2>1. CASE k = c + 1
        BY <1>3, <1>5, <1>6, <2>1
  <2>2. CASE k \in 1..c
    <3>1. u - from[Q[k]] <= (n - k) * q
          BY <1>1, <2>2 DEF Timely
    <3> QED BY <1>3, <1>5, <2>2, <3>1
  <2>3. k = c + 1 \/ k \in 1..c
        OBVIOUS
  <2> QED BY <2>1, <2>2, <2>3
<1> QED BY <1>2, <1>3, <1>4, <1>7 DEF Timely

-----------------------------------------------------------------------------
(* What the operations on the heap and the queue do to Placed *)

(* The root leaves the heap for the end of the queue, ...                  *)
LEMMA MovedToQueue ==
    ASSUME NEW H, NEW Q, NEW gone, Placed(H, Q, gone), NEW G, Heap(G),
           NEW e \in Entries(H), Entries(G) = Entries(H) \ {e}
    PROVE  /\ Placed(G, Append(Q, e.p), gone) /\ e.p \in Processes \ Queued(Q)
           /\ \A x \in Entries(G) : x.p # e.p
<1>1. e \in Events /\ e.p \in Processes
  <2>1. Entries(H) \subseteq Events
        BY LenProperties, ElementOfSeq DEF Placed, Heap, Entries
  <2> QED BY <2>1 DEF Events
<1>2. PICK p : p = e.p
      OBVIOUS
<1>3. /\ Q \in Seq(Processes) /\ \A k, l \in 1..Len(Q) : Q[k] = Q[l] => k = l
      /\ p \in Processes \ Queued(Q)
      BY <1>1, <1>2 DEF Placed, Pending
<1>4. \A x \in Entries(G) : x.p # p
      BY <1>2 DEF Placed, Heap, Single
<1>5. Pending(G) = Pending(H) \ {p}
      BY <1>2, <1>4 DEF Pending
<1>6. /\ Append(Q, p) \in Seq(Processes) /\ Queued(Append(Q, p)) = Queued(Q) \cup {p}
      /\ \A k, l \in 1..Len(Append(Q, p)) : Append(Q, p)[k] = Append(Q, p)[l] => k = l
      BY <1>3, Appended
<1>7. p \in Pending(H)
      BY <1>2 DEF Pending
<1>8. PICK R : R = Append(Q, p)
      OBVIOUS
<1>9. Placed(G, R, gone)
  <2>1. /\ Processes = Pending(H) \cup Queued(Q) \cup gone
        /\ Pending(H) \cap Queued(Q) = {}
        /\ gone \cap (Pending(H) \cup Queued(Q)) = {}
        BY DEF Placed
  <2>2. Queued(R) = Queued(Q) \cup {p}
        BY <1>6, <1>8
  <2>3. /\ Processes = Pending(G) \cup Queued(R) \cup gone
        /\ Pending(G) \cap Queued(R) = {}
        /\ gone \cap (Pending(G) \cup Queued(R)) = {}
        BY <1>3, <1>5, <1>7, <2>1, <2>2
  <2> QED BY <1>6, <1>8, <2>3 DEF Placed
<1> QED BY <1>2, <1>3, <1>4, <1>8, <1>9

(* ... for good ...                                                        *)
LEMMA MovedOut ==
    ASSUME NEW H, NEW Q, NEW gone, Placed(H, Q, gone), NEW G, Heap(G),
           NEW e \in Entries(H), Entries(G) = Entries(H) \ {e}
    PROVE  Placed(G, Q, gone \cup {e.p})
<1>1. \A x \in Entries(G) : x.p # e.p
      BY DEF Placed, Heap, Single
<1>2. Pending(G) = Pending(H) \ {e.p} /\ e.p \in Pending(H)
      BY <1>1 DEF Pending
<1> QED BY <1>2 DEF Placed

(* ... or comes back with another event.                                   *)
LEMMA MovedBack ==
    ASSUME NEW H, NEW Q, NEW gone, Placed(H, Q, gone), NEW G, Heap(G),
           NEW e \in Entries(H), NEW f, f.p = e.p, Entries(G) = (Entries(H) \ {e}) \cup {f}
    PROVE  Placed(G, Q, gone)
<1>1. Pending(G) = Pending(H)
      BY DEF Pending
<1> QED BY <1>1 DEF Placed

(* The first of the queue gets an event. *)
LEMMA MovedToHeap ==
    ASSUME NEW H, NEW Q, NEW gone, Placed(H, Q, gone), Q # <<>>, NEW G, Heap(G),
           NEW f, f.p = Head(Q), Entries(G) = Entries(H) \cup {f}
    PROVE  /\ Placed(G, Tail(Q), gone) /\ Len(Tail(Q)) + 1 = Len(Q) /\ Len(Tail(Q)) \in Nat
           /\ \A k \in 1..Len(Tail(Q)) : k + 1 \in 1..Len(Q) /\ Tail(Q)[k] = Q[k + 1]
                                         /\ Tail(Q)[k] # Head(Q)
<1>1. /\ Q \in Seq(Processes) /\ \A k, l \in 1..Len(Q) : Q[k] = Q[l] => k = l
      BY DEF Placed
<1>2. PICK R : R = Tail(Q)
      OBVIOUS
<1>3. PICK c \in Nat : c = Len(R)
  <2>1. Tail(Q) \in Seq(Processes)
        BY <1>1, HeadTailProperties
  <2> QED BY <1>2, <2>1, LenProperties
<1>4. PICK d : d = c + 1
      OBVIOUS
<1>5. /\ R \in Seq(Processes) /\ Len(Q) = d /\ \A k \in 1..c : R[k] = Q[k + 1]
      /\ Head(Q) = Q[1]
  <2>1. /\ Tail(Q) \in Seq(Processes) /\ Len(Tail(Q)) = Len(Q) - 1
        /\ \A k \in 1..Len(Tail(Q)) : Tail(Q)[k] = Q[k + 1]
        BY <1>1, HeadTailProperties
  <2>2. Len(Q) \in Nat
        BY <1>1, LenProperties
  <2>3. Head(Q) = Q[1]
        BY <1>1
  <2> QED BY <1>2, <1>3, <1>4, <2>1, <2>2, <2>3
<1>6. /\ \A k \in 1..c : k + 1 \in 1..d /\ k + 1 # 1
      /\ 1 \in 1..d
      /\ \A k \in 1..d : k = 1 \/ \E j \in 1..c : k = j + 1
  <2>1. \A k \in 1..d : k # 1 => k - 1 \in 1..c /\ k = (k - 1) + 1
        BY <1>4
  <2> QED BY <1>4, <2>1
<1>7. \A k \in 1..c : R[k] # Head(Q)
      BY <1>1, <1>5, <1>6
<1>8. \A k, l \in 1..c : R[k] = R[l] => k = l
  <2>1. \A k, l \in 1..c : R[k] = R[l] => k + 1 = l + 1
        BY <1>1, <1>5, <1>6
  <2>2. \A k, l \in 1..c : k + 1 = l + 1 => k = l
        OBVIOUS
  <2> QED BY <2>1, <2>2
<1>9. Queued(Q) = Queued(R) \cup {Head(Q)} /\ Head(Q) \notin Queued(R)
  <2>1. Queued(R) = {R[k] : k \in 1..c} /\ Queued(Q) = {Q[k] : k \in 1..d}
        BY <1>3, <1>5 DEF Queued
  <2>2. {Q[k] : k \in 1..d} = {R[k] : k \in 1..c} \cup {Q[1]}
    <3>1. \A k \in 1..d : k # 1 => \E j \in 1..c : Q[k] = R[j]
      <4> SUFFICES ASSUME NEW k \in 1..d, k # 1 PROVE \E j \in 1..c : Q[k] = R[j]
          OBVIOUS
      <4>1. PICK j \in 1..c : k = j + 1
            BY <1>6
      <4> QED BY <1>5, <4>1
    <3>2. \A k \in 1..c : \E j \in 1..d : R[k] = Q[j]
          BY <1>5, <1>6
    <3> QED BY <1>6, <3>1, <3>2
  <2> QED BY <1>5, <1>7, <2>1, <2>2
<1>10. Pending(G) = Pending(H) \cup {Head(Q)}
       BY DEF Pending
<1>11. Placed(G, R, gone)
  <2>1. /\ Processes = Pending(H) \cup Queued(Q) \cup gone
        /\ Pending(H) \cap Queued(Q) = {}
        /\ gone \cap (Pending(H) \cup Queued(Q)) = {}
        BY DEF Placed
  <2>2. /\ Processes = Pending(G) \cup Queued(R) \cup gone
        /\ Pending(G) \cap Queued(R) = {}
        /\ gone \cap (Pending(G) \cup Queued(R)) = {}
        BY <1>9, <1>10, <2>1
  <2>3. \A k, l \in 1..Len(R) : R[k] = R[l] => k = l
        BY <1>3, <1>8
  <2> QED BY <1>5, <2>2, <2>3 DEF Placed
<1> QED BY <1>2, <1>3, <1>4, <1>5, <1>6, <1>7, <1>11

-----------------------------------------------------------------------------
(* The invariant *)

(* The end of an iteration, with the heap as the set of its events. *)
Turn(E, Q, free, rem, from, t, q) ==
    IF free /\ Q # <<>>
    THEN LET x == Head(Q)
             run == IF rem[x] <= q THEN rem[x] ELSE q
         IN /\ Entries(EQ') = E \cup {[time |-> t + run, p |-> x,
                                      type |-> IF run = rem[x] THEN "end" ELSE "timeout"]}
            /\ RQ' = Tail(Q) /\ running' = x
            /\ rbt' = [rem EXCEPT ![x] = @ - run]
            /\ wait' = [wait EXCEPT ![x] = @ + t - from[x]]
            /\ since' = [from EXCEPT ![x] = t]
    ELSE /\ Entries(EQ') = E /\ RQ' = Q /\ running' = IF free THEN 0 ELSE running
         /\ rbt' = rem /\ since' = from /\ wait' = wait

(* When the CPU is free the first of the queue runs. *)
LEMMA Dispatched ==
    ASSUME version \in {"student", "instructor"}, NEW q \in Nat, q = quantum,
           NEW H, NEW Q, NEW gone, Placed(H, Q, gone), NEW t \in Nat,
           NEW rem \in [Processes -> Nat], NEW from \in [Processes -> Nat],
           \A e \in Entries(H) : e.time >= t /\ e.type \in Joins,
           Timely(Q, from, t, q), Dispatch(t, H, Q, TRUE, rem, from)
    PROVE  /\ Loop(EQ', RQ', running', rbt', since', t, gone, q)
           /\ Turn(Entries(H), Q, TRUE, rem, from, t, q)
<1>1. n \in Nat \ {0} /\ Processes = 1..n
      BY SchedulerAssumption DEF SchedulerAssumption, Processes
<1>2. \A e \in Entries(H) : e \in Events /\ e.p \in Processes /\ e.p # 0
  <2>1. Entries(H) \subseteq Events
        BY LenProperties, ElementOfSeq DEF Placed, Heap, Entries
  <2> QED BY <1>1, <2>1 DEF Events
<1>3. CASE Q = <<>>
  <2>1. EQ' = H /\ RQ' = Q /\ running' = 0 /\ rbt' = rem /\ since' = from
        BY <1>3 DEF Dispatch
  <2>2. Loop(H, Q, 0, rem, from, t, gone, q)
        BY <1>1, <1>2, <1>3 DEF Loop
  <2>3. Turn(Entries(H), Q, TRUE, rem, from, t, q)
        BY <1>3, <2>1 DEF Dispatch, Turn
  <2> QED BY <2>1, <2>2, <2>3
<1>4. CASE Q # <<>>
  <2>1. PICK x \in Processes : x = Head(Q) /\ x \in Queued(Q) /\ x # 0
    <3>1. Q \in Seq(Processes)
          BY DEF Placed
    <3>2. Head(Q) \in Processes
          BY <1>4, <3>1, HeadTailProperties
    <3>3. Head(Q) = Q[1] /\ 1 \in 1..Len(Q)
          BY <1>4, <3>1, EmptySeq, LenProperties
    <3> QED BY <1>1, <3>2, <3>3 DEF Queued
  <2>2. PICK r : r = IF rem[x] <= quantum THEN rem[x] ELSE quantum
        OBVIOUS
  <2>3. r \in Nat /\ r <= q /\ r <= rem[x] /\ rem[x] \in Nat
        BY <2>2
  <2>4. PICK f : f = [time |-> t + r, p |-> x, type |-> IF r = rem[x] THEN "end" ELSE "timeout"]
        OBVIOUS
  <2>5. /\ EQ' = push_event(H, f) /\ RQ' = Tail(Q) /\ running' = x
        /\ rbt' = [rem EXCEPT ![x] = @ - r] /\ since' = [from EXCEPT ![x] = t]
        BY <1>4, <2>1, <2>2, <2>4 DEF Dispatch
  <2>6. /\ f \in Events /\ f.time = t + r /\ f.p = x /\ f.type \notin Joins
        BY <2>1, <2>3, <2>4 DEF Events, Kinds, Joins
  <2>7. \A e \in Entries(H) : e.p # x
        BY <2>1 DEF Placed, Pending
  <2>8. Single(Entries(H) \cup {f})
    <3>1. Single(Entries(H))
          BY DEF Placed, Heap
    <3> QED BY <2>6, <2>7, <3>1 DEF Single
  <2>9. PICK G : G = push_event(H, f) /\ Heap(G) /\ Entries(G) = Entries(H) \cup {f}
    <3>1. Heap(H)
          BY DEF Placed
    <3>2. \A e \in Entries(H) : e.p # f.p
          BY <2>6, <2>7
    <3> QED BY <2>6, <2>8, <3>1, <3>2, EventPushed
  <2>10. PICK R : R = Tail(Q)
         OBVIOUS
  <2>11. PICK c \in Nat : c = Len(R)
    <3>1. R \in Seq(Processes)
          BY <1>4, <2>10, HeadTailProperties DEF Placed
    <3> QED BY <3>1, LenProperties
  <2>12. /\ Placed(G, R, gone) /\ Len(Q) = c + 1
         /\ \A k \in 1..c : k + 1 \in 1..c + 1 /\ R[k] = Q[k + 1] /\ R[k] # x
         BY <1>4, <2>1, <2>6, <2>9, <2>10, <2>11, MovedToHeap
  <2>13. /\ c + 1 <= n
         /\ \A k \in 1..c : R[k] \in Processes
    <3>1. Q \in Seq(Processes) /\ \A k, l \in 1..Len(Q) : Q[k] = Q[l] => k = l
          BY DEF Placed
    <3>2. Len(Q) \in 0..n
          BY <3>1, QueueFits
    <3>3. R \in Seq(Processes)
          BY <2>12 DEF Placed
    <3>4. \A k \in 1..c : R[k] \in Processes
          BY <2>11, <3>3, ElementOfSeq
    <3>5. c + 1 <= n
          BY <1>1, <2>12, <3>2
    <3> QED BY <3>4, <3>5
  <2>14. PICK g : g = [from EXCEPT ![x] = t]
         OBVIOUS
  <2>15. /\ g \in [Processes -> Nat] /\ \A k \in 1..c : g[R[k]] = from[R[k]]
         BY <2>12, <2>13, <2>14
  <2>16. Timely(R, g, f.time, q)
    <3> SUFFICES ASSUME NEW k \in 1..c PROVE f.time - g[R[k]] <= (n - k) * q
        BY <2>11 DEF Timely
    <3>1. PICK b \in Nat : b = n - (k + 1) /\ n - k = b + 1
      <4>1. n - (k + 1) \in Nat /\ n - k = (n - (k + 1)) + 1
            BY <1>1, <2>13
      <4> QED BY <4>1
    <3>2. PICK w \in Nat : w = from[R[k]]
          BY <2>13
    <3>3. t - w <= b * q
          BY <2>12, <3>1, <3>2 DEF Timely
    <3>4. (b + 1) * q = b * q + q
          BY Turns
    <3>5. PICK z \in Int : z = b * q
          OBVIOUS
    <3>6. t + r - w <= z + q
          BY <2>3, <3>3, <3>5
    <3>7. f.time - g[R[k]] = t + r - w
      <4>1. g[R[k]] = w
            BY <2>15, <3>2
      <4> QED BY <2>3, <2>6, <4>1
    <3>8. (n - k) * q = z + q
          BY <3>1, <3>4, <3>5
    <3> QED BY <3>6, <3>7, <3>8
  <2>17. [rem EXCEPT ![x] = @ - r] \in [Processes -> Nat]
    <3>1. rem[x] - r \in Nat
          BY <2>3
    <3> QED BY <3>1
  <2>18. /\ \A e \in Entries(G) : e.time >= t /\ (e.type \notin Joins <=> e.p = x)
         /\ \E e \in Entries(G) : e.p = x
         /\ \A e \in Entries(G) : e.p = x => e = f
    <3>1. f.time >= t
          BY <2>3, <2>6
    <3> QED BY <2>6, <2>7, <2>9, <3>1
  <2>19. f.time - t <= q
         BY <2>3, <2>6
  <2>20. x \in 0..n
         BY <1>1, <2>1
  <2>21. Loop(G, R, x, [rem EXCEPT ![x] = @ - r], g, t, gone, q)
         BY <2>1, <2>12, <2>15, <2>16, <2>17, <2>18, <2>19, <2>20 DEF Loop
  <2>22. Turn(Entries(H), Q, TRUE, rem, from, t, q)
    <3>1. wait' = [wait EXCEPT ![x] = @ + t - from[x]]
          BY <1>4, <2>1 DEF Dispatch
    <3>2. Entries(EQ') = Entries(H) \cup {f}
          BY <2>5, <2>9
    <3> QED BY <1>4, <2>1, <2>2, <2>4, <2>5, <3>1, <3>2 DEF Turn
  <2> QED BY <2>5, <2>9, <2>10, <2>14, <2>21, <2>22
<1> QED BY <1>3, <1>4

Running == Loop(EQ, RQ, running, rbt, since, now, Gone(exits), quantum)

SchedulerInv ==
    /\ J \in Inputs /\ round \in 1..Len(Quanta)
    /\ phase = "run" =>
          /\ version \in {"student", "instructor"}
          /\ \A p \in Processes : bno[p] \in 1..Len(J[p].CPUB)
          /\ bno = [p \in Processes |-> bno[p]]
          /\ \E S : exits \in Seq(S)
          /\ Running

(* The loop's state is read with the order of the program that runs. *)
LEMMA RunningOn ==
    ASSUME version' = version, round' = round,
           Loop(EQ', RQ', running', rbt', since', now', Gone(exits'), quantum)
    PROVE  Running'
<1>1. \A a, b : Before(a, b)' = Before(a, b)
      BY DEF Before
<1>2. Heap(EQ')
      BY DEF Loop, Placed
<1>3. Heap(EQ)'
      BY <1>2 DEF Heap, Entries, Before, Single
<1>4. Placed(EQ, RQ, Gone(exits))'
      BY <1>3 DEF Loop, Placed, Pending, Entries, Queued, Gone
<1>5. quantum' = quantum
      BY DEF quantum
<1> QED BY <1>4, <1>5 DEF Running, Loop, Timely, Entries

-----------------------------------------------------------------------------
(* The steps *)

LEMMA QuantumNat ==
    ASSUME round \in 1..Len(Quanta)
    PROVE  quantum \in Nat
<1>1. Quanta \in Seq(Nat \ {0})
      BY SchedulerAssumption DEF SchedulerAssumption
<1>2. Quanta[round] \in Nat \ {0}
      BY <1>1, ElementOfSeq
<1> QED BY <1>2 DEF quantum

(* What taking the next event leaves. *)
LEMMA Taken ==
    ASSUME SchedulerInv, NEW types, Take(types)
    PROVE  \E e, G :
              /\ e \in Events /\ e = EQ[1] /\ G = pop_event(EQ) /\ e.type \in types
              /\ e \in Entries(EQ) /\ Heap(G) /\ Entries(G) = Entries(EQ) \ {e}
              /\ \A x \in Entries(G) : x \in Events /\ x.time >= e.time /\ x.p # e.p
<1>1. /\ version \in {"student", "instructor"} /\ Heap(EQ) /\ EQ # <<>> /\ EQ[1].type \in types
      BY DEF Take, SchedulerInv, Running, Loop, Placed
<1>2. PICK e : e = EQ[1]
      OBVIOUS
<1>3. PICK G : G = pop_event(EQ)
      OBVIOUS
<1>4. Heap(G) /\ Entries(G) = Entries(EQ) \ {e} /\ e \in Entries(EQ)
      BY <1>1, <1>2, <1>3, EventPopped
<1>5. Entries(EQ) \subseteq Events /\ Single(Entries(EQ))
      BY <1>1, LenProperties, ElementOfSeq DEF Heap, Entries
<1>6. ASSUME NEW x \in Entries(G) PROVE x \in Events /\ x.time >= e.time /\ x.p # e.p
  <2>1. PICK j \in 1..Len(EQ) : x = EQ[j]
        BY <1>4 DEF Entries
  <2>2. e.time <= x.time
        BY <1>1, <1>2, <2>1, RootFirst
  <2>3. x.time \in Nat /\ e.time \in Nat
        BY <1>4, <1>5 DEF Events
  <2> QED BY <1>4, <1>5, <2>2, <2>3 DEF Single
<1> QED BY <1>1, <1>2, <1>3, <1>4, <1>5, <1>6

(* What the events say of the process that runs, and how the queue is.     *)
LEMMA LoopFacts ==
    ASSUME SchedulerInv, phase = "run"
    PROVE  /\ version \in {"student", "instructor"} /\ quantum \in Nat
           /\ Placed(EQ, RQ, Gone(exits)) /\ Heap(EQ) /\ RQ \in Seq(Processes)
           /\ \A k, l \in 1..Len(RQ) : RQ[k] = RQ[l] => k = l
           /\ rbt \in [Processes -> Nat] /\ since \in [Processes -> Nat] /\ now \in Nat
           /\ running \in 0..n /\ (RQ # <<>> => running # 0)
           /\ \A e \in Entries(EQ) : e.time >= now /\ (e.type \notin Joins <=> e.p = running)
           /\ \A e \in Entries(EQ) :
                 e.p = running => e.time - now <= quantum /\ Timely(RQ, since, e.time, quantum)
<1>1. quantum \in Nat
      BY QuantumNat DEF SchedulerInv
<1> QED BY <1>1 DEF SchedulerInv, Running, Loop, Placed

(* Beyond the loop's state an event moves little. *)
LEMMA Stepped ==
    ASSUME SchedulerInv, phase = "run", NEW types, Take(types), Running',
           \A p \in Processes : bno'[p] \in 1..Len(J[p].CPUB),
           bno' = [p \in Processes |-> bno'[p]], \E S : exits' \in Seq(S)
    PROVE  SchedulerInv'
BY DEF SchedulerInv, Take

(* The steps, with the heap as the set of its events. *)
JoinTurn(e) == Turn(Entries(EQ) \ {e}, Append(RQ, e.p), running = 0, rbt,
                  [since EXCEPT ![e.p] = e.time], e.time, quantum)
TimeOutTurn(e) == Turn(Entries(EQ) \ {e}, Append(RQ, e.p), TRUE, rbt,
                     [since EXCEPT ![e.p] = e.time], e.time, quantum)
IOTurn(e, back) == Turn((Entries(EQ) \ {e}) \cup {back}, RQ, TRUE,
                           [rbt EXCEPT ![e.p] = J[e.p].CPUB[bno[e.p] + 1]],
                           [since EXCEPT ![e.p] = e.time], e.time, quantum)
ExitTurn(e) == Turn(Entries(EQ) \ {e}, RQ, TRUE, rbt,
                  [since EXCEPT ![e.p] = e.time], e.time, quantum)

LEMMA JoinKeeps ==
    ASSUME SchedulerInv, Join
    PROVE  SchedulerInv' /\ \E e \in Entries(EQ) : e = EQ[1] /\ e.type \in Joins /\ JoinTurn(e)
<1>0. Take(Joins) /\ phase = "run" /\ exits' = exits /\ bno' = bno
      /\ version' = version /\ round' = round /\ now' = EQ[1].time
      BY DEF Join, Take
<1>1. PICK q \in Nat : q = quantum
      BY <1>0, LoopFacts
<1>2. PICK e, G :
              /\ e \in Events /\ e = EQ[1] /\ G = pop_event(EQ) /\ e.type \in Joins
              /\ e \in Entries(EQ) /\ Heap(G) /\ Entries(G) = Entries(EQ) \ {e}
              /\ \A x \in Entries(G) : x \in Events /\ x.time >= e.time /\ x.p # e.p
      BY <1>0, Taken
<1>3. PICK p, t : p = e.p /\ t = e.time
      OBVIOUS
<1>4. /\ t \in Nat /\ t >= now /\ p \in Processes /\ now \in Nat /\ p # running
      BY <1>0, <1>2, <1>3, LoopFacts DEF Events
<1>5. PICK gone : gone = Gone(exits)
      OBVIOUS
<1>6. PICK R : R = Append(RQ, p)
      OBVIOUS
<1>7. /\ Placed(G, R, gone) /\ p \in Processes \ Queued(RQ)
      BY <1>0, <1>2, <1>3, <1>5, <1>6, LoopFacts, MovedToQueue
<1>8. PICK g : g = [since EXCEPT ![p] = t]
      OBVIOUS
<1>9. g \in [Processes -> Nat]
      BY <1>0, <1>4, <1>8, LoopFacts
<1>10. Dispatch(t, G, R, running = 0, rbt, g)
       BY <1>2, <1>3, <1>6, <1>8 DEF Join
<1>11. n \in Nat \ {0} /\ Processes = 1..n
       BY SchedulerAssumption DEF SchedulerAssumption, Processes
<1>12. ASSUME running = 0
       PROVE  /\ Loop(EQ', RQ', running', rbt', since', t, gone, q)
              /\ Turn(Entries(G), R, running = 0, rbt, g, t, q)
  <2>1. RQ = <<>>
        BY <1>0, <1>12, LoopFacts
  <2>2. Timely(R, g, t, q)
    <3>1. Timely(RQ, since, t, q)
          BY <2>1 DEF Timely
    <3>2. t - t <= 0
          BY <1>4
    <3>3. /\ RQ \in Seq(Processes) /\ \A k, l \in 1..Len(RQ) : RQ[k] = RQ[l] => k = l
          /\ since \in [Processes -> Nat]
          BY <1>0, LoopFacts
    <3> QED BY <1>4, <1>6, <1>7, <1>8, <3>1, <3>2, <3>3, JoinedTimely
  <2>3. \A x \in Entries(G) : x.time >= t /\ x.type \in Joins
    <3>1. ASSUME NEW x \in Entries(G) PROVE x.type \in Joins
      <4>1. x \in Entries(EQ) /\ x.p # 0
            BY <1>2, <1>11 DEF Events
      <4> QED BY <1>0, <1>12, <4>1, LoopFacts
    <3> QED BY <1>2, <1>3, <3>1
  <2>4. Dispatch(t, G, R, TRUE, rbt, g)
        BY <1>10, <1>12 DEF Dispatch
  <2>5. /\ Loop(EQ', RQ', running', rbt', since', t, gone, q)
        /\ Turn(Entries(G), R, TRUE, rbt, g, t, q)
    <3>1. version \in {"student", "instructor"} /\ rbt \in [Processes -> Nat]
          BY <1>0, LoopFacts
    <3> QED BY <1>1, <1>4, <1>7, <1>9, <2>2, <2>3, <2>4, <3>1, Dispatched
  <2>6. Turn(Entries(G), R, running = 0, rbt, g, t, q)
        BY <1>12, <2>5 DEF Turn
  <2> QED BY <2>5, <2>6
<1>13. ASSUME running # 0
       PROVE  /\ Loop(EQ', RQ', running', rbt', since', t, gone, q)
              /\ Turn(Entries(G), R, running = 0, rbt, g, t, q)
  <2>1. /\ EQ' = G /\ RQ' = R /\ running' = running /\ rbt' = rbt /\ since' = g
        BY <1>10, <1>13 DEF Dispatch
  <2>2. PICK f \in Entries(EQ) : f.p = running
        BY <1>0, <1>13 DEF SchedulerInv, Running, Loop
  <2>3. f \in Entries(G) /\ f \in Events /\ f.time \in Nat /\ f.time >= t
        BY <1>2, <1>3, <1>4, <2>2 DEF Events
  <2>4. f.time - now <= q /\ Timely(RQ, since, f.time, q)
        BY <1>0, <1>1, <2>2, LoopFacts
  <2>5. f.time - t <= q
        BY <1>4, <2>3, <2>4
  <2>6. running \in Processes \ Queued(R)
    <3>1. running \in Processes
          BY <2>2, <2>3 DEF Events
    <3>2. running \in Pending(G)
          BY <2>2, <2>3 DEF Pending
    <3> QED BY <1>7, <3>1, <3>2 DEF Placed
  <2>7. Len(RQ) + 1 <= n - 1
    <3>1. R \in Seq(Processes) /\ \A k, l \in 1..Len(R) : R[k] = R[l] => k = l
          BY <1>7 DEF Placed
    <3>2. Len(R) <= n - 1
          BY <2>6, <3>1, QueueFits
    <3>3. Len(R) = Len(RQ) + 1
          BY <1>0, <1>6, <1>7, LoopFacts, Appended
    <3> QED BY <3>2, <3>3
  <2>8. Timely(R, g, f.time, q)
    <3>1. /\ RQ \in Seq(Processes) /\ \A k, l \in 1..Len(RQ) : RQ[k] = RQ[l] => k = l
          /\ since \in [Processes -> Nat]
          BY <1>0, LoopFacts
    <3> QED BY <1>4, <1>6, <1>7, <1>8, <2>3, <2>4, <2>5, <2>7, <3>1, JoinedTimely
  <2>9. \A x \in Entries(G) : x.p = running => x = f
        BY <1>7, <2>2, <2>3 DEF Placed, Heap, Single
  <2>10. /\ \A x \in Entries(G) : x.time >= t /\ (x.type \notin Joins <=> x.p = running)
         /\ running \in 0..n /\ rbt \in [Processes -> Nat]
         BY <1>0, <1>2, <1>3, LoopFacts
  <2>11. Loop(G, R, running, rbt, g, t, gone, q)
         BY <1>4, <1>7, <1>9, <1>13, <2>2, <2>3, <2>5, <2>8, <2>9, <2>10 DEF Loop
  <2>12. Loop(EQ', RQ', running', rbt', since', t, gone, q)
         BY <2>1, <2>11
  <2>13. Turn(Entries(G), R, running = 0, rbt, g, t, q)
         BY <1>10, <1>13, <2>1 DEF Turn, Dispatch
  <2> QED BY <2>12, <2>13
<1>14. Loop(EQ', RQ', running', rbt', since', now', Gone(exits'), quantum)
  <2>1. Loop(EQ', RQ', running', rbt', since', t, gone, q)
        BY <1>12, <1>13
  <2> QED BY <1>0, <1>1, <1>2, <1>3, <1>5, <2>1
<1>15. Running'
       BY <1>0, <1>14, RunningOn
<1>16. /\ \A c \in Processes : bno'[c] \in 1..Len(J[c].CPUB)
       /\ bno' = [c \in Processes |-> bno'[c]]
       /\ \E S : exits' \in Seq(S)
       BY <1>0 DEF SchedulerInv
<1>17. JoinTurn(e)
  <2>1. Turn(Entries(G), R, running = 0, rbt, g, t, q)
        BY <1>12, <1>13
  <2> QED BY <1>1, <1>2, <1>3, <1>6, <1>8, <2>1 DEF JoinTurn
<1>18. SchedulerInv'
       BY <1>0, <1>15, <1>16, Stepped
<1> QED BY <1>2, <1>17, <1>18

(* The time on the CPU is over: all other events are joins, and nobody has *)
(* waited too long.                                                        *)
LEMMA Ended ==
    ASSUME SchedulerInv, phase = "run",
           NEW e, e \in Events, e \in Entries(EQ), e.type \notin Joins,
           NEW G, Entries(G) = Entries(EQ) \ {e},
           \A x \in Entries(G) : x \in Events /\ x.time >= e.time /\ x.p # e.p
    PROVE  /\ \A x \in Entries(G) : x.time >= e.time /\ x.type \in Joins
           /\ Timely(RQ, since, e.time, quantum)
<1>1. e.p = running
      BY LoopFacts
<1> QED BY <1>1, LoopFacts

LEMMA TimeOutKeeps ==
    ASSUME SchedulerInv, TimeOut
    PROVE  SchedulerInv' /\ \E e \in Entries(EQ) : e = EQ[1] /\ e.type = "timeout" /\ TimeOutTurn(e)
<1>0. Take({"timeout"}) /\ phase = "run" /\ exits' = exits /\ bno' = bno
      /\ version' = version /\ round' = round /\ now' = EQ[1].time
      BY DEF TimeOut, Take
<1>1. PICK q \in Nat : q = quantum
      BY <1>0, LoopFacts
<1>2. PICK e, G :
              /\ e \in Events /\ e = EQ[1] /\ G = pop_event(EQ) /\ e.type \in {"timeout"}
              /\ e \in Entries(EQ) /\ Heap(G) /\ Entries(G) = Entries(EQ) \ {e}
              /\ \A x \in Entries(G) : x \in Events /\ x.time >= e.time /\ x.p # e.p
      BY <1>0, Taken
<1>3. PICK p, t : p = e.p /\ t = e.time
      OBVIOUS
<1>4. /\ t \in Nat /\ p \in Processes /\ e.type \notin Joins
      BY <1>2, <1>3 DEF Events, Joins
<1>5. PICK gone : gone = Gone(exits)
      OBVIOUS
<1>6. PICK R : R = Append(RQ, p)
      OBVIOUS
<1>7. /\ Placed(G, R, gone) /\ p \in Processes \ Queued(RQ)
      BY <1>0, <1>2, <1>3, <1>5, <1>6, LoopFacts, MovedToQueue
<1>8. PICK g : g = [since EXCEPT ![p] = t]
      OBVIOUS
<1>9. /\ g \in [Processes -> Nat] /\ rbt \in [Processes -> Nat]
      /\ version \in {"student", "instructor"}
      BY <1>0, <1>4, <1>8, LoopFacts
<1>10. Dispatch(t, G, R, TRUE, rbt, g)
       BY <1>2, <1>3, <1>6, <1>8 DEF TimeOut
<1>11. /\ \A x \in Entries(G) : x.time >= t /\ x.type \in Joins
       /\ Timely(RQ, since, t, q)
       BY <1>0, <1>1, <1>2, <1>3, <1>4, Ended
<1>12. Timely(R, g, t, q)
  <2>1. t - t <= 0
        BY <1>4
  <2>2. /\ RQ \in Seq(Processes) /\ \A k, l \in 1..Len(RQ) : RQ[k] = RQ[l] => k = l
        /\ since \in [Processes -> Nat]
        BY <1>0, LoopFacts
  <2> QED BY <1>4, <1>6, <1>7, <1>8, <1>11, <2>1, <2>2, JoinedTimely
<1>13. /\ Loop(EQ', RQ', running', rbt', since', t, gone, q)
       /\ Turn(Entries(G), R, TRUE, rbt, g, t, q)
       BY <1>1, <1>4, <1>7, <1>9, <1>10, <1>11, <1>12, Dispatched
<1>14. Loop(EQ', RQ', running', rbt', since', now', Gone(exits'), quantum)
       BY <1>0, <1>1, <1>2, <1>3, <1>5, <1>13
<1>15. Running'
       BY <1>0, <1>14, RunningOn
<1>16. /\ \A c \in Processes : bno'[c] \in 1..Len(J[c].CPUB)
       /\ bno' = [c \in Processes |-> bno'[c]]
       /\ \E S : exits' \in Seq(S)
       BY <1>0 DEF SchedulerInv
<1>17. TimeOutTurn(e)
       BY <1>1, <1>2, <1>3, <1>6, <1>8, <1>13 DEF TimeOutTurn
<1>18. SchedulerInv'
       BY <1>0, <1>15, <1>16, Stepped
<1> QED BY <1>2, <1>17, <1>18

(* Who is not ready has no place in the queue to keep in time. *)
LEMMA SinceElsewhere ==
    ASSUME NEW Q \in Seq(Processes), NEW from \in [Processes -> Nat],
           NEW p \in Processes \ Queued(Q), NEW t, NEW u, NEW q, Timely(Q, from, u, q)
    PROVE  Timely(Q, [from EXCEPT ![p] = t], u, q)
<1>1. \A k \in 1..Len(Q) : Q[k] \in Processes /\ Q[k] # p
      BY ElementOfSeq DEF Queued
<1>2. PICK g : g = [from EXCEPT ![p] = t]
      OBVIOUS
<1>3. \A k \in 1..Len(Q) : g[Q[k]] = from[Q[k]]
      BY <1>1, <1>2
<1>4. Timely(Q, g, u, q)
      BY <1>3 DEF Timely
<1> QED BY <1>2, <1>4

(* What proc.txt says of a process's bursts. *)
LEMMA Bursts ==
    ASSUME J \in Inputs, NEW p \in Processes
    PROVE  /\ Len(J[p].CPUB) \in Nat \ {0} /\ \A b \in 1..Len(J[p].CPUB) : J[p].CPUB[b] \in Nat
           /\ \A b \in 1..Len(J[p].CPUB) : b < Len(J[p].CPUB) => J[p].IOB[b] \in Nat
<1>1. /\ J[p].CPUB # <<>> /\ J[p].CPUB \in Seq(Nat \ {0}) /\ J[p].IOB \in Seq(Nat \ {0})
      /\ Len(J[p].IOB) = Len(J[p].CPUB) - 1
      BY SchedulerAssumption DEF SchedulerAssumption
<1>2. PICK C, I : C = J[p].CPUB /\ I = J[p].IOB
      OBVIOUS
<1>3. Len(C) \in Nat \ {0} /\ Len(I) = Len(C) - 1
      BY <1>1, <1>2, EmptySeq, LenProperties
<1>4. \A b \in 1..Len(C) : C[b] \in Nat
      BY <1>1, <1>2, ElementOfSeq
<1>5. ASSUME NEW b \in 1..Len(C), b < Len(C) PROVE I[b] \in Nat
  <2>1. b \in 1..Len(I)
        BY <1>3, <1>5
  <2> QED BY <1>1, <1>2, <2>1, ElementOfSeq
<1> QED BY <1>2, <1>3, <1>4, <1>5

LEMMA StartIOKeeps ==
    ASSUME SchedulerInv, StartIO
    PROVE  /\ SchedulerInv'
           /\ \E e \in Entries(EQ), back \in Events :
                 /\ e = EQ[1] /\ e.type = "end"
                 /\ back = [time |-> e.time + J[e.p].IOB[bno[e.p]], p |-> e.p,
                            type |-> IF version = "student" THEN "io" ELSE "arrival"]
                 /\ bno[e.p] < Len(J[e.p].CPUB) /\ bno' = [bno EXCEPT ![e.p] = @ + 1]
                 /\ IOTurn(e, back)
<1>0. Take({"end"}) /\ phase = "run" /\ exits' = exits
      /\ version' = version /\ round' = round /\ now' = EQ[1].time
      BY DEF StartIO, Take
<1>1. PICK q \in Nat : q = quantum
      BY <1>0, LoopFacts
<1>2. PICK e, G :
              /\ e \in Events /\ e = EQ[1] /\ G = pop_event(EQ) /\ e.type \in {"end"}
              /\ e \in Entries(EQ) /\ Heap(G) /\ Entries(G) = Entries(EQ) \ {e}
              /\ \A x \in Entries(G) : x \in Events /\ x.time >= e.time /\ x.p # e.p
      BY <1>0, Taken
<1>3. PICK p, t : p = e.p /\ t = e.time
      OBVIOUS
<1>4. /\ t \in Nat /\ p \in Processes /\ e.type \notin Joins
      BY <1>2, <1>3 DEF Events, Joins
<1>5. PICK gone : gone = Gone(exits)
      OBVIOUS
<1>6. /\ p \in Processes \ Queued(RQ) /\ Placed(EQ, RQ, gone)
      BY <1>0, <1>2, <1>3, <1>5, LoopFacts, MovedToQueue
<1>7. PICK back : back = [time |-> t + J[p].IOB[bno[p]], p |-> p,
                          type |-> IF version = "student" THEN "io" ELSE "arrival"]
      OBVIOUS
<1>8. PICK g, rem : /\ g = [since EXCEPT ![p] = t]
                    /\ rem = [rbt EXCEPT ![p] = J[p].CPUB[bno[p] + 1]]
      OBVIOUS
<1>9. /\ bno[p] < Len(J[p].CPUB) /\ bno' = [bno EXCEPT ![p] = @ + 1]
      /\ Dispatch(t, push_event(G, back), RQ, TRUE, rem, g)
      BY <1>2, <1>3, <1>7, <1>8 DEF StartIO
<1>10. /\ J \in Inputs /\ \A c \in Processes : bno[c] \in 1..Len(J[c].CPUB)
       /\ bno = [c \in Processes |-> bno[c]] /\ \E S : exits \in Seq(S)
       BY <1>0 DEF SchedulerInv
<1>11. /\ J[p].IOB[bno[p]] \in Nat /\ bno[p] + 1 \in 1..Len(J[p].CPUB)
       /\ J[p].CPUB[bno[p] + 1] \in Nat
  <2>1. /\ bno[p] \in 1..Len(J[p].CPUB) /\ Len(J[p].CPUB) \in Nat
        BY <1>4, <1>10, Bursts
  <2>2. bno[p] + 1 \in 1..Len(J[p].CPUB)
        BY <1>9, <2>1
  <2>3. J \in Inputs /\ p \in Processes
        BY <1>4, <1>10
  <2>4. /\ \A b \in 1..Len(J[p].CPUB) : J[p].CPUB[b] \in Nat
        /\ \A b \in 1..Len(J[p].CPUB) : b < Len(J[p].CPUB) => J[p].IOB[b] \in Nat
        BY ONLY <2>3, Bursts
  <2> QED BY <1>9, <2>1, <2>2, <2>4
<1>12. /\ g \in [Processes -> Nat] /\ rem \in [Processes -> Nat]
       /\ version \in {"student", "instructor"}
       BY <1>0, <1>4, <1>8, <1>11, LoopFacts
<1>13. back \in Events /\ back.p = p /\ back.type \in Joins /\ back.time >= t
  <2>1. PICK d \in Nat : d = J[p].IOB[bno[p]]
        BY <1>11
  <2>2. PICK y \in {"io", "arrival"} : y = IF version = "student" THEN "io" ELSE "arrival"
        OBVIOUS
  <2>3. PICK a \in Nat : a = t + d /\ a >= t
        BY <1>4
  <2>4. back = [time |-> a, p |-> p, type |-> y]
        BY <1>7, <2>1, <2>2, <2>3
  <2> QED BY <1>4, <2>3, <2>4 DEF Events, Kinds, Joins
<1>14. /\ \A x \in Entries(G) : x.time >= t /\ x.type \in Joins
       /\ Timely(RQ, since, t, q)
       BY <1>0, <1>1, <1>2, <1>3, <1>4, Ended
<1>15. PICK H : /\ H = push_event(G, back) /\ Heap(H)
                /\ Entries(H) = Entries(G) \cup {back}
  <2>1. Single(Entries(G) \cup {back})
    <3>1. Single(Entries(G))
          BY <1>2 DEF Heap
    <3> QED BY <1>2, <1>3, <1>13, <1>14, <3>1 DEF Single
  <2> QED BY <1>2, <1>3, <1>12, <1>13, <2>1, EventPushed
<1>16. Placed(H, RQ, gone)
       BY <1>2, <1>3, <1>6, <1>13, <1>15, MovedBack
<1>17. Timely(RQ, g, t, q)
  <2>1. RQ \in Seq(Processes) /\ since \in [Processes -> Nat]
        BY <1>0, LoopFacts
  <2> QED BY <1>6, <1>8, <1>14, <2>1, SinceElsewhere
<1>18. \A x \in Entries(H) : x.time >= t /\ x.type \in Joins
       BY <1>13, <1>14, <1>15
<1>19. /\ Loop(EQ', RQ', running', rbt', since', t, gone, q)
       /\ Turn(Entries(H), RQ, TRUE, rem, g, t, q)
  <2>1. Dispatch(t, H, RQ, TRUE, rem, g)
        BY <1>9, <1>15
  <2> QED BY <1>1, <1>4, <1>12, <1>16, <1>17, <1>18, <2>1, Dispatched
<1>20. Loop(EQ', RQ', running', rbt', since', now', Gone(exits'), quantum)
       BY <1>0, <1>1, <1>2, <1>3, <1>5, <1>19
<1>21. Running'
       BY <1>0, <1>20, RunningOn
<1>22. /\ \A c \in Processes : bno'[c] \in 1..Len(J[c].CPUB)
       /\ bno' = [c \in Processes |-> bno'[c]]
       /\ \E S : exits' \in Seq(S)
       BY <1>0, <1>4, <1>9, <1>10, <1>11
<1>23. IOTurn(e, back)
  <2>1. Entries(H) = (Entries(EQ) \ {e}) \cup {back}
        BY <1>2, <1>15
  <2> QED BY <1>1, <1>3, <1>8, <1>19, <2>1 DEF IOTurn
<1>24. SchedulerInv'
       BY <1>0, <1>21, <1>22, Stepped
<1> QED BY <1>2, <1>3, <1>7, <1>9, <1>13, <1>23, <1>24

LEMMA ExitKeeps ==
    ASSUME SchedulerInv, Exit
    PROVE  /\ SchedulerInv'
           /\ \E e \in Entries(EQ) : e = EQ[1] /\ e.type = "end" /\ ExitTurn(e)
<1>0. Take({"end"}) /\ phase = "run" /\ bno' = bno
      /\ version' = version /\ round' = round /\ now' = EQ[1].time
      BY DEF Exit, Take
<1>1. PICK q \in Nat : q = quantum
      BY <1>0, LoopFacts
<1>2. PICK e, G :
              /\ e \in Events /\ e = EQ[1] /\ G = pop_event(EQ) /\ e.type \in {"end"}
              /\ e \in Entries(EQ) /\ Heap(G) /\ Entries(G) = Entries(EQ) \ {e}
              /\ \A x \in Entries(G) : x \in Events /\ x.time >= e.time /\ x.p # e.p
      BY <1>0, Taken
<1>3. PICK p, t : p = e.p /\ t = e.time
      OBVIOUS
<1>4. /\ t \in Nat /\ p \in Processes /\ e.type \notin Joins
      BY <1>2, <1>3 DEF Events, Joins
<1>5. PICK gone : gone = Gone(exits)
      OBVIOUS
<1>6. /\ p \in Processes \ Queued(RQ) /\ Placed(EQ, RQ, gone)
      BY <1>0, <1>2, <1>3, <1>5, LoopFacts, MovedToQueue
<1>7. Placed(G, RQ, gone \cup {p})
      BY <1>2, <1>3, <1>6, MovedOut
<1>8. PICK g : g = [since EXCEPT ![p] = t]
      OBVIOUS
<1>9. /\ g \in [Processes -> Nat] /\ rbt \in [Processes -> Nat]
      /\ version \in {"student", "instructor"}
      BY <1>0, <1>4, <1>8, LoopFacts
<1>10. Dispatch(t, G, RQ, TRUE, rbt, g)
       BY <1>2, <1>3, <1>8 DEF Exit
<1>11. PICK x : exits' = Append(exits, x) /\ x.p = p
       BY <1>2, <1>3 DEF Exit
<1>12. /\ \A y \in Entries(G) : y.time >= t /\ y.type \in Joins
       /\ Timely(RQ, since, t, q)
       BY <1>0, <1>1, <1>2, <1>3, <1>4, Ended
<1>13. Timely(RQ, g, t, q)
  <2>1. RQ \in Seq(Processes) /\ since \in [Processes -> Nat]
        BY <1>0, LoopFacts
  <2> QED BY <1>6, <1>8, <1>12, <2>1, SinceElsewhere
<1>14. PICK out : out = gone \cup {p}
       OBVIOUS
<1>15. /\ Loop(EQ', RQ', running', rbt', since', t, out, q)
       /\ Turn(Entries(G), RQ, TRUE, rbt, g, t, q)
  <2>1. Placed(G, RQ, out)
        BY <1>7, <1>14
  <2> QED BY <1>1, <1>4, <1>9, <1>10, <1>12, <1>13, <2>1, Dispatched
<1>16. (\E S : exits' \in Seq(S)) /\ Gone(exits') = out
  <2>1. PICK S : exits \in Seq(S)
        BY <1>0 DEF SchedulerInv
  <2>2. PICK X, T : X = exits /\ T = S \cup {x}
        OBVIOUS
  <2>3. PICK c \in Nat : c = Len(X)
        BY <2>1, <2>2, LenProperties
  <2>4. X \in Seq(T)
    <3>1. \A i \in 1..c : X[i] \in T
          BY <2>1, <2>2, <2>3, ElementOfSeq
    <3>2. X = [i \in 1..c |-> X[i]]
          BY <2>1, <2>2, <2>3
    <3> QED BY <3>1, <3>2
  <2>5. PICK Y : Y = Append(X, x)
        OBVIOUS
  <2>6. /\ Y \in Seq(T) /\ Len(Y) = c + 1
        /\ \A i \in 1..c : Y[i] = X[i]
        /\ Y[c + 1] = x
    <3>1. x \in T
          BY <2>2
    <3> QED BY <2>3, <2>4, <2>5, <3>1, AppendProperties
  <2>7. Gone(Y) = Gone(X) \cup {p}
    <3>1. /\ \A i \in 1..c + 1 : i = c + 1 \/ i \in 1..c
          /\ \A i \in 1..c : i \in 1..c + 1
          /\ c + 1 \in 1..c + 1
          OBVIOUS
    <3>2. Gone(Y) = {Y[i].p : i \in 1..c + 1} /\ Gone(X) = {X[i].p : i \in 1..c}
          BY <2>3, <2>6 DEF Gone
    <3>3. \A i \in 1..c : Y[i].p = X[i].p
          BY <2>6
    <3>4. Y[c + 1].p = p
          BY <1>11, <2>6
    <3> QED BY <3>1, <3>2, <3>3, <3>4
  <2>8. exits' = Y
        BY <1>11, <2>2, <2>5
  <2> QED BY <1>5, <1>14, <2>2, <2>6, <2>7, <2>8
<1>17. Loop(EQ', RQ', running', rbt', since', now', Gone(exits'), quantum)
       BY <1>0, <1>1, <1>2, <1>3, <1>15, <1>16
<1>18. Running'
       BY <1>0, <1>17, RunningOn
<1>19. /\ \A c \in Processes : bno'[c] \in 1..Len(J[c].CPUB)
       /\ bno' = [c \in Processes |-> bno'[c]]
       BY <1>0 DEF SchedulerInv
<1>20. ExitTurn(e)
       BY <1>1, <1>2, <1>3, <1>8, <1>15 DEF ExitTurn
<1>21. SchedulerInv'
       BY <1>0, <1>16, <1>18, <1>19, Stepped
<1> QED BY <1>2, <1>20, <1>21

(* A round begins with an arrival of everybody, and nobody ready. *)
LEMMA BeginKeeps ==
    ASSUME SchedulerInv, Begin, version \in {"student", "instructor"}
    PROVE  SchedulerInv'
<1>0. /\ J \in Inputs /\ round \in 1..Len(Quanta)
      /\ J' = J /\ version' = version /\ round' = round
      /\ now' = 0 /\ RQ' = <<>> /\ running' = 0 /\ exits' = <<>>
      /\ bno' = [p \in Processes |-> 1]
      /\ rbt' = [p \in Processes |-> J[p].CPUB[1]] /\ since' = [p \in Processes |-> 0]
      BY DEF SchedulerInv, Begin
<1>1. PICK q \in Nat : q = quantum
      BY <1>0, QuantumNat
<1>2. n \in Nat \ {0} /\ Processes = 1..n
      BY SchedulerAssumption DEF SchedulerAssumption, Processes
<1>3. PICK H : EQ' = H /\ Heap(H) /\ Entries(H) = Entries(Arrivals)
  <2>1. EQ' = pushed \/ EQ' = makeheap
        BY DEF Begin
  <2>2. Heap(pushed) /\ Entries(pushed) = Entries(Arrivals)
        BY <1>0, Pushed
  <2>3. Heap(makeheap) /\ Entries(makeheap) = Entries(Arrivals)
        BY <1>0, MadeHeap
  <2> QED BY ONLY <2>1, <2>2, <2>3
<1>4. ASSUME NEW e \in Entries(H)
      PROVE  e \in Events /\ e.time >= 0 /\ e.type \in Joins /\ e.p # 0
  <2>1. PICK p \in 1..n : e = Arrivals[p]
    <3>1. Len(Arrivals) = n
          BY <1>0, ArrivalsAre
    <3>2. e \in Entries(Arrivals)
          BY <1>3
    <3> QED BY ONLY <3>1, <3>2 DEF Entries
  <2>2. e \in Events /\ e.type = "arrival" /\ e.p = p
        BY <1>0, <2>1, ArrivalsAre
  <2> QED BY <1>2, <2>2 DEF Events, Joins
<1>5. Pending(H) = Processes
  <2>1. \A p \in 1..n : Arrivals[p] \in Entries(H) /\ Arrivals[p].p = p
        BY <1>0, <1>3, ArrivalsAre DEF Entries
  <2>2. \A e \in Entries(H) : e.p \in Processes
        BY <1>4 DEF Events
  <2> QED BY <1>2, <2>1, <2>2 DEF Pending
<1>6. Placed(H, <<>>, {})
  <2>1. Queued(<<>>) = {}
        BY DEF Queued
  <2>2. <<>> \in Seq(Processes) /\ \A k, l \in 1..Len(<<>>) : <<>>[k] = <<>>[l] => k = l
        OBVIOUS
  <2> QED BY <1>3, <1>5, <2>1, <2>2 DEF Placed
<1>7. rbt' \in [Processes -> Nat] /\ since' \in [Processes -> Nat]
  <2>1. \A p \in Processes : J[p].CPUB[1] \in Nat
    <3> SUFFICES ASSUME NEW p \in Processes PROVE J[p].CPUB[1] \in Nat
        OBVIOUS
    <3>1. Len(J[p].CPUB) \in Nat \ {0}
          BY <1>0, Bursts
    <3>2. 1 \in 1..Len(J[p].CPUB)
          BY <3>1
    <3> QED BY <1>0, <3>2, Bursts
  <2> QED BY <1>0, <2>1
<1>8. Loop(H, <<>>, 0, rbt', since', 0, {}, q)
  <2>1. \A e \in Entries(H) : e.time >= 0 /\ (e.type \notin Joins <=> e.p = 0)
        BY <1>4
  <2>2. \A e \in Entries(H) : e.p # 0
        BY <1>4
  <2> QED BY <1>2, <1>6, <1>7, <2>1, <2>2 DEF Loop
<1>9. Gone(exits') = {}
  <2>1. Gone(<<>>) = {}
        BY DEF Gone
  <2> QED BY <1>0, <2>1
<1>10. Loop(EQ', RQ', running', rbt', since', now', Gone(exits'), quantum)
       BY <1>0, <1>1, <1>3, <1>8, <1>9
<1>11. Running'
       BY <1>0, <1>10, RunningOn
<1>12. \A p \in Processes : bno'[p] \in 1..Len(J[p].CPUB)
  <2> SUFFICES ASSUME NEW p \in Processes PROVE 1 \in 1..Len(J[p].CPUB)
      BY <1>0
  <2>1. Len(J[p].CPUB) \in Nat \ {0}
        BY <1>0, Bursts
  <2> QED BY <2>1
<1>13. \E S : exits' \in Seq(S)
  <2>1. <<>> \in Seq({})
        OBVIOUS
  <2> QED BY <1>0, <2>1
<1> QED BY <1>0, <1>11, <1>12, <1>13 DEF SchedulerInv

LEMMA FinishKeeps ==
    ASSUME SchedulerInv, Finish
    PROVE  SchedulerInv'
<1>1. phase' # "run" /\ J' = J
      BY DEF Finish
<1>2. round' \in 1..Len(Quanta)
  <2>1. Len(Quanta) \in Nat /\ round \in 1..Len(Quanta)
        BY SchedulerAssumption, LenProperties DEF SchedulerAssumption, SchedulerInv
  <2>2. CASE round < Len(Quanta)
        BY <2>1, <2>2 DEF Finish
  <2>3. CASE ~(round < Len(Quanta))
        BY <2>1, <2>3 DEF Finish
  <2> QED BY <2>2, <2>3
<1> QED BY <1>1, <1>2 DEF SchedulerInv

VersionIs == version \in {"student", "instructor", "none"}

(* The loop's state holds the invariant throughout. *)
THEOREM Invariance == Spec => [](SchedulerInv /\ VersionIs)
<1>1. Init => SchedulerInv /\ VersionIs
  <2> SUFFICES ASSUME Init PROVE SchedulerInv /\ VersionIs
      OBVIOUS
  <2>1. round \in 1..Len(Quanta)
    <3>1. Len(Quanta) \in Nat /\ Quanta # <<>> /\ Quanta \in Seq(Nat \ {0})
          BY SchedulerAssumption, LenProperties DEF SchedulerAssumption
    <3>2. Len(Quanta) # 0
          BY <3>1, EmptySeq
    <3> QED BY <3>1, <3>2 DEF Init
  <2> QED BY <2>1 DEF Init, SchedulerInv, VersionIs
<1>2. SchedulerInv /\ VersionIs /\ [Next]_vars => (SchedulerInv /\ VersionIs)'
  <2> SUFFICES ASSUME SchedulerInv, VersionIs, [Next]_vars
               PROVE  (SchedulerInv /\ VersionIs)'
      OBVIOUS
  <2>1. VersionIs'
        BY DEF Next, Begin, Join, TimeOut, StartIO, Exit, Finish, Take, vars, VersionIs
  <2>2. SchedulerInv'
    <3>1. CASE Begin
      <4>1. version \in {"student", "instructor"}
            BY <3>1 DEF Begin, VersionIs
      <4> QED BY <3>1, <4>1, BeginKeeps
    <3>2. CASE Join
          BY <3>2, JoinKeeps
    <3>3. CASE TimeOut
          BY <3>3, TimeOutKeeps
    <3>4. CASE StartIO
          BY <3>4, StartIOKeeps
    <3>5. CASE Exit
          BY <3>5, ExitKeeps
    <3>6. CASE Finish
          BY <3>6, FinishKeeps
    <3>7. CASE UNCHANGED vars
      <4>1. /\ version' = version /\ round' = round /\ phase' = phase /\ J' = J
            /\ bno' = bno /\ exits' = exits /\ EQ' = EQ /\ RQ' = RQ /\ running' = running
            /\ rbt' = rbt /\ since' = since /\ now' = now
            BY <3>7 DEF vars
      <4>2. phase = "run" => Running'
            BY <4>1, RunningOn DEF SchedulerInv, Running
      <4> QED BY <4>1, <4>2 DEF SchedulerInv
    <3> QED BY <3>1, <3>2, <3>3, <3>4, <3>5, <3>6, <3>7 DEF Next
  <2> QED BY <2>1, <2>2
<1> QED BY <1>1, <1>2, PTL DEF Spec

-----------------------------------------------------------------------------
(* The theorems *)

(* Whatever the processes and the quanta, in either program: the event at  *)
(* the root of the heap is the next one, however the heap was made, and a  *)
(* process that has not exited is in exactly one place; what ends a time   *)
(* on the CPU is an event of the process that runs.                        *)
THEOREM EveryProcessIsOnce == Spec => []EveryProcessOnce
<1>1. SchedulerInv => EveryProcessOnce
  <2> SUFFICES ASSUME SchedulerInv, phase = "run"
               PROVE  /\ \A i \in DOMAIN EQ : i # 1 => Before(EQ[1], EQ[i])
                      /\ \A p \in Processes :
                            LET pending == {i \in DOMAIN EQ : EQ[i].p = p}
                                queued == {i \in DOMAIN RQ : RQ[i] = p}
                                gone == \E i \in DOMAIN exits : exits[i].p = p
                            IN  /\ Cardinality(pending) + Cardinality(queued)
                                     = IF gone THEN 0 ELSE 1
                                /\ (running = p) <=> \E i \in pending : EQ[i].type \notin Joins
      BY DEF EveryProcessOnce
  <2>1. /\ DOMAIN EQ = 1..Len(EQ) /\ DOMAIN RQ = 1..Len(RQ) /\ DOMAIN exits = 1..Len(exits)
        /\ Len(EQ) \in Nat /\ Heap(EQ)
    <3>1. PICK S : exits \in Seq(S)
          BY DEF SchedulerInv
    <3>2. EQ \in Seq(Events) /\ RQ \in Seq(Processes) /\ Heap(EQ)
          BY LoopFacts DEF Heap
    <3> QED BY <3>1, <3>2, LenProperties
  <2>2. \A i \in DOMAIN EQ : i # 1 => Before(EQ[1], EQ[i])
    <3>1. \A i \in 1..Len(EQ) : i # 1 => i \in 2..Len(EQ)
          BY <2>1
    <3>2. \A i \in 2..Len(EQ) : Before(EQ[1], EQ[i])
          BY <2>1, LoopFacts, RootFirst
    <3> QED BY <2>1, <3>1, <3>2
  <2>3. ASSUME NEW p \in Processes
        PROVE  LET pending == {i \in DOMAIN EQ : EQ[i].p = p}
                   queued == {i \in DOMAIN RQ : RQ[i] = p}
                   gone == \E i \in DOMAIN exits : exits[i].p = p
               IN  /\ Cardinality(pending) + Cardinality(queued) = IF gone THEN 0 ELSE 1
                   /\ (running = p) <=> \E i \in pending : EQ[i].type \notin Joins
    <3>1. PICK P, R : /\ P = {i \in DOMAIN EQ : EQ[i].p = p}
                      /\ R = {i \in DOMAIN RQ : RQ[i] = p}
          OBVIOUS
    <3>2. \A i, j \in P : i = j
          BY <2>1, <3>1 DEF Heap, Single, Entries
    <3>3. \A i, j \in R : i = j
          BY <2>1, <3>1, LoopFacts
    <3>4. \A S : (\A i, j \in S : i = j) => Cardinality(S) = IF S = {} THEN 0 ELSE 1
      <4> SUFFICES ASSUME NEW S, \A i, j \in S : i = j
                   PROVE  Cardinality(S) = IF S = {} THEN 0 ELSE 1
          OBVIOUS
      <4>1. CASE S = {}
            BY <4>1, FS_EmptySet
      <4>2. CASE S # {}
        <5>1. PICK i \in S : TRUE
              BY <4>2
        <5>2. S = {i}
              BY <5>1
        <5>3. Cardinality({i}) = 1
              BY FS_Singleton
        <5> QED BY <4>2, <5>2, <5>3
      <4> QED BY <4>1, <4>2
    <3>5. /\ Cardinality(P) = IF P = {} THEN 0 ELSE 1
          /\ Cardinality(R) = IF R = {} THEN 0 ELSE 1
          BY <3>2, <3>3, <3>4
    <3>6. /\ P # {} <=> p \in Pending(EQ)
          /\ R # {} <=> p \in Queued(RQ)
          /\ (\E i \in DOMAIN exits : exits[i].p = p) <=> p \in Gone(exits)
          BY <2>1, <3>1 DEF Pending, Entries, Queued, Gone
    <3>7. /\ p \in Pending(EQ) \cup Queued(RQ) \cup Gone(exits)
          /\ ~(p \in Pending(EQ) /\ p \in Queued(RQ))
          /\ p \in Gone(exits) => p \notin Pending(EQ) /\ p \notin Queued(RQ)
          BY LoopFacts DEF Placed
    <3>8. Cardinality(P) + Cardinality(R)
            = IF \E i \in DOMAIN exits : exits[i].p = p THEN 0 ELSE 1
      <4>1. PICK a, b : a = Cardinality(P) /\ b = Cardinality(R)
            OBVIOUS
      <4>2. PICK g \in BOOLEAN : g <=> p \in Gone(exits)
            OBVIOUS
      <4>3. CASE g
        <5>1. a = 0 /\ b = 0
              BY <3>5, <3>6, <3>7, <4>1, <4>2, <4>3
        <5> QED BY <3>6, <4>1, <4>2, <4>3, <5>1
      <4>4. CASE ~g
        <5>1. (a = 0 /\ b = 1) \/ (a = 1 /\ b = 0)
              BY <3>5, <3>6, <3>7, <4>1, <4>2, <4>4
        <5>2. a + b = 1
              BY <5>1
        <5> QED BY <3>6, <4>1, <4>2, <4>4, <5>2
      <4> QED BY <4>3, <4>4
    <3>9. (running = p) <=> \E i \in P : EQ[i].type \notin Joins
      <4>1. ASSUME running = p PROVE \E i \in P : EQ[i].type \notin Joins
        <5>1. running # 0
              BY <4>1, SchedulerAssumption DEF SchedulerAssumption, Processes
        <5>2. PICK e \in Entries(EQ) : e.p = running
              BY <5>1 DEF SchedulerInv, Running, Loop
        <5>3. e.type \notin Joins
              BY <5>2, LoopFacts
        <5>4. PICK i \in 1..Len(EQ) : e = EQ[i]
              BY DEF Entries
        <5> QED BY <2>1, <3>1, <4>1, <5>2, <5>3, <5>4
      <4>2. ASSUME NEW i \in P, EQ[i].type \notin Joins PROVE running = p
        <5>1. EQ[i] \in Entries(EQ) /\ EQ[i].p = p
              BY <2>1, <3>1 DEF Entries
        <5>2. EQ[i].p = running
              BY <4>2, <5>1, LoopFacts
        <5> QED BY <5>1, <5>2
      <4> QED BY <4>1, <4>2
    <3> QED BY <3>1, <3>8, <3>9
  <2> QED BY <2>2, <2>3
<1> QED BY <1>1, Invariance, PTL

(* With any number of processes and any quantum, nobody is ready for       *)
(* longer than n - 1 quanta, and the CPU is not idle meanwhile.            *)
THEOREM WaitIsBounded == Spec => []BoundedWait
<1>1. SchedulerInv => BoundedWait
  <2> SUFFICES ASSUME SchedulerInv, phase = "run", NEW i \in DOMAIN RQ
               PROVE  running # 0 /\ now - since[RQ[i]] <= (n - 1) * quantum
      BY DEF BoundedWait
  <2>1. PICK q \in Nat : q = quantum
        BY LoopFacts
  <2>2. PICK c \in Nat : c = Len(RQ) /\ i \in 1..c /\ c <= n /\ n \in Nat
    <3>1. RQ \in Seq(Processes) /\ \A k, l \in 1..Len(RQ) : RQ[k] = RQ[l] => k = l
          BY LoopFacts
    <3>2. n \in Nat \ {0} /\ Len(RQ) \in 0..n
          BY <3>1, QueueFits
    <3>3. DOMAIN RQ = 1..Len(RQ)
          BY <3>1, LenProperties
    <3>4. i \in 1..Len(RQ) /\ Len(RQ) <= n /\ Len(RQ) \in Nat /\ n \in Nat
          BY <3>2, <3>3
    <3> QED BY <3>4
  <2>3. running # 0
    <3>1. RQ # <<>>
          BY <2>2, EmptySeq
    <3> QED BY <3>1, LoopFacts
  <2>4. PICK e \in Entries(EQ) : e.p = running
        BY <2>3 DEF SchedulerInv, Running, Loop
  <2>5. Timely(RQ, since, e.time, q) /\ e.time >= now /\ now \in Nat
        BY <2>1, <2>4, LoopFacts
  <2>6. PICK w \in Nat : w = since[RQ[i]]
    <3>1. RQ[i] \in Processes
          BY <2>2, LoopFacts, ElementOfSeq
    <3> QED BY <3>1, LoopFacts
  <2>7. e.time \in Nat
    <3>1. Entries(EQ) \subseteq Events
          BY LoopFacts, LenProperties, ElementOfSeq DEF Heap, Entries
    <3> QED BY <3>1 DEF Events
  <2>8. e.time - w <= (n - i) * q
        BY <2>2, <2>5, <2>6 DEF Timely
  <2>9. (n - i) * q <= (n - 1) * q
    <3>1. PICK a \in Nat, b \in Nat : a = n - i /\ b = i - 1 /\ n - 1 = a + b
      <4>1. n - i \in Nat /\ i - 1 \in Nat /\ n - 1 = (n - i) + (i - 1)
            BY <2>2
      <4> QED BY <4>1
    <3>2. (a + b) * q = a * q + b * q /\ b * q >= 0
      <4>1. b * q >= 0
            BY Turns
      <4> QED BY <4>1
    <3>3. PICK x \in Int, y \in Int : x = a * q /\ y = b * q
          OBVIOUS
    <3> QED BY <3>1, <3>2, <3>3
  <2>10. PICK x \in Int, y \in Int : x = (n - i) * q /\ y = (n - 1) * q
    <3>1. n - i \in Int /\ n - 1 \in Int
          BY <2>2
    <3> QED BY <3>1
  <2>11. now - w <= y
         BY <2>5, <2>7, <2>8, <2>9, <2>10
  <2> QED BY <2>1, <2>3, <2>6, <2>10, <2>11
<1> QED BY <1>1, Invariance, PTL

(* Time does not run backwards while a round lasts, so that nobody is idle *)
(* or waits for less than nothing: the heap gives out no event late.       *)
THEOREM TimeMovesOn == Spec => [][phase = "run" /\ phase' = "run" => now' >= now]_vars
<1>1. SchedulerInv /\ [Next]_vars => [phase = "run" /\ phase' = "run" => now' >= now]_vars
  <2> SUFFICES ASSUME SchedulerInv, [Next]_vars, phase = "run", phase' = "run"
               PROVE  now' >= now
      BY DEF vars
  <2>1. now \in Nat
        BY LoopFacts
  <2>2. ASSUME NEW types, Take(types) PROVE now' >= now
    <3>1. PICK e, G : e = EQ[1] /\ e \in Entries(EQ) /\ G = pop_event(EQ)
          BY <2>2, Taken
    <3>2. now' = e.time
          BY <2>2, <3>1 DEF Take
    <3>3. e.time >= now
          BY <3>1, LoopFacts
    <3> QED BY <3>2, <3>3
  <2>3. CASE UNCHANGED vars
        BY <2>1, <2>3 DEF vars
  <2>4. CASE Next
    <3>1. Join \/ TimeOut \/ StartIO \/ Exit
          BY <2>4 DEF Next, Begin, Finish
    <3> QED BY <2>2, <3>1 DEF Join, TimeOut, StartIO, Exit
  <2> QED BY <2>3, <2>4
<1> QED BY <1>1, Invariance, PTL DEF Spec

-----------------------------------------------------------------------------
(* Sums *)

(* What holds of a subset of S when it holds of all smaller ones holds of  *)
(* every subset of a finite S.                                             *)
LEMMA SubsetInduction ==
    ASSUME NEW S, IsFiniteSet(S), NEW K,
           \A s \in SUBSET S : (\A u \in SUBSET s : u # s => u \in K) => s \in K
    PROVE  SUBSET S \subseteq K
<1> SUFFICES ASSUME (SUBSET S) \ K # {} PROVE FALSE
  OBVIOUS
<1> DEFINE I == {Cardinality(s) : s \in (SUBSET S) \ K}
<1>1. I \subseteq Nat /\ I # {}
  BY FS_Subset, FS_CardinalityType
<1>2. PICK m \in I : \A c \in I : m <= c
  <2> HIDE DEF I
  <2> QED BY <1>1, LeastNumber
<1>3. PICK s \in (SUBSET S) \ K : m = Cardinality(s)
  OBVIOUS
<1>4. ASSUME NEW u \in SUBSET s, u # s PROVE u \in K
  <2>1. IsFiniteSet(s) /\ IsFiniteSet(u) /\ u \in SUBSET S
    BY FS_Subset
  <2>2. Cardinality(u) < Cardinality(s)
    BY <2>1, <1>4, FS_Subset, FS_CardinalityType
  <2>3. u \notin K => Cardinality(u) \in I
    BY <2>1
  <2>4. Cardinality(u) \in Nat /\ Cardinality(s) \in Nat
    BY <2>1, FS_CardinalityType
  <2> HIDE DEF I
  <2> QED BY <1>2, <1>3, <2>2, <2>3, <2>4
<1> QED BY <1>3, <1>4

(* The recursive function by which that is defined. *)
Pick(s) == CHOOSE x \in s : TRUE
AddsUp(it, f, D) ==
    it = [s \in D |-> IF s = {} THEN 0 ELSE f[Pick(s)] + it[s \ {Pick(s)}]]

(* There is such a function, for the subsets of any finite set. *)
LEMMA SumExists ==
    ASSUME NEW F, IsFiniteSet(F), NEW f
    PROVE  \E it : AddsUp(it, f, SUBSET F)
<1> DEFINE D(c) == {s \in SUBSET F : Cardinality(s) <= c}
           I == {c \in Nat : \E it : AddsUp(it, f, D(c))}
<1>0. \A s \in SUBSET F : IsFiniteSet(s) /\ Cardinality(s) \in Nat
  BY FS_Subset, FS_CardinalityType
<1>1. 0 \in I
  <2>1. D(0) = {{}}
    BY <1>0, FS_EmptySet
  <2> HIDE DEF D
  <2> DEFINE it == [s \in D(0) |-> 0]
  <2>2. AddsUp(it, f, D(0))
    BY <2>1 DEF AddsUp
  <2> QED BY <2>2
<1>2. ASSUME NEW c \in I \cap Nat PROVE c + 1 \in I
  <2>1. PICK it : AddsUp(it, f, D(c))
    OBVIOUS
  <2> DEFINE next(s) == IF s = {} THEN 0 ELSE f[Pick(s)] + it[s \ {Pick(s)}]
             up == [s \in D(c + 1) |-> next(s)]
  <2>2. ASSUME NEW s \in D(c + 1), s # {}
        PROVE  s \ {Pick(s)} \in D(c) /\ s \ {Pick(s)} \in D(c + 1)
    <3>1. Pick(s) \in s
      BY <2>2 DEF Pick
    <3>2. Cardinality(s \ {Pick(s)}) = Cardinality(s) - 1
      BY <1>0, <3>1, FS_RemoveElement
    <3> QED BY <1>0, <3>2
  <2>3. \A s \in D(c) : s \in D(c + 1) /\ it[s] = next(s)
    <3>1. \A s \in D(c) : s \in D(c + 1)
      BY <1>0
    <3> HIDE DEF D
    <3>2. \A s \in D(c) : it[s] = next(s)
      BY <2>1 DEF AddsUp
    <3> QED BY <3>1, <3>2
  <2>4. \A s \in D(c) : up[s] = it[s]
    BY <2>3
  <2> HIDE DEF D
  <2>5. \A s \in D(c + 1) :
           up[s] = IF s = {} THEN 0 ELSE f[Pick(s)] + up[s \ {Pick(s)}]
    BY <2>2, <2>4
  <2>6. up = [s \in D(c + 1) |-> up[s]]
    OBVIOUS
  <2> HIDE DEF up
  <2>7. AddsUp(up, f, D(c + 1))
    BY <2>5, <2>6 DEF AddsUp
  <2> QED BY <2>7
<1>3. Cardinality(F) \in I
  <2> HIDE DEF I
  <2> QED BY <1>0, <1>1, <1>2, NumberInduction
<1>4. D(Cardinality(F)) = SUBSET F
  BY <1>0, FS_Subset
<1> QED BY <1>3, <1>4

(* A sum is the last entry of the table that adds up. *)
LEMMA SumIs ==
    ASSUME NEW F, IsFiniteSet(F), NEW f
    PROVE  \E it : AddsUp(it, f, SUBSET F) /\ SumOver(f, F) = it[F]
<1> DEFINE it == CHOOSE g : AddsUp(g, f, SUBSET F)
<1>1. AddsUp(it, f, SUBSET F)
  BY SumExists
<1>2. SumOver(f, F) = it[F]
  BY DEF SumOver, MapThenFoldSet, AddsUp, Pick
<1> QED BY <1>1, <1>2

(* Whichever element is taken out first, the sums are the same. *)
LEMMA AnyOrder ==
    ASSUME NEW F, IsFiniteSet(F), NEW f, \A i \in F : f[i] \in Int,
           NEW it, AddsUp(it, f, SUBSET F), NEW s \in SUBSET F
    PROVE  it[s] \in Int /\ \A x \in s : it[s] = f[x] + it[s \ {x}]
<1> DEFINE K == {u \in SUBSET F : /\ it[u] \in Int
                                  /\ \A x \in u : it[u] = f[x] + it[u \ {x}]}
<1>1. it[{}] = 0
  BY DEF AddsUp
<1>2. ASSUME NEW v \in SUBSET F, \A u \in SUBSET v : u # v => u \in K
      PROVE  v \in K
  <2>1. CASE v = {}
    BY <1>1, <2>1
  <2>2. CASE v # {}
    <3> DEFINE y == Pick(v)
    <3>1. y \in v
      BY <2>2 DEF Pick
    <3>2. it[v] = f[y] + it[v \ {y}]
      BY <2>2 DEF AddsUp
    <3> HIDE DEF y
    <3>3. it[v \ {y}] \in Int /\ f[y] \in Int
      BY <1>2, <3>1
    <3>4. ASSUME NEW x \in v, x # y PROVE it[v] = f[x] + it[v \ {x}]
      <4> DEFINE both == (v \ {x}) \ {y}
      <4>1. v \ {x} \in K /\ v \ {y} \in K
        BY <1>2, <3>1
      <4>2. (v \ {y}) \ {x} = both
        OBVIOUS
      <4>3. both \in K
        BY <1>2, <3>1
      <4>4. it[v \ {x}] = f[y] + it[both]
        BY <3>1, <3>4, <4>1
      <4>5. it[v \ {y}] = f[x] + it[both]
        BY <3>4, <4>1, <4>2
      <4>6. f[x] \in Int /\ it[both] \in Int
        BY <3>4, <4>3
      <4> HIDE DEF both
      <4> QED BY <3>2, <3>3, <4>4, <4>5, <4>6
    <3>5. it[v] \in Int
      BY <3>2, <3>3
    <3>6. \A x \in v : it[v] = f[x] + it[v \ {x}]
      BY <3>2, <3>4
    <3> QED BY <3>5, <3>6
  <2> QED BY <2>1, <2>2
<1>3. SUBSET F \subseteq K
  <2> HIDE DEF K
  <2> QED BY <1>2, SubsetInduction
<1> QED BY <1>1, <1>3

(* Nothing adds up to 0, and any element can be taken out of a sum. *)
LEMMA SumSplit ==
    ASSUME NEW F, IsFiniteSet(F), NEW f, \A i \in F : f[i] \in Int
    PROVE  /\ SumOver(f, {}) = 0
           /\ SumOver(f, F) \in Int
           /\ \A x \in F : SumOver(f, F) = f[x] + SumOver(f, F \ {x})
<1>1. SumOver(f, {}) = 0
  <2>1. PICK it : AddsUp(it, f, SUBSET {}) /\ SumOver(f, {}) = it[{}]
    BY SumIs, FS_EmptySet
  <2> QED BY <2>1 DEF AddsUp
<1>2. PICK it : AddsUp(it, f, SUBSET F) /\ SumOver(f, F) = it[F]
  BY SumIs
<1>3. ASSUME NEW x \in F PROVE it[F] = f[x] + it[F \ {x}]
  <2>1. F \in SUBSET F /\ F \ {x} \in SUBSET F /\ AddsUp(it, f, SUBSET F)
    BY <1>2
  <2>2. it[F] \in Int /\ it[F \ {x}] \in Int
    BY <2>1, AnyOrder
  <2> QED BY <2>1, <2>2, AnyOrder
<1>4. it[F] \in Int
  BY <1>2, AnyOrder
<1>5. ASSUME NEW x \in F PROVE SumOver(f, F \ {x}) = it[F \ {x}]
  <2> DEFINE G == F \ {x}
  <2>1. IsFiniteSet(G) /\ G \subseteq F
    BY FS_Subset
  <2> HIDE DEF G
  <2>2. PICK sub : AddsUp(sub, f, SUBSET G) /\ SumOver(f, G) = sub[G]
    BY <2>1, SumIs
  <2> DEFINE K == {s \in SUBSET G : sub[s] = it[s]}
  <2>3. ASSUME NEW s \in SUBSET G, \A u \in SUBSET s : u # s => u \in K PROVE s \in K
    <3>1. s \in SUBSET F
      BY <2>1
    <3>2. CASE s = {}
      BY <1>2, <2>2, <3>1, <3>2 DEF AddsUp
    <3>3. CASE s # {}
      <4>1. /\ it[s] = f[Pick(s)] + it[s \ {Pick(s)}]
            /\ sub[s] = f[Pick(s)] + sub[s \ {Pick(s)}]
        BY <1>2, <2>2, <3>1, <3>3 DEF AddsUp
      <4>2. Pick(s) \in s
        BY <3>3 DEF Pick
      <4>3. s \ {Pick(s)} \in K
        BY <2>3, <4>2
      <4> QED BY <4>1, <4>3
    <3> QED BY <3>2, <3>3
  <2>4. SUBSET G \subseteq K
    <3> HIDE DEF K
    <3> QED BY <2>1, <2>3, SubsetInduction
  <2> QED BY <2>2, <2>4 DEF G
<1> QED BY <1>1, <1>2, <1>3, <1>4, <1>5

(* One entry can be taken out of a sum. *)
LEMMA SumPeel ==
    ASSUME NEW F, IsFiniteSet(F), NEW f, \A i \in F : f[i] \in Int,
           NEW x \in F
    PROVE  /\ f[x] \in Int
           /\ SumOver(f, F) \in Int /\ SumOver(f, F \ {x}) \in Int
           /\ SumOver(f, F) = f[x] + SumOver(f, F \ {x})
<1>1. IsFiniteSet(F \ {x}) /\ \A i \in F \ {x} : f[i] \in Int
  BY FS_RemoveElement
<1>2. SumOver(f, F) \in Int /\ SumOver(f, F \ {x}) \in Int
  BY <1>1, SumSplit
<1> QED BY <1>2, SumSplit

(* Two sums are equal when what they add up is. *)
LEMMA SumSame ==
    ASSUME NEW F, IsFiniteSet(F), NEW f, NEW g, \A i \in F : f[i] \in Int /\ g[i] = f[i]
    PROVE  SumOver(g, F) = SumOver(f, F)
<1> DEFINE K == {s \in SUBSET F : SumOver(g, s) = SumOver(f, s)}
<1>1. ASSUME NEW s \in SUBSET F, \A u \in SUBSET s : u # s => u \in K PROVE s \in K
  <2>1. IsFiniteSet(s) /\ \A i \in s : f[i] \in Int /\ g[i] = f[i] /\ g[i] \in Int
        BY FS_Subset
  <2>2. CASE s = {}
        BY <2>1, <2>2, SumSplit
  <2>3. CASE s # {}
    <3>1. PICK x \in s : TRUE
          BY <2>3
    <3>2. s \ {x} \in K
          BY <1>1, <3>1
    <3>3. /\ SumOver(f, s) = f[x] + SumOver(f, s \ {x})
          /\ SumOver(g, s) = g[x] + SumOver(g, s \ {x})
          BY <2>1, <3>1, SumPeel
    <3> QED BY <2>1, <3>1, <3>2, <3>3
  <2> QED BY <2>2, <2>3
<1>2. SUBSET F \subseteq K
  <2> HIDE DEF K
  <2> QED BY <1>1, SubsetInduction
<1> QED BY <1>2

(* A sum in which one entry changes. *)
LEMMA SumChanged ==
    ASSUME NEW F, IsFiniteSet(F), NEW x \in F, NEW f, NEW g,
           \A i \in F : f[i] \in Int, g[x] \in Int, \A i \in F \ {x} : g[i] = f[i]
    PROVE  SumOver(f, F) \in Int /\ SumOver(g, F) = SumOver(f, F) + g[x] - f[x]
<1>1. /\ f[x] \in Int /\ \A i \in F : g[i] \in Int
      /\ IsFiniteSet(F \ {x})
      BY FS_RemoveElement
<1>2. /\ SumOver(f, F) \in Int /\ SumOver(f, F \ {x}) \in Int
      /\ SumOver(f, F) = f[x] + SumOver(f, F \ {x})
      BY SumPeel
<1>3. /\ SumOver(g, F) \in Int
      /\ SumOver(g, F) = g[x] + SumOver(g, F \ {x})
      BY <1>1, SumPeel
<1>4. SumOver(g, F \ {x}) = SumOver(f, F \ {x})
  <2>1. \A i \in F \ {x} : f[i] \in Int /\ g[i] = f[i]
        OBVIOUS
  <2> QED BY <1>1, <2>1, SumSame
<1> QED BY <1>1, <1>2, <1>3, <1>4

(* The first of a sequence of numbers. *)
LEMMA SumUpto ==
    ASSUME NEW f, NEW k \in Nat, \A i \in 1..k + 1 : f[i] \in Int
    PROVE  /\ SumOver(f, 1..0) = 0
           /\ SumOver(f, 1..k) \in Int
           /\ SumOver(f, 1..k + 1) = SumOver(f, 1..k) + f[k + 1]
<1>1. PICK F : F = 1..k + 1
      OBVIOUS
<1>2. IsFiniteSet(F) /\ k + 1 \in F /\ F \ {k + 1} = 1..k
  <2>1. 1 \in Int /\ k + 1 \in Int
        OBVIOUS
  <2>2. IsFiniteSet(1..k + 1)
        BY <2>1, FS_Interval
  <2> QED BY <1>1, <2>2
<1>3. \A i \in F : f[i] \in Int
      BY <1>1
<1>4. /\ f[k + 1] \in Int /\ SumOver(f, F \ {k + 1}) \in Int
      /\ SumOver(f, F) = f[k + 1] + SumOver(f, F \ {k + 1})
      BY <1>2, <1>3, SumPeel
<1>5. SumOver(f, {}) = 0
      BY <1>2, <1>3, SumSplit
<1>6. 1..0 = {}
      OBVIOUS
<1>7. PICK a : a = SumOver(f, 1..k)
      OBVIOUS
<1>8. a \in Int /\ SumOver(f, F) = f[k + 1] + a
      BY <1>2, <1>4, <1>7
<1>9. SumOver(f, F) = a + f[k + 1]
      BY <1>4, <1>8
<1>10. SumOver(f, 1..0) = 0
       BY <1>5, <1>6
<1> QED BY <1>1, <1>7, <1>8, <1>9, <1>10

-----------------------------------------------------------------------------
(* Where the time goes *)

(* The CPU time that p has been given, and the IO time it has asked for.   *)
Given(p, b, rem) == SumOver(J[p].CPUB, 1..b[p]) - rem[p]
Away(p, b) == SumOver(J[p].IOB, 1..b[p] - 1)

AllGiven(b, rem) == SumOver([p \in Processes |-> Given(p, b, rem)], Processes)

(* Waiting, running and IO fill the time since p arrived: up to its next   *)
(* event, or until it came into the queue.  What runs has nothing left of  *)
(* its burst exactly when the event is the end of it.                      *)
Books(E, Q, rem, from, w, b) ==
    /\ \A e \in E : w[e.p] + Given(e.p, b, rem) + Away(e.p, b) = e.time - J[e.p].atime
    /\ \A p \in Queued(Q) : w[p] + Given(p, b, rem) + Away(p, b) = from[p] - J[p].atime
    /\ \A p \in Queued(Q) : rem[p] >= 1
    /\ \A e \in E : IF e.type = "end" THEN rem[e.p] = 0 ELSE rem[e.p] >= 1

(* The CPU is given or idle all the time, until the next event that ends a *)
(* time on it.                                                             *)
Filled(E, r, t, lost, rem, b) ==
    /\ r = 0 => AllGiven(b, rem) + lost = t
    /\ \A e \in E : e.p = r => AllGiven(b, rem) + lost = e.time

(* What is printed when p exits at time t. *)
ExitOf(D, p, t) ==
    [time |-> t, p |-> p, tat |-> t - D[p].atime,
     wait |-> t - D[p].atime - (Total(D[p].CPUB) + Total(D[p].IOB))]

Logged(x, rem, w, b) ==
    /\ \A i \in 1..Len(x) :
          LET p == x[i].p
          IN  /\ p \in Processes /\ x[i] = ExitOf(J, p, x[i].time) /\ w[p] = x[i].wait
              /\ b[p] = Len(J[p].CPUB) /\ rem[p] = 0
    /\ \A i, j \in 1..Len(x) : x[i].p = x[j].p => i = j

LEMMA BurstSums ==
    ASSUME J \in Inputs, NEW p \in Processes, NEW k \in 1..Len(J[p].CPUB)
    PROVE  /\ SumOver(J[p].CPUB, 1..k) \in Int /\ SumOver(J[p].IOB, 1..k - 1) \in Int
           /\ k < Len(J[p].CPUB) =>
                 /\ SumOver(J[p].CPUB, 1..k + 1) = SumOver(J[p].CPUB, 1..k) + J[p].CPUB[k + 1]
                 /\ SumOver(J[p].IOB, 1..k + 1 - 1)
                      = SumOver(J[p].IOB, 1..k - 1) + J[p].IOB[k]
           /\ SumOver(J[p].CPUB, 1..1) = J[p].CPUB[1] /\ SumOver(J[p].IOB, 1..1 - 1) = 0
           /\ k = Len(J[p].CPUB) =>
                 /\ SumOver(J[p].CPUB, 1..k) = Total(J[p].CPUB)
                 /\ SumOver(J[p].IOB, 1..k - 1) = Total(J[p].IOB)
<1>1. PICK C, I : C = J[p].CPUB /\ I = J[p].IOB
      OBVIOUS
<1>2. PICK c \in Nat : c = Len(C) /\ c >= 1 /\ k \in 1..c
      BY <1>1, Bursts
<1>3. /\ \A j \in 1..c : C[j] \in Int
      /\ \A j \in 1..c : j < c => I[j] \in Int
      BY <1>1, <1>2, Bursts
<1>4. DOMAIN C = 1..c /\ DOMAIN I = 1..c - 1
  <2>1. /\ C \in Seq(Nat \ {0}) /\ I \in Seq(Nat \ {0}) /\ Len(I) = Len(C) - 1
        BY <1>1, SchedulerAssumption DEF SchedulerAssumption
  <2> QED BY <1>2, <2>1, LenProperties
<1>5. PICK d \in Nat : k = d + 1
  <2>1. k - 1 \in Nat /\ k = (k - 1) + 1
        BY <1>2
  <2> QED BY <2>1
<1>6. k - 1 = d /\ k + 1 - 1 = d + 1 /\ 1 - 1 = 0
      BY <1>5
<1>7. SumOver(C, 1..k) \in Int
  <2>1. \A j \in 1..d + 1 : C[j] \in Int
        BY <1>2, <1>3, <1>5
  <2>2. SumOver(C, 1..d) \in Int /\ SumOver(C, 1..d + 1) = SumOver(C, 1..d) + C[d + 1]
        BY <2>1, SumUpto
  <2>3. C[d + 1] \in Int
        BY <2>1
  <2> QED BY <1>5, <2>2, <2>3
<1>8. SumOver(I, 1..d) \in Int /\ SumOver(I, 1..0) = 0
  <2>1. CASE d = 0
    <3>1. SumOver(I, {}) = 0
      <4>1. IsFiniteSet({}) /\ \A i \in {} : I[i] \in Int
            BY FS_EmptySet
      <4> QED BY <4>1, SumSplit
    <3>2. 1..0 = {}
          OBVIOUS
    <3> QED BY <2>1, <3>1, <3>2
  <2>2. CASE d # 0
    <3>1. PICK g \in Nat : d = g + 1
      <4>1. d - 1 \in Nat /\ d = (d - 1) + 1
            BY <2>2
      <4> QED BY <4>1
    <3>2. \A j \in 1..g + 1 : I[j] \in Int
          BY <1>2, <1>3, <1>5, <3>1
    <3>3. /\ SumOver(I, 1..0) = 0 /\ SumOver(I, 1..g) \in Int
          /\ SumOver(I, 1..g + 1) = SumOver(I, 1..g) + I[g + 1]
          BY <3>2, SumUpto
    <3>4. I[g + 1] \in Int
          BY <3>2
    <3> QED BY <3>1, <3>3, <3>4
  <2> QED BY <2>1, <2>2
<1>9. ASSUME k < c
      PROVE  /\ SumOver(C, 1..k + 1) = SumOver(C, 1..k) + C[k + 1]
             /\ SumOver(I, 1..d + 1) = SumOver(I, 1..d) + I[k]
  <2>1. \A j \in 1..k + 1 : C[j] \in Int
        BY <1>2, <1>3, <1>9
  <2>2. \A j \in 1..d + 1 : I[j] \in Int
        BY <1>2, <1>3, <1>5, <1>9
  <2>3. k \in Nat
        BY <1>2
  <2> QED BY <1>5, <2>1, <2>2, <2>3, SumUpto
<1>10. SumOver(C, 1..1) = C[1]
  <2>1. \A j \in 1..0 + 1 : C[j] \in Int
        BY <1>2, <1>3
  <2>2. SumOver(C, 1..0) = 0 /\ SumOver(C, 1..0 + 1) = SumOver(C, 1..0) + C[0 + 1]
        BY <2>1, SumUpto
  <2>3. 0 + 1 = 1 /\ C[1] \in Int
        BY <1>2, <1>3
  <2>4. SumOver(C, 1..1) = 0 + C[1]
        BY <2>2, <2>3
  <2> QED BY <2>3, <2>4
<1>11. k = c => SumOver(C, 1..k) = Total(C) /\ SumOver(I, 1..d) = Total(I)
       BY <1>4, <1>6 DEF Total
<1> QED BY <1>1, <1>2, <1>6, <1>7, <1>8, <1>9, <1>10, <1>11

LEMMA GivenInt ==
    ASSUME J \in Inputs, NEW b, \A p \in Processes : b[p] \in 1..Len(J[p].CPUB),
           NEW rem \in [Processes -> Nat]
    PROVE  /\ \A p \in Processes : /\ Given(p, b, rem) \in Int /\ Away(p, b) \in Int
                                   /\ J[p].atime \in Nat
           /\ AllGiven(b, rem) \in Int /\ IsFiniteSet(Processes)
<1>1. \A p \in Processes : Given(p, b, rem) \in Int /\ Away(p, b) \in Int /\ J[p].atime \in Nat
  <2> SUFFICES ASSUME NEW p \in Processes
               PROVE  Given(p, b, rem) \in Int /\ Away(p, b) \in Int /\ J[p].atime \in Nat
      OBVIOUS
  <2>1. /\ SumOver(J[p].CPUB, 1..b[p]) \in Int /\ SumOver(J[p].IOB, 1..b[p] - 1) \in Int
        BY BurstSums
  <2>2. rem[p] \in Nat /\ J[p].atime \in Nat
        BY SchedulerAssumption DEF SchedulerAssumption
  <2> QED BY <2>1, <2>2 DEF Given, Away
<1>2. IsFiniteSet(Processes)
  <2>1. 1 \in Int /\ n \in Int
        BY SchedulerAssumption DEF SchedulerAssumption
  <2> QED BY <2>1, FS_Interval DEF Processes
<1>3. PICK f : f = [p \in Processes |-> Given(p, b, rem)]
      OBVIOUS
<1>4. \A p \in Processes : f[p] \in Int
      BY <1>1, <1>3
<1>5. SumOver(f, Processes) \in Int
      BY <1>2, <1>4, SumSplit
<1> QED BY <1>1, <1>2, <1>3, <1>5 DEF AllGiven

LEMMA TimeAddsUp ==
    ASSUME NEW w \in Int, NEW g \in Int, NEW o \in Int, NEW s \in Int, NEW u \in Int,
           NEW t \in Int, NEW r \in Int, w + g + o = s - u
    PROVE  (w + t - s) + (g + r) + o = (t + r) - u
OBVIOUS

LEMMA SumMoves ==
    ASSUME NEW a \in Int, NEW g \in Int, NEW l \in Int, NEW t \in Int, NEW r \in Int, a + l = t
    PROVE  (a + (g + r) - g) + l = t + r
OBVIOUS

(* Only x is given anything. *)
GivenTo(x, b, rem, c, left) ==
    /\ AllGiven(c, left) = AllGiven(b, rem) + Given(x, c, left) - Given(x, b, rem)
    /\ \A p \in Processes \ {x} : /\ Given(p, c, left) = Given(p, b, rem)
                                  /\ Away(p, c) = Away(p, b)

(* Burst numbers, and what is left, of all processes. *)
Counts(b, rem) ==
    /\ \A p \in Processes : b[p] \in 1..Len(J[p].CPUB)
    /\ rem \in [Processes -> Nat]

LEMMA GivenChanged ==
    ASSUME J \in Inputs, NEW x \in Processes, NEW b, NEW rem, Counts(b, rem),
           NEW c, NEW left, Counts(c, left),
           \A p \in Processes \ {x} : c[p] = b[p] /\ left[p] = rem[p]
    PROVE  GivenTo(x, b, rem, c, left)
<1> USE DEF Counts
<1>1. PICK f, g : /\ f = [p \in Processes |-> Given(p, b, rem)]
                  /\ g = [p \in Processes |-> Given(p, c, left)]
      OBVIOUS
<1>2. \A p \in Processes \ {x} : /\ Given(p, c, left) = Given(p, b, rem)
                                 /\ Away(p, c) = Away(p, b)
      BY DEF Given, Away
<1>3. /\ \A p \in Processes : f[p] \in Int
      /\ g[x] \in Int /\ f[x] = Given(x, b, rem) /\ g[x] = Given(x, c, left)
      /\ \A p \in Processes \ {x} : g[p] = f[p]
      BY <1>1, <1>2, GivenInt
<1>4. IsFiniteSet(Processes)
      BY GivenInt
<1>5. SumOver(g, Processes) = SumOver(f, Processes) + g[x] - f[x]
  <2>1. PICK F : F = Processes
        OBVIOUS
  <2>2. /\ IsFiniteSet(F) /\ x \in F /\ \A i \in F : f[i] \in Int
        /\ g[x] \in Int /\ \A i \in F \ {x} : g[i] = f[i]
        BY <1>3, <1>4, <2>1
  <2>3. SumOver(g, F) = SumOver(f, F) + g[x] - f[x]
        BY <2>2, SumChanged
  <2> QED BY <2>1, <2>3
<1> QED BY <1>1, <1>2, <1>3, <1>5 DEF AllGiven, GivenTo

(* What holds of a step just before it dispatches. *)
Due(E, Q, free, rem, from, t, b, lost) ==
    /\ E \subseteq Events /\ Q \in Seq(Processes) /\ Counts(b, rem)
    /\ Books(E, Q, rem, from, wait, b)
    /\ IF free THEN AllGiven(b, rem) + lost = t /\ \A e \in E : e.type \in Joins
               ELSE running # 0 /\ Filled(E, running, t, lost, rem, b)

(* What holds after it. *)
Paid(t, b, lost, rem) ==
    /\ Books(Entries(EQ'), RQ', rbt', since', wait', b) /\ wait' \in [Processes -> Int]
    /\ Filled(Entries(EQ'), running', t, lost, rbt', b)
    /\ \A p \in Gone(exits') : p \in Processes => wait'[p] = wait[p] /\ rbt'[p] = rem[p]

(* The end of an iteration keeps the books. *)
LEMMA TurnBooks ==
    ASSUME J \in Inputs, SchedulerInv', phase' = "run", wait \in [Processes -> Int],
           NEW q \in Nat, NEW E, NEW Q, NEW free \in BOOLEAN, NEW rem,
           NEW from \in [Processes -> Nat], NEW t \in Nat, NEW b, NEW lost \in Int,
           Due(E, Q, free, rem, from, t, b, lost), Turn(E, Q, free, rem, from, t, q)
    PROVE  Paid(t, b, lost, rem)
<1>0. /\ E \subseteq Events /\ Q \in Seq(Processes) /\ rem \in [Processes -> Nat]
      /\ \A p \in Processes : b[p] \in 1..Len(J[p].CPUB)
      /\ Books(E, Q, rem, from, wait, b)
      /\ free => AllGiven(b, rem) + lost = t /\ \A e \in E : e.type \in Joins
      /\ ~free => running # 0 /\ Filled(E, running, t, lost, rem, b)
      BY DEF Due, Counts
<1> USE <1>0
<1> HIDE DEF Due
<1>1. n \in Nat \ {0} /\ Processes = 1..n
      BY SchedulerAssumption DEF SchedulerAssumption, Processes
<1>2. /\ Single(Entries(EQ')) /\ RQ' \in Seq(Processes)
      /\ Pending(EQ') \cap Queued(RQ') = {} /\ Gone(exits') \cap Pending(EQ') = {}
      /\ rbt' \in [Processes -> Nat]
  <2>1. Running'
        BY DEF SchedulerInv
  <2>2. /\ Single(Entries(EQ))' /\ RQ' \in Seq(Processes)
        /\ (Pending(EQ) \cap Queued(RQ))' = {}
        /\ (Gone(exits) \cap Pending(EQ))' = {}
        /\ rbt' \in [Processes -> Nat]
        BY <2>1 DEF Running, Loop, Placed, Heap
  <2> QED BY <2>2 DEF Single, Pending, Queued, Gone, Entries
<1>3. CASE free /\ Q # <<>>
  <2>1. PICK x \in Processes : x = Head(Q) /\ x \in Queued(Q)
    <3>1. Head(Q) = Q[1] /\ 1 \in 1..Len(Q) /\ Head(Q) \in Processes
          BY <1>3, EmptySeq, LenProperties, HeadTailProperties
    <3> QED BY <3>1 DEF Queued
  <2>2. PICK run \in Nat : run = IF rem[x] <= q THEN rem[x] ELSE q
        OBVIOUS
  <2>3. PICK f : f = [time |-> t + run, p |-> x, type |-> IF run = rem[x] THEN "end" ELSE "timeout"]
        OBVIOUS
  <2>4. /\ Entries(EQ') = E \cup {f} /\ RQ' = Tail(Q) /\ running' = x
        /\ rbt' = [rem EXCEPT ![x] = @ - run]
        /\ wait' = [wait EXCEPT ![x] = @ + t - from[x]] /\ since' = [from EXCEPT ![x] = t]
        BY <1>3, <2>1, <2>2, <2>3 DEF Turn
  <2>5. f.time = t + run /\ f.p = x /\ f.type \notin Joins
        /\ (f.type = "end" <=> run = rem[x])
        BY <2>3 DEF Joins
  <2>6. \A e \in E : e.p # x
    <3>1. ASSUME NEW e \in E, e.p = x PROVE FALSE
      <4>1. e = f
            BY <1>2, <2>4, <2>5, <3>1 DEF Single
      <4> QED BY <1>3, <2>5, <4>1
    <3> QED BY <3>1
  <2>7. \A p \in Queued(RQ') : p \in Queued(Q) /\ p # x /\ p \in Processes
    <3>1. x \in Pending(EQ')
          BY <2>4, <2>5 DEF Pending
    <3>2. \A k \in 1..Len(Tail(Q)) : k + 1 \in 1..Len(Q) /\ Tail(Q)[k] = Q[k + 1]
          BY <1>3, HeadTailProperties, LenProperties
    <3>3. Queued(Tail(Q)) \subseteq Queued(Q)
          BY <3>2 DEF Queued
    <3>4. \A k \in 1..Len(Q) : Q[k] \in Processes
          BY ElementOfSeq
    <3>5. \A p \in Queued(Q) : p \in Processes
          BY <3>4 DEF Queued
    <3>6. Queued(RQ') = Queued(Tail(Q))
          BY <2>4
    <3> QED BY <1>2, <3>1, <3>3, <3>5, <3>6
  <2>8. /\ \A p \in Processes \ {x} : /\ wait'[p] = wait[p] /\ rbt'[p] = rem[p]
                                      /\ since'[p] = from[p]
        /\ wait'[x] = wait[x] + t - from[x] /\ rbt'[x] = rem[x] - run
        BY <2>4
  <2>9. /\ AllGiven(b, rbt') = AllGiven(b, rem) + Given(x, b, rbt') - Given(x, b, rem)
        /\ \A p \in Processes \ {x} : Given(p, b, rbt') = Given(p, b, rem)
    <3>1. PICK left : left = rbt'
          OBVIOUS
    <3>2. left \in [Processes -> Nat] /\ \A p \in Processes \ {x} : left[p] = rem[p]
          BY <1>2, <2>8, <3>1
    <3>3. PICK c : c = b
          OBVIOUS
    <3>4. /\ Counts(b, rem) /\ Counts(c, left)
          /\ \A p \in Processes \ {x} : c[p] = b[p] /\ left[p] = rem[p]
          BY <3>2, <3>3 DEF Counts
    <3>6. GivenTo(x, b, rem, c, left)
          BY <3>4, GivenChanged
    <3> QED BY <3>1, <3>3, <3>6 DEF GivenTo
  <2>10. Given(x, b, rbt') = Given(x, b, rem) + run
    <3>1. SumOver(J[x].CPUB, 1..b[x]) \in Int
          BY BurstSums
    <3>2. rem[x] \in Nat
          OBVIOUS
    <3> QED BY <2>8, <3>1, <3>2 DEF Given
  <2>11. /\ Given(x, b, rem) \in Int /\ Away(x, b) \in Int /\ AllGiven(b, rem) \in Int
         /\ J[x].atime \in Nat /\ wait[x] \in Int /\ from[x] \in Nat
         BY GivenInt
  <2>12. AllGiven(b, rbt') + lost = f.time
    <3>1. AllGiven(b, rem) + lost = t
          BY <1>3
    <3>2. PICK a, g \in Int : a = AllGiven(b, rem) /\ g = Given(x, b, rem)
          BY <2>11
    <3>3. AllGiven(b, rbt') = a + (g + run) - g
          BY <2>9, <2>10, <3>2
    <3>4. a + lost = t
          BY <3>1, <3>2
    <3>5. (a + (g + run) - g) + lost = t + run
          BY <3>4, SumMoves
    <3> QED BY <2>5, <3>3, <3>5
  <2>13. wait'[x] + Given(x, b, rbt') + Away(x, b) = f.time - J[x].atime
    <3>1. wait[x] + Given(x, b, rem) + Away(x, b) = from[x] - J[x].atime
          BY <2>1 DEF Books
    <3>2. PICK w, g, o, s, u \in Int : /\ w = wait[x] /\ g = Given(x, b, rem) /\ o = Away(x, b)
                                      /\ s = from[x] /\ u = J[x].atime
          BY <2>11
    <3>3. w + g + o = s - u
          BY <3>1, <3>2
    <3>4. (w + t - s) + (g + run) + o = (t + run) - u
          BY <3>3, TimeAddsUp
    <3>5. wait'[x] = w + t - s /\ Given(x, b, rbt') = g + run
          BY <2>8, <2>10, <3>2
    <3> QED BY <2>5, <3>2, <3>4, <3>5
  <2>14. IF f.type = "end" THEN rbt'[x] = 0 ELSE rbt'[x] >= 1
    <3>1. rem[x] \in Nat
          OBVIOUS
    <3>2. CASE run = rem[x]
          BY <2>5, <2>8, <3>1, <3>2
    <3>3. CASE run # rem[x]
      <4>1. rem[x] - run >= 1
            BY <2>2, <3>1, <3>3
      <4> QED BY <2>5, <2>8, <3>3, <4>1
    <3> QED BY <3>2, <3>3
  <2>15. Books(Entries(EQ'), RQ', rbt', since', wait', b)
    <3>1. ASSUME NEW e \in Entries(EQ')
          PROVE  /\ wait'[e.p] + Given(e.p, b, rbt') + Away(e.p, b) = e.time - J[e.p].atime
                 /\ IF e.type = "end" THEN rbt'[e.p] = 0 ELSE rbt'[e.p] >= 1
      <4>1. CASE e = f
            BY <2>5, <2>13, <2>14, <4>1
      <4>2. CASE e \in E
        <5>1. e.p \in Processes \ {x}
              BY <2>6, <4>2 DEF Events
        <5>2. /\ wait[e.p] + Given(e.p, b, rem) + Away(e.p, b) = e.time - J[e.p].atime
              /\ IF e.type = "end" THEN rem[e.p] = 0 ELSE rem[e.p] >= 1
              BY <4>2 DEF Books
        <5> QED BY <2>8, <2>9, <5>1, <5>2
      <4> QED BY <2>4, <4>1, <4>2
    <3>2. ASSUME NEW p \in Queued(RQ')
          PROVE  /\ wait'[p] + Given(p, b, rbt') + Away(p, b) = since'[p] - J[p].atime
                 /\ rbt'[p] >= 1
          BY <2>7, <2>8, <2>9 DEF Books
    <3> QED BY <3>1, <3>2 DEF Books
  <2>16. Filled(Entries(EQ'), running', t, lost, rbt', b)
    <3>1. \A e \in Entries(EQ') : e.p = x => e = f
          BY <2>4, <2>6
    <3>2. x # 0
          BY <1>1
    <3> QED BY <2>4, <2>12, <3>1, <3>2 DEF Filled
  <2>17. \A p \in Gone(exits') : p # x
    <3>1. x \in Pending(EQ')
          BY <2>4, <2>5 DEF Pending
    <3> QED BY <1>2, <3>1
  <2>18. wait' \in [Processes -> Int]
    <3>1. wait[x] + t - from[x] \in Int
          BY <2>11
    <3> QED BY <2>4, <3>1
  <2> QED BY <2>8, <2>15, <2>16, <2>17, <2>18 DEF Paid
<1>4. CASE ~(free /\ Q # <<>>)
  <2>1. /\ Entries(EQ') = E /\ RQ' = Q /\ running' = IF free THEN 0 ELSE running
        /\ rbt' = rem /\ since' = from /\ wait' = wait
        BY <1>4 DEF Turn
  <2>2. Books(Entries(EQ'), RQ', rbt', since', wait', b)
        BY <2>1
  <2>3. Filled(Entries(EQ'), running', t, lost, rbt', b)
    <3>1. CASE free
      <4>1. \A e \in E : e.p # 0
            BY <1>1 DEF Events
      <4> QED BY <2>1, <3>1, <4>1 DEF Filled
    <3>2. CASE ~free
          BY <2>1, <3>2
    <3> QED BY <3>1, <3>2
  <2> QED BY <2>1, <2>2, <2>3 DEF Paid
<1> QED BY <1>3, <1>4 DEF Paid

-----------------------------------------------------------------------------
(* The accounts of a round *)

Accounts ==
    /\ wait \in [Processes -> Int]
    /\ phase # "run" => wait = [p \in Processes |-> 0]
    /\ phase = "run" =>
          /\ idle \in Int
          /\ Books(Entries(EQ), RQ, rbt, since, wait, bno)
          /\ Filled(Entries(EQ), running, now, idle, rbt, bno)
          /\ Logged(exits, rbt, wait, bno)

LEMMA Settled ==
    ASSUME J \in Inputs, J' = J, SchedulerInv', phase' = "run", wait \in [Processes -> Int],
           NEW q \in Nat, NEW E, NEW Q, NEW free \in BOOLEAN, NEW rem,
           NEW from \in [Processes -> Nat], NEW t \in Nat, NEW b, NEW lost \in Int,
           b = bno', lost = idle', t = now',
           Due(E, Q, free, rem, from, t, b, lost), Turn(E, Q, free, rem, from, t, q),
           Logged(exits', rem, wait, b)
    PROVE  Accounts'
<1>1. Paid(t, b, lost, rem)
      BY TurnBooks
<1>2. /\ Books(Entries(EQ'), RQ', rbt', since', wait', b) /\ wait' \in [Processes -> Int]
      /\ Filled(Entries(EQ'), running', t, lost, rbt', b)
      /\ \A p \in Gone(exits') : p \in Processes => wait'[p] = wait[p] /\ rbt'[p] = rem[p]
      BY <1>1 DEF Paid
<1>3. Logged(exits', rbt', wait', b)
  <2>1. \A i \in 1..Len(exits') : exits'[i].p \in Gone(exits') /\ exits'[i].p \in Processes
        BY DEF Logged, Gone
  <2> QED BY <1>2, <2>1 DEF Logged
<1>4. Books(Entries(EQ), RQ, rbt, since, wait, bno)'
  <2>1. Entries(EQ)' = Entries(EQ')
        BY DEF Entries
  <2> QED BY <1>2, <2>1 DEF Books, Given, Away
<1>5. Filled(Entries(EQ), running, now, idle, rbt, bno)'
  <2>1. Entries(EQ)' = Entries(EQ')
        BY DEF Entries
  <2>2. AllGiven(bno, rbt)' = AllGiven(b, rbt')
        BY DEF AllGiven, Given
  <2> QED BY <1>2, <2>1, <2>2 DEF Filled
<1>6. Logged(exits, rbt, wait, bno)'
      BY <1>3 DEF Logged, ExitOf
<1> QED BY <1>2, <1>4, <1>5, <1>6 DEF Accounts

(* The time until event e is given to who runs, or idle. *)
LEMMA TimeFills ==
    ASSUME SchedulerInv, Accounts, phase = "run", NEW types, Take(types),
           NEW e \in Entries(EQ), e = EQ[1], NEW E, E = Entries(EQ) \ {e}
    PROVE  /\ e \in Events /\ e.p \in Processes /\ e.time \in Nat /\ idle' \in Int
           /\ now' = e.time /\ E \subseteq Events /\ Counts(bno, rbt)
           /\ e.p \notin Queued(RQ) /\ e.p \notin Gone(exits) /\ \A x \in E : x.p # e.p
           /\ IF running = 0 \/ e.type \notin Joins
              THEN AllGiven(bno, rbt) + idle' = e.time /\ \A x \in E : x.type \in Joins
              ELSE running # 0 /\ Filled(E, running, e.time, idle', rbt, bno)
<1>1. Entries(EQ) \subseteq Events
      BY LoopFacts, LenProperties, ElementOfSeq DEF Heap, Entries
<1>2. e \in Events /\ e.p \in Processes /\ e.time \in Nat /\ e.p # 0
  <2>1. \A p \in Processes : p # 0
        BY SchedulerAssumption DEF SchedulerAssumption, Processes
  <2> QED BY <1>1, <2>1 DEF Events
<1>3. now' = e.time /\ idle' = IF running = 0 THEN idle + e.time - now ELSE idle
      BY DEF Take
<1>4. now \in Nat /\ idle \in Int /\ Filled(Entries(EQ), running, now, idle, rbt, bno)
      BY LoopFacts DEF Accounts
<1>5. Counts(bno, rbt)
      BY LoopFacts DEF Counts, SchedulerInv
<1>6. /\ \A x \in E : x.p # e.p
      /\ e.p \notin Queued(RQ) /\ e.p \notin Gone(exits)
  <2>1. Placed(EQ, RQ, Gone(exits)) /\ Single(Entries(EQ))
        BY LoopFacts DEF Placed, Heap
  <2>2. e.p \in Pending(EQ)
        BY DEF Pending
  <2> QED BY <2>1, <2>2 DEF Placed, Single
<1>7. AllGiven(bno, rbt) \in Int
      BY <1>5, GivenInt DEF Counts, SchedulerInv
<1>8. \A x \in Entries(EQ) : x.type \notin Joins <=> x.p = running
      BY LoopFacts
<1>9. CASE running = 0 \/ e.type \notin Joins
  <2>1. \A x \in E : x.type \in Joins
    <3>1. \A x \in E : x.p # running
      <4>1. CASE running = 0
        <5>1. \A x \in Events : x.p # 0
              BY SchedulerAssumption DEF SchedulerAssumption, Processes, Events
        <5> QED BY <1>1, <4>1, <5>1
      <4>2. CASE running # 0
            BY <1>6, <1>8, <1>9, <4>2
      <4> QED BY <4>1, <4>2
    <3> QED BY <1>8, <3>1
  <2>2. AllGiven(bno, rbt) + idle' = e.time
    <3>1. PICK a \in Int : a = AllGiven(bno, rbt)
          BY <1>7
    <3>2. CASE running = 0
      <4>1. a + idle = now
            BY <1>4, <3>1, <3>2 DEF Filled
      <4>2. idle' = idle + e.time - now
            BY <1>3, <3>2
      <4> QED BY <1>2, <1>4, <3>1, <4>1, <4>2
    <3>3. CASE running # 0
      <4>1. e.p = running
            BY <1>8, <1>9, <3>3
      <4> QED BY <1>3, <1>4, <3>3, <4>1 DEF Filled
    <3> QED BY <3>2, <3>3
  <2>3. idle' \in Int
        BY <1>2, <1>3, <1>4
  <2> QED BY <1>1, <1>2, <1>3, <1>5, <1>6, <1>9, <2>1, <2>2, <2>3
<1>10. CASE ~(running = 0 \/ e.type \notin Joins)
  <2>1. running # 0 /\ idle' = idle
        BY <1>3, <1>10
  <2>2. Filled(E, running, e.time, idle', rbt, bno)
        BY <1>4, <2>1 DEF Filled
  <2> QED BY <1>1, <1>2, <1>3, <1>4, <1>5, <1>6, <1>10, <2>1, <2>2
<1> QED BY <1>9, <1>10

(* An event that makes a process ready, ... *)
LEMMA QueuedDue ==
    ASSUME SchedulerInv, Accounts, phase = "run", NEW types, Take(types),
           NEW e \in Entries(EQ), e = EQ[1], e.type # "end",
           NEW free \in BOOLEAN, free <=> (running = 0 \/ e.type \notin Joins)
    PROVE  Due(Entries(EQ) \ {e}, Append(RQ, e.p), free, rbt, [since EXCEPT ![e.p] = e.time],
               e.time, bno, idle')
<1>1. PICK E, p, Q, from : /\ E = Entries(EQ) \ {e} /\ p = e.p /\ Q = Append(RQ, e.p)
                           /\ from = [since EXCEPT ![e.p] = e.time]
      OBVIOUS
<1>2. /\ e \in Events /\ p \in Processes /\ e.time \in Nat /\ idle' \in Int
      /\ E \subseteq Events /\ Counts(bno, rbt) /\ p \notin Queued(RQ)
      /\ \A x \in E : x.p # p
      /\ IF free
         THEN AllGiven(bno, rbt) + idle' = e.time /\ \A x \in E : x.type \in Joins
         ELSE running # 0 /\ Filled(E, running, e.time, idle', rbt, bno)
      BY <1>1, TimeFills
<1>3. RQ \in Seq(Processes) /\ since \in [Processes -> Nat] /\ rbt \in [Processes -> Nat]
      BY LoopFacts
<1>4. Q \in Seq(Processes) /\ Queued(Q) = Queued(RQ) \cup {p}
  <2>1. \A k, l \in 1..Len(RQ) : RQ[k] = RQ[l] => k = l
        BY LoopFacts
  <2> QED BY <1>1, <1>2, <1>3, <2>1, Appended
<1>5. Books(Entries(EQ), RQ, rbt, since, wait, bno)
      BY DEF Accounts
<1>6. Books(E, Q, rbt, from, wait, bno)
  <2>1. ASSUME NEW x \in Queued(Q)
        PROVE  /\ wait[x] + Given(x, bno, rbt) + Away(x, bno) = from[x] - J[x].atime
               /\ rbt[x] >= 1
    <3>1. CASE x = p
      <4>1. /\ wait[p] + Given(p, bno, rbt) + Away(p, bno) = e.time - J[p].atime
            /\ rbt[p] >= 1
            BY <1>1, <1>5 DEF Books
      <4>2. from[p] = e.time
            BY <1>1, <1>2, <1>3
      <4> QED BY <3>1, <4>1, <4>2
    <3>2. CASE x # p
      <4>1. x \in Queued(RQ) /\ x \in Processes
        <5>1. \A k \in 1..Len(RQ) : RQ[k] \in Processes
              BY <1>3, ElementOfSeq
        <5> QED BY <1>4, <2>1, <3>2, <5>1 DEF Queued
      <4>2. from[x] = since[x]
            BY <1>1, <1>3, <3>2, <4>1
      <4> QED BY <1>5, <4>1, <4>2 DEF Books
    <3> QED BY <3>1, <3>2
  <2>2. \A x \in E : x \in Entries(EQ)
        BY <1>1
  <2> QED BY <1>5, <2>1, <2>2 DEF Books
<1> QED BY <1>1, <1>2, <1>4, <1>6 DEF Due

LEMMA JoinAccounts ==
    ASSUME SchedulerInv, Accounts, Join
    PROVE  Accounts'
<1>1. /\ SchedulerInv' /\ phase = "run" /\ phase' = "run" /\ J \in Inputs /\ J' = J
      /\ bno' = bno /\ exits' = exits /\ Take(Joins)
      BY JoinKeeps DEF Join, Take, SchedulerInv
<1>2. PICK e \in Entries(EQ) : e = EQ[1] /\ e.type \in Joins /\ JoinTurn(e)
      BY JoinKeeps
<1>3. PICK free \in BOOLEAN : free = (running = 0)
      OBVIOUS
<1>4. e.type # "end" /\ (free <=> (running = 0 \/ e.type \notin Joins))
      BY <1>2, <1>3 DEF Joins
<1>5. PICK q \in Nat : q = quantum
      BY <1>1, LoopFacts
<1>6. PICK b, lost, t : b = bno /\ lost = idle' /\ t = e.time
      OBVIOUS
<1>7. t \in Nat /\ lost \in Int /\ t = now' /\ e.p \in Processes
      BY <1>1, <1>2, <1>6, TimeFills
<1>8. PICK from \in [Processes -> Nat] : from = [since EXCEPT ![e.p] = e.time]
  <2>1. since \in [Processes -> Nat]
        BY <1>1, LoopFacts
  <2> QED BY <1>6, <1>7, <2>1
<1>9. Due(Entries(EQ) \ {e}, Append(RQ, e.p), free, rbt, from, t, b, lost)
      BY <1>1, <1>2, <1>4, <1>6, <1>8, QueuedDue
<1>10. Turn(Entries(EQ) \ {e}, Append(RQ, e.p), free, rbt, from, t, q)
       BY <1>2, <1>3, <1>5, <1>6, <1>8 DEF JoinTurn
<1>11. wait \in [Processes -> Int] /\ Logged(exits', rbt, wait, b)
       BY <1>1, <1>6 DEF Accounts
<1>12. b = bno' /\ lost = idle'
       BY <1>1, <1>6
<1> QED BY <1>1, <1>7, <1>9, <1>10, <1>11, <1>12, Settled

LEMMA TimeOutAccounts ==
    ASSUME SchedulerInv, Accounts, TimeOut
    PROVE  Accounts'
<1>1. /\ SchedulerInv' /\ phase = "run" /\ phase' = "run" /\ J \in Inputs /\ J' = J
      /\ bno' = bno /\ exits' = exits /\ Take({"timeout"})
      BY TimeOutKeeps DEF TimeOut, Take, SchedulerInv
<1>2. PICK e \in Entries(EQ) : e = EQ[1] /\ e.type = "timeout" /\ TimeOutTurn(e)
      BY TimeOutKeeps
<1>3. PICK free \in BOOLEAN : free = TRUE
      OBVIOUS
<1>4. e.type # "end" /\ (free <=> (running = 0 \/ e.type \notin Joins))
      BY <1>2, <1>3 DEF Joins
<1>5. PICK q \in Nat : q = quantum
      BY <1>1, LoopFacts
<1>6. PICK b, lost, t : b = bno /\ lost = idle' /\ t = e.time
      OBVIOUS
<1>7. t \in Nat /\ lost \in Int /\ t = now' /\ e.p \in Processes
      BY <1>1, <1>2, <1>6, TimeFills
<1>8. PICK from \in [Processes -> Nat] : from = [since EXCEPT ![e.p] = e.time]
  <2>1. since \in [Processes -> Nat]
        BY <1>1, LoopFacts
  <2> QED BY <1>6, <1>7, <2>1
<1>9. Due(Entries(EQ) \ {e}, Append(RQ, e.p), free, rbt, from, t, b, lost)
      BY <1>1, <1>2, <1>4, <1>6, <1>8, QueuedDue
<1>10. Turn(Entries(EQ) \ {e}, Append(RQ, e.p), free, rbt, from, t, q)
       BY <1>2, <1>3, <1>5, <1>6, <1>8 DEF TimeOutTurn
<1>11. wait \in [Processes -> Int] /\ Logged(exits', rbt, wait, b)
       BY <1>1, <1>6 DEF Accounts
<1>12. b = bno' /\ lost = idle'
       BY <1>1, <1>6
<1> QED BY <1>1, <1>7, <1>9, <1>10, <1>11, <1>12, Settled

LEMMA IOAddsUp ==
    ASSUME NEW w \in Int, NEW g \in Int, NEW o \in Int, NEW t \in Int, NEW u \in Int,
           NEW i \in Int, w + g + o = t - u
    PROVE  w + g + (o + i) = (t + i) - u
OBVIOUS

(* ... the end of a burst with another to come, ... *)
LEMMA StartIOAccounts ==
    ASSUME SchedulerInv, Accounts, StartIO
    PROVE  Accounts'
<1>1. /\ SchedulerInv' /\ phase = "run" /\ phase' = "run" /\ J \in Inputs /\ J' = J
      /\ exits' = exits /\ Take({"end"})
      BY StartIOKeeps DEF StartIO, Take, SchedulerInv
<1>2. PICK e \in Entries(EQ), back \in Events :
                 /\ e = EQ[1] /\ e.type = "end"
                 /\ back = [time |-> e.time + J[e.p].IOB[bno[e.p]], p |-> e.p,
                            type |-> IF version = "student" THEN "io" ELSE "arrival"]
                 /\ bno[e.p] < Len(J[e.p].CPUB) /\ bno' = [bno EXCEPT ![e.p] = @ + 1]
                 /\ IOTurn(e, back)
      BY StartIOKeeps
<1>3. PICK E, p, k : E = Entries(EQ) \ {e} /\ p = e.p /\ k = bno[e.p]
      OBVIOUS
<1>4. PICK b, lost, t : b = bno' /\ lost = idle' /\ t = e.time
      OBVIOUS
<1>5. /\ p \in Processes /\ t \in Nat /\ lost \in Int /\ t = now' /\ E \subseteq Events
      /\ Counts(bno, rbt) /\ p \notin Queued(RQ) /\ p \notin Gone(exits)
      /\ \A x \in E : x.p # p
      /\ AllGiven(bno, rbt) + lost = t /\ \A x \in E : x.type \in Joins
  <2>1. e.type \notin Joins
        BY <1>2 DEF Joins
  <2>2. PICK types : types = {"end"}
        OBVIOUS
  <2>3. Take(types) /\ e = EQ[1] /\ E = Entries(EQ) \ {e}
        BY <1>1, <1>2, <1>3, <2>2
  <2>4. /\ e \in Events /\ e.p \in Processes /\ e.time \in Nat /\ idle' \in Int
        /\ now' = e.time /\ E \subseteq Events /\ Counts(bno, rbt)
        /\ e.p \notin Queued(RQ) /\ e.p \notin Gone(exits) /\ \A x \in E : x.p # e.p
        /\ AllGiven(bno, rbt) + idle' = e.time /\ \A x \in E : x.type \in Joins
        BY <1>1, <2>1, <2>3, TimeFills
  <2> QED BY <1>3, <1>4, <2>4
<1>6. /\ since \in [Processes -> Nat] /\ rbt \in [Processes -> Nat] /\ RQ \in Seq(Processes)
      /\ Books(Entries(EQ), RQ, rbt, since, wait, bno)
      /\ bno = [x \in Processes |-> bno[x]] /\ k \in 1..Len(J[p].CPUB) /\ k < Len(J[p].CPUB)
      BY <1>1, <1>2, <1>3, <1>5, LoopFacts DEF Accounts, SchedulerInv
<1>7. PICK c \in Nat : c = J[p].CPUB[k + 1] /\ c >= 1
  <2>1. Len(J[p].CPUB) \in Nat /\ k + 1 \in 1..Len(J[p].CPUB)
        BY <1>1, <1>5, <1>6, Bursts
  <2>2. J[p].CPUB \in Seq(Nat \ {0})
        BY <1>1, <1>5, SchedulerAssumption DEF SchedulerAssumption
  <2> QED BY <2>1, <2>2, ElementOfSeq
<1>8. PICK i \in Nat : i = J[p].IOB[k]
      BY <1>1, <1>5, <1>6, Bursts
<1>9. PICK rem, from : /\ rem = [rbt EXCEPT ![p] = c] /\ from = [since EXCEPT ![p] = t]
      OBVIOUS
<1>10. /\ rem \in [Processes -> Nat] /\ from \in [Processes -> Nat]
       /\ \A x \in Processes \ {p} : rem[x] = rbt[x] /\ b[x] = bno[x] /\ from[x] = since[x]
       /\ rem[p] = c /\ b[p] = k + 1 /\ from[p] = t
  <2>1. b = [bno EXCEPT ![p] = @ + 1]
        BY <1>2, <1>3, <1>4
  <2> QED BY <1>3, <1>5, <1>6, <1>9, <2>1
<1>11. Counts(b, rem)
  <2>1. \A x \in Processes : bno'[x] \in 1..Len(J'[x].CPUB)
        BY <1>1 DEF SchedulerInv
  <2> QED BY <1>1, <1>4, <1>10, <2>1 DEF Counts
<1>12. GivenTo(p, bno, rbt, b, rem)
       BY <1>1, <1>5, <1>10, <1>11, GivenChanged
<1>13. /\ Given(p, b, rem) = Given(p, bno, rbt) /\ Away(p, b) = Away(p, bno) + i
       /\ Given(p, bno, rbt) \in Int /\ Away(p, bno) \in Int
  <2>1. /\ SumOver(J[p].CPUB, 1..k) \in Int /\ SumOver(J[p].IOB, 1..k - 1) \in Int
        /\ SumOver(J[p].CPUB, 1..k + 1) = SumOver(J[p].CPUB, 1..k) + c
        /\ SumOver(J[p].IOB, 1..k + 1 - 1) = SumOver(J[p].IOB, 1..k - 1) + i
        BY <1>1, <1>5, <1>6, <1>7, <1>8, BurstSums
  <2>2. rbt[p] = 0
        BY <1>2, <1>3, <1>6 DEF Books
  <2>3. PICK s \in Int : s = SumOver(J[p].CPUB, 1..k)
        BY <2>1
  <2>4. Given(p, bno, rbt) = s - 0 /\ Given(p, b, rem) = (s + c) - c
        BY <1>3, <1>10, <2>1, <2>2, <2>3 DEF Given
  <2>5. Away(p, bno) = SumOver(J[p].IOB, 1..k - 1) /\ Away(p, b) = SumOver(J[p].IOB, 1..k + 1 - 1)
    <3>1. PICK m \in Nat : m = k
          BY <1>1, <1>5, <1>6, Bursts
    <3>2. PICK d : d = J[p].IOB
          OBVIOUS
    <3>3. Away(p, bno) = SumOver(d, 1..bno[p] - 1) /\ Away(p, b) = SumOver(d, 1..b[p] - 1)
          BY <3>2 DEF Away
    <3>4. bno[p] - 1 = m - 1 /\ b[p] - 1 = m + 1 - 1
          BY <1>3, <1>10, <3>1
    <3> QED BY <3>1, <3>2, <3>3, <3>4
  <2> QED BY <2>1, <2>4, <2>5
<1>14. AllGiven(b, rem) + lost = t
  <2>1. AllGiven(bno, rbt) \in Int
        BY <1>1, <1>5, GivenInt DEF Counts
  <2>2. PICK a \in Int, g \in Int : a = AllGiven(bno, rbt) /\ g = Given(p, bno, rbt)
        BY <1>13, <2>1
  <2>3. AllGiven(b, rem) = a + g - g
        BY <1>12, <1>13, <2>2 DEF GivenTo
  <2>4. a + lost = t
        BY <1>5, <2>2
  <2> QED BY <2>3, <2>4
<1>15. wait[p] + Given(p, b, rem) + Away(p, b) = back.time - J[p].atime
  <2>1. wait[p] + Given(p, bno, rbt) + Away(p, bno) = t - J[p].atime
        BY <1>2, <1>3, <1>4, <1>6 DEF Books
  <2>2. wait[p] \in Int /\ J[p].atime \in Nat /\ back.time = t + i
    <3>1. back.time = e.time + J[e.p].IOB[bno[e.p]]
          BY <1>2
    <3>2. J[p].atime \in Nat
          BY <1>1, <1>5, SchedulerAssumption DEF SchedulerAssumption
    <3> QED BY <1>3, <1>4, <1>5, <1>8, <3>1, <3>2 DEF Accounts
  <2>3. PICK w \in Int, g \in Int, o \in Int, u \in Int :
           w = wait[p] /\ g = Given(p, bno, rbt) /\ o = Away(p, bno) /\ u = J[p].atime
        BY <1>13, <2>2
  <2>4. w + g + (o + i) = (t + i) - u
    <3>1. w + g + o = t - u
          BY <2>1, <2>3
    <3>2. t \in Int /\ i \in Int
          BY <1>5
    <3> QED BY <3>1, <3>2, IOAddsUp
  <2> QED BY <1>13, <2>2, <2>3, <2>4
<1>16. Books(E \cup {back}, RQ, rem, from, wait, b)
  <2>1. ASSUME NEW x \in E \cup {back}
        PROVE  /\ wait[x.p] + Given(x.p, b, rem) + Away(x.p, b) = x.time - J[x.p].atime
               /\ IF x.type = "end" THEN rem[x.p] = 0 ELSE rem[x.p] >= 1
    <3>1. CASE x = back
      <4>1. x.p = p /\ x.type # "end"
            BY <1>2, <1>3, <3>1
      <4> QED BY <1>7, <1>10, <1>15, <3>1, <4>1
    <3>2. CASE x \in E
      <4>1. x \in Entries(EQ) /\ x.p \in Processes \ {p}
            BY <1>3, <1>5, <3>2 DEF Events
      <4>2. /\ wait[x.p] + Given(x.p, bno, rbt) + Away(x.p, bno) = x.time - J[x.p].atime
            /\ IF x.type = "end" THEN rbt[x.p] = 0 ELSE rbt[x.p] >= 1
            BY <1>6, <4>1 DEF Books
      <4> QED BY <1>10, <1>12, <4>1, <4>2 DEF GivenTo
    <3> QED BY <2>1, <3>1, <3>2
  <2>2. ASSUME NEW x \in Queued(RQ)
        PROVE  /\ wait[x] + Given(x, b, rem) + Away(x, b) = from[x] - J[x].atime
               /\ rem[x] >= 1
    <3>1. x \in Processes \ {p}
      <4>1. \A l \in 1..Len(RQ) : RQ[l] \in Processes
            BY <1>6, ElementOfSeq
      <4> QED BY <1>5, <4>1 DEF Queued
    <3>2. wait[x] + Given(x, bno, rbt) + Away(x, bno) = since[x] - J[x].atime /\ rbt[x] >= 1
          BY <1>6 DEF Books
    <3> QED BY <1>10, <1>12, <3>1, <3>2 DEF GivenTo
  <2> QED BY <2>1, <2>2 DEF Books
<1>17. PICK free \in BOOLEAN : free = TRUE
       OBVIOUS
<1>18. back.type \in Joins
       BY <1>2 DEF Joins
<1>19. Due(E \cup {back}, RQ, free, rem, from, t, b, lost)
       BY <1>2, <1>5, <1>6, <1>11, <1>14, <1>16, <1>17, <1>18 DEF Due
<1>20. PICK q \in Nat : q = quantum
       BY <1>1, LoopFacts
<1>21. Turn(E \cup {back}, RQ, free, rem, from, t, q)
       BY <1>2, <1>3, <1>4, <1>7, <1>9, <1>17, <1>20 DEF IOTurn
<1>22. wait \in [Processes -> Int] /\ Logged(exits', rem, wait, b)
  <2>1. Logged(exits, rbt, wait, bno)
        BY <1>1 DEF Accounts
  <2>2. \A l \in 1..Len(exits) : exits[l].p \in Processes \ {p}
        BY <1>5, <2>1 DEF Logged, Gone
  <2>3. Logged(exits, rem, wait, b)
        BY <1>10, <2>1, <2>2 DEF Logged
  <2> QED BY <1>1, <2>3 DEF Accounts
<1> QED BY <1>1, <1>4, <1>5, <1>10, <1>19, <1>21, <1>22, Settled

LEMMA WaitIsRest ==
    ASSUME NEW w \in Int, NEW c \in Int, NEW i \in Int, NEW t \in Int, NEW u \in Int,
           w + c + i = t - u
    PROVE  w = t - u - (c + i)
OBVIOUS

(* ... and the last one of a process, which exits. *)
LEMMA ExitAccounts ==
    ASSUME SchedulerInv, Accounts, Exit
    PROVE  Accounts' /\ exits' = Append(exits, ExitOf(J, EQ[1].p, EQ[1].time))
<1>1. /\ SchedulerInv' /\ phase = "run" /\ phase' = "run" /\ J \in Inputs /\ J' = J
      /\ bno' = bno /\ Take({"end"}) /\ version \in {"student", "instructor"}
      BY ExitKeeps, LoopFacts DEF Exit, Take, SchedulerInv
<1>2. PICK e \in Entries(EQ) : e = EQ[1] /\ e.type = "end" /\ ExitTurn(e)
      BY ExitKeeps
<1>3. PICK E, p : E = Entries(EQ) \ {e} /\ p = e.p
      OBVIOUS
<1>4. PICK b, lost, t : b = bno /\ lost = idle' /\ t = e.time
      OBVIOUS
<1>5. /\ p \in Processes /\ t \in Nat /\ lost \in Int /\ t = now' /\ E \subseteq Events
      /\ Counts(b, rbt) /\ p \notin Queued(RQ) /\ p \notin Gone(exits)
      /\ \A x \in E : x.p # p
      /\ AllGiven(b, rbt) + lost = t /\ \A x \in E : x.type \in Joins
  <2>1. e.type \notin Joins
        BY <1>2 DEF Joins
  <2>2. PICK types : types = {"end"}
        OBVIOUS
  <2>3. Take(types) /\ e = EQ[1] /\ E = Entries(EQ) \ {e}
        BY <1>1, <1>2, <1>3, <2>2
  <2>4. /\ e \in Events /\ e.p \in Processes /\ e.time \in Nat /\ idle' \in Int
        /\ now' = e.time /\ E \subseteq Events /\ Counts(bno, rbt)
        /\ e.p \notin Queued(RQ) /\ e.p \notin Gone(exits) /\ \A x \in E : x.p # e.p
        /\ AllGiven(bno, rbt) + idle' = e.time /\ \A x \in E : x.type \in Joins
        BY <1>1, <2>1, <2>3, TimeFills
  <2> QED BY <1>3, <1>4, <2>4
<1>6. /\ since \in [Processes -> Nat] /\ rbt \in [Processes -> Nat] /\ RQ \in Seq(Processes)
      /\ wait \in [Processes -> Int] /\ Books(Entries(EQ), RQ, rbt, since, wait, b)
      /\ Logged(exits, rbt, wait, b)
      BY <1>1, <1>4, LoopFacts DEF Accounts
<1>7. PICK from \in [Processes -> Nat] : from = [since EXCEPT ![p] = t]
      BY <1>5, <1>6
<1>8. Books(E, RQ, rbt, from, wait, b)
  <2>1. \A x \in Queued(RQ) : from[x] = since[x]
    <3>1. \A l \in 1..Len(RQ) : RQ[l] \in Processes
          BY <1>6, ElementOfSeq
    <3>2. \A x \in Queued(RQ) : x \in Processes \ {p}
          BY <1>5, <3>1 DEF Queued
    <3> QED BY <1>6, <1>7, <3>2
  <2>2. \A x \in E : x \in Entries(EQ)
        BY <1>3
  <2> QED BY <1>6, <2>1, <2>2 DEF Books
<1>9. PICK free \in BOOLEAN : free = TRUE
      OBVIOUS
<1>10. Due(E, RQ, free, rbt, from, t, b, lost)
       BY <1>5, <1>6, <1>8, <1>9 DEF Due
<1>11. PICK q \in Nat : q = quantum
       BY <1>1, LoopFacts
<1>12. Turn(E, RQ, free, rbt, from, t, q)
       BY <1>2, <1>3, <1>4, <1>7, <1>9, <1>11 DEF ExitTurn
<1>13. /\ wait[p] = t - J[p].atime - (Total(J[p].CPUB) + Total(J[p].IOB))
       /\ b[p] = Len(J[p].CPUB) /\ rbt[p] = 0
  <2>1. /\ wait[p] + Given(p, b, rbt) + Away(p, b) = t - J[p].atime /\ rbt[p] = 0
        BY <1>2, <1>3, <1>4, <1>6 DEF Books
  <2>2. b[p] = Len(J[p].CPUB)
        BY <1>2, <1>3, <1>4 DEF Exit
  <2>3. PICK k : k = b[p]
        OBVIOUS
  <2>4. k \in 1..Len(J[p].CPUB) /\ k = Len(J[p].CPUB)
        BY <1>5, <2>2, <2>3 DEF Counts
  <2>5. /\ SumOver(J[p].CPUB, 1..k) = Total(J[p].CPUB)
        /\ SumOver(J[p].IOB, 1..k - 1) = Total(J[p].IOB)
        /\ SumOver(J[p].CPUB, 1..k) \in Int /\ SumOver(J[p].IOB, 1..k - 1) \in Int
        BY <1>1, <1>5, <2>4, BurstSums
  <2>6. Given(p, b, rbt) = Total(J[p].CPUB) - 0 /\ Away(p, b) = Total(J[p].IOB)
        BY <2>1, <2>3, <2>5 DEF Given, Away
  <2>7. J[p].atime \in Nat /\ wait[p] \in Int
        BY <1>1, <1>5, <1>6, SchedulerAssumption DEF SchedulerAssumption
  <2>8. PICK w \in Int, c \in Int, i \in Int, u \in Int :
           w = wait[p] /\ c = Total(J[p].CPUB) /\ i = Total(J[p].IOB) /\ u = J[p].atime
        BY <2>5, <2>7
  <2>9. w + c + i = t - u
        BY <2>1, <2>6, <2>8
  <2>10. w = t - u - (c + i)
    <3>1. t \in Int
          BY <1>5
    <3> QED BY <2>9, <3>1, WaitIsRest
  <2> QED BY <2>1, <2>2, <2>8, <2>10
<1>14. exits' = Append(exits, ExitOf(J, p, t))
  <2>1. PICK z : z = ExitOf(J, p, t)
        OBVIOUS
  <2>2. exits' = Append(exits, [time |-> t, p |-> p, tat |-> t - J[p].atime,
                  wait |-> IF version = "student" THEN wait[p]
                           ELSE t - J[p].atime - (Total(J[p].CPUB) + Total(J[p].IOB))])
        BY <1>2, <1>3, <1>4 DEF Exit
  <2>3. z = [time |-> t, p |-> p, tat |-> t - J[p].atime,
             wait |-> t - J[p].atime - (Total(J[p].CPUB) + Total(J[p].IOB))]
        BY <2>1 DEF ExitOf
  <2> QED BY <1>13, <2>1, <2>2, <2>3
<1>15. Logged(exits', rbt, wait, b)
  <2>1. PICK S : exits \in Seq(S)
    <3>1. phase = "run" => \E S : exits \in Seq(S)
          BY DEF SchedulerInv
    <3> QED BY <1>1, <3>1
  <2>2. PICK z : z = ExitOf(J, p, t)
        OBVIOUS
  <2>3. PICK x : x = Append(exits, z)
        OBVIOUS
  <2>4. PICK c \in Nat : c = Len(exits)
        BY <2>1, LenProperties
  <2>5. Len(x) = c + 1 /\ x[c + 1] = z /\ \A l \in 1..c : x[l] = exits[l]
        BY <2>1, <2>3, <2>4, AppendProperties
  <2>6. z.p = p /\ z.time = t /\ z.wait = t - J[p].atime - (Total(J[p].CPUB) + Total(J[p].IOB))
        BY <2>2 DEF ExitOf
  <2>7. \A l \in 1..c : exits[l].p \in Processes /\ exits[l].p # p
        BY <1>5, <1>6, <2>4 DEF Logged, Gone
  <2>8. \A l \in 1..Len(x) : l \in 1..c \/ l = c + 1
        BY <2>4, <2>5
  <2>9. ASSUME NEW l \in 1..Len(x)
        PROVE  /\ x[l].p \in Processes /\ x[l] = ExitOf(J, x[l].p, x[l].time)
               /\ wait[x[l].p] = x[l].wait
               /\ b[x[l].p] = Len(J[x[l].p].CPUB) /\ rbt[x[l].p] = 0
    <3>1. CASE l \in 1..c
          BY <1>6, <2>4, <2>5, <3>1 DEF Logged
    <3>2. CASE l = c + 1
          BY <1>5, <1>13, <2>2, <2>5, <2>6, <3>2
    <3> QED BY <2>8, <3>1, <3>2
  <2>10. ASSUME NEW l \in 1..Len(x), NEW m \in 1..Len(x), x[l].p = x[m].p PROVE l = m
    <3>1. CASE l \in 1..c /\ m \in 1..c
          BY <1>6, <2>4, <2>5, <2>10, <3>1 DEF Logged
    <3>2. CASE l = c + 1 /\ m \in 1..c
          BY <2>5, <2>6, <2>7, <2>10, <3>2
    <3>3. CASE l \in 1..c /\ m = c + 1
          BY <2>5, <2>6, <2>7, <2>10, <3>3
    <3> QED BY <2>8, <3>1, <3>2, <3>3
  <2>11. Logged(x, rbt, wait, b)
         BY <2>9, <2>10 DEF Logged
  <2> QED BY <1>14, <2>2, <2>3, <2>11
<1>16. b = bno' /\ lost = idle'
       BY <1>1, <1>4
<1>17. Accounts'
       BY <1>1, <1>5, <1>6, <1>10, <1>12, <1>15, <1>16, Settled
<1> QED BY <1>2, <1>3, <1>4, <1>14, <1>17

LEMMA NothingAddsUp ==
    ASSUME NEW F, IsFiniteSet(F), NEW f, \A i \in F : f[i] = 0
    PROVE  SumOver(f, F) = 0
<1> DEFINE K == {s \in SUBSET F : SumOver(f, s) = 0}
<1>1. ASSUME NEW s \in SUBSET F, \A u \in SUBSET s : u # s => u \in K PROVE s \in K
  <2>1. IsFiniteSet(s) /\ \A i \in s : f[i] \in Int
        BY FS_Subset
  <2>2. CASE s = {}
        BY <2>1, <2>2, SumSplit
  <2>3. CASE s # {}
    <3>1. PICK x \in s : TRUE
          BY <2>3
    <3>2. s \ {x} \in K
          BY <1>1, <3>1
    <3>3. SumOver(f, s) = f[x] + SumOver(f, s \ {x})
          BY <2>1, <3>1, SumPeel
    <3> QED BY <2>1, <3>1, <3>2, <3>3
  <2> QED BY <2>2, <2>3
<1>2. SUBSET F \subseteq K
  <2> HIDE DEF K
  <2> QED BY <1>1, SubsetInduction
<1> QED BY <1>2

(* A round begins with nothing given, ... *)
LEMMA BeginAccounts ==
    ASSUME SchedulerInv, Accounts, Begin, version \in {"student", "instructor"}
    PROVE  Accounts'
<1>1. /\ J \in Inputs /\ J' = J /\ phase' = "run" /\ now' = 0 /\ idle' = 0 /\ RQ' = <<>>
      /\ running' = 0 /\ bno' = [p \in Processes |-> 1] /\ exits' = <<>> /\ wait' = wait
      /\ rbt' = [p \in Processes |-> J[p].CPUB[1]]
      /\ wait = [p \in Processes |-> 0] /\ wait \in [Processes -> Int]
      BY DEF SchedulerInv, Accounts, Begin
<1>2. Entries(EQ') = Entries(Arrivals)
  <2>1. EQ' = pushed \/ EQ' = makeheap
        BY DEF Begin
  <2>2. Entries(pushed) = Entries(Arrivals)
        BY <1>1, Pushed
  <2>3. Entries(makeheap) = Entries(Arrivals)
        BY <1>1, MadeHeap
  <2> QED BY ONLY <2>1, <2>2, <2>3
<1>3. ASSUME NEW e \in Entries(EQ')
      PROVE  e.p \in Processes /\ e.p # 0 /\ e.type # "end" /\ e.time = J[e.p].atime
  <2>1. PICK p \in 1..n : e = Arrivals[p]
    <3>1. Len(Arrivals) = n
          BY <1>1, ArrivalsAre
    <3>2. e \in Entries(Arrivals)
          BY <1>2
    <3> QED BY ONLY <3>1, <3>2 DEF Entries
  <2> QED BY <1>1, <2>1, ArrivalsAre DEF Processes
<1>4. PICK b, rem : b = bno' /\ rem = rbt'
      OBVIOUS
<1>5. ASSUME NEW p \in Processes
      PROVE  /\ Given(p, b, rem) = 0 /\ Away(p, b) = 0 /\ rem[p] >= 1
             /\ rem[p] \in Nat /\ wait[p] = 0 /\ J[p].atime \in Nat
  <2>1. Len(J[p].CPUB) \in Nat \ {0}
        BY <1>1, Bursts
  <2>2. 1 \in 1..Len(J[p].CPUB)
        BY <2>1
  <2>3. J[p].CPUB \in Seq(Nat \ {0}) /\ J[p].atime \in Nat
        BY <1>1, SchedulerAssumption DEF SchedulerAssumption
  <2>4. J[p].CPUB[1] \in Nat \ {0}
        BY <2>2, <2>3, ElementOfSeq
  <2>5. SumOver(J[p].CPUB, 1..1) = J[p].CPUB[1] /\ SumOver(J[p].IOB, 1..1 - 1) = 0
        BY <1>1, <2>2, BurstSums
  <2>6. b[p] = 1 /\ rem[p] = J[p].CPUB[1] /\ wait[p] = 0
        BY <1>1, <1>4
  <2>7. Given(p, b, rem) = J[p].CPUB[1] - J[p].CPUB[1]
        BY <2>5, <2>6 DEF Given
  <2> QED BY <2>3, <2>4, <2>5, <2>6, <2>7 DEF Away
<1>6. AllGiven(b, rem) = 0
  <2>1. PICK f : f = [p \in Processes |-> Given(p, b, rem)]
        OBVIOUS
  <2>2. \A p \in Processes : f[p] = 0
        BY <1>5, <2>1
  <2>3. IsFiniteSet(Processes)
        BY SchedulerAssumption, FS_Interval DEF SchedulerAssumption, Processes
  <2>4. SumOver(f, Processes) = 0
        BY <2>2, <2>3, NothingAddsUp
  <2> QED BY <2>1, <2>4 DEF AllGiven
<1>7. Books(Entries(EQ'), <<>>, rem, since', wait, b)
  <2>1. Queued(<<>>) = {}
        BY DEF Queued
  <2>2. ASSUME NEW e \in Entries(EQ')
        PROVE  wait[e.p] + Given(e.p, b, rem) + Away(e.p, b) = e.time - J[e.p].atime
    <3>1. J[e.p].atime - J[e.p].atime = 0
          BY <1>3, <1>5
    <3> QED BY <1>3, <1>5, <3>1
  <2> QED BY <1>3, <1>5, <2>1, <2>2 DEF Books
<1>8. Filled(Entries(EQ'), 0, 0, 0, rem, b)
      BY <1>3, <1>6 DEF Filled
<1>9. Entries(EQ)' = Entries(EQ')
      BY DEF Entries
<1>10. Books(Entries(EQ), RQ, rbt, since, wait, bno)'
  <2>1. \A p : Given(p, bno, rbt)' = Given(p, b, rem) /\ Away(p, bno)' = Away(p, b)
        BY <1>1, <1>4 DEF Given, Away
  <2>2. /\ RQ' = <<>> /\ Queued(<<>>) = {} /\ wait' = wait /\ J' = J /\ rbt' = rem
        BY <1>1, <1>4 DEF Queued
  <2>3. ASSUME NEW e \in Entries(EQ')
        PROVE  /\ (wait[e.p] + Given(e.p, bno, rbt) + Away(e.p, bno) = e.time - J[e.p].atime)'
               /\ IF e.type = "end" THEN rem[e.p] = 0 ELSE rem[e.p] >= 1
        BY <1>7, <2>1, <2>2 DEF Books
  <2> QED BY <1>9, <2>2, <2>3 DEF Books, Queued
<1>11. Filled(Entries(EQ), running, now, idle, rbt, bno)'
  <2>1. AllGiven(bno, rbt)' = AllGiven(b, rem)
        BY <1>1, <1>4 DEF AllGiven, Given
  <2> QED BY <1>1, <1>4, <1>8, <1>9, <2>1 DEF Filled
<1>12. Logged(exits, rbt, wait, bno)'
       BY <1>1 DEF Logged
<1> QED BY <1>1, <1>10, <1>11, <1>12 DEF Accounts

(* In either program the waiting time that has been counted for a process, *)
(* what it has run and its IO fill the time since it arrived; what the CPU *)
(* has given to all and its idle time fill the time of the round; and what *)
(* is noted of an exit agrees with both.                                   *)
THEOREM AccountsKept == Spec => []Accounts
<1>1. Init => Accounts
      BY DEF Init, Accounts
<1>2. SchedulerInv /\ VersionIs /\ Accounts /\ [Next]_vars => Accounts'
  <2> SUFFICES ASSUME SchedulerInv, VersionIs, Accounts, [Next]_vars PROVE Accounts'
      OBVIOUS
  <2>1. CASE Begin
    <3>1. version \in {"student", "instructor"}
          BY <2>1 DEF Begin, VersionIs
    <3> QED BY <2>1, <3>1, BeginAccounts
  <2>2. CASE Join
        BY <2>2, JoinAccounts
  <2>3. CASE TimeOut
        BY <2>3, TimeOutAccounts
  <2>4. CASE StartIO
        BY <2>4, StartIOAccounts
  <2>5. CASE Exit
        BY <2>5, ExitAccounts
  <2>6. CASE Finish
    <3>1. wait' = [p \in Processes |-> 0] /\ phase' = "start"
          BY <2>6 DEF Finish
    <3> QED BY <3>1 DEF Accounts
  <2>7. CASE UNCHANGED vars
    <3>1. /\ J' = J /\ phase' = phase /\ wait' = wait /\ idle' = idle /\ EQ' = EQ /\ RQ' = RQ
          /\ rbt' = rbt /\ since' = since /\ bno' = bno /\ running' = running /\ now' = now
          /\ exits' = exits
          BY <2>7 DEF vars
    <3> QED BY <3>1 DEF Accounts, Books, Filled, Logged, Given, Away, AllGiven, ExitOf, Entries
  <2> QED BY <2>1, <2>2, <2>3, <2>4, <2>5, <2>6, <2>7 DEF Next
<1> QED BY <1>1, <1>2, Invariance, PTL DEF Spec

-----------------------------------------------------------------------------
(* The report *)

(* What a round prints, from who exits when. *)
Summary(x, t) ==
    [exits |-> x, total |-> t, wait |-> Total([i \in DOMAIN x |-> x[i].wait]), idle |-> t - Busy]

(* h lists F, without repeats, and f of what it lists is g. *)
Lists(h, c, F, f, g) ==
    /\ \A i, j \in 1..c : h[i] = h[j] => i = j
    /\ \A i \in 1..c : h[i] \in F /\ g[i] \in Int /\ f[h[i]] = g[i]
    /\ \A y \in F : \E i \in 1..c : y = h[i]

(* A sum over who is listed is the sum over the list. *)
LEMMA SumListed ==
    ASSUME NEW c \in Nat, NEW h, NEW f, NEW g, NEW F, Lists(h, c, F, f, g)
    PROVE  SumOver(f, F) = SumOver(g, 1..c)
<1> USE DEF Lists
<1> DEFINE R(k) == {h[i] : i \in 1..k}
           I == {k \in Nat : k <= c => IsFiniteSet(R(k)) /\ SumOver(f, R(k)) = SumOver(g, 1..k)}
<1>1. 0 \in I
  <2>1. R(0) = {} /\ 1..0 = {}
        OBVIOUS
  <2>2. SumOver(f, {}) = 0 /\ SumOver(g, {}) = 0 /\ IsFiniteSet({})
    <3>1. IsFiniteSet({}) /\ (\A i \in {} : f[i] \in Int) /\ \A i \in {} : g[i] \in Int
          BY FS_EmptySet
    <3> QED BY <3>1, SumSplit
  <2> QED BY <2>1, <2>2
<1>2. ASSUME NEW k \in I \cap Nat, k + 1 <= c PROVE k + 1 \in I
  <2>1. IsFiniteSet(R(k)) /\ SumOver(f, R(k)) = SumOver(g, 1..k)
        BY <1>2
  <2>2. PICK x : x = h[k + 1]
        OBVIOUS
  <2>3. \A i \in 1..k + 1 : i \in 1..c /\ (i \in 1..k \/ i = k + 1)
        BY <1>2
  <2>4. \A i \in 1..k : h[i] # x
        BY <1>2, <2>2
  <2>5. PICK S, T : S = R(k) /\ T = R(k + 1)
        OBVIOUS
  <2>6. T = S \cup {x} /\ T \ {x} = S /\ x \in T
    <3>1. \A y \in T : y \in S \cup {x}
      <4>1. \A y \in T : \E i \in 1..k + 1 : y = h[i]
            BY <2>5
      <4> QED BY <2>2, <2>3, <2>5, <4>1
    <3>2. x \in T
      <4>1. k + 1 \in 1..k + 1
            OBVIOUS
      <4> QED BY <2>2, <2>5, <4>1
    <3>3. \A y \in S : y \in T /\ y # x
          BY <2>4, <2>5
    <3> QED BY <3>1, <3>2, <3>3
  <2>7. IsFiniteSet(T)
    <3>1. IsFiniteSet(S)
          BY <2>1, <2>5
    <3>2. IsFiniteSet(S \cup {x})
          BY <3>1, FS_AddElement
    <3> QED BY <2>6, <3>2
  <2>8. \A y \in T : f[y] \in Int
        BY <1>2, <2>3, <2>5
  <2>9. SumOver(f, T) = f[x] + SumOver(f, S)
        BY <2>6, <2>7, <2>8, SumPeel
  <2>10. SumOver(g, 1..k + 1) = SumOver(g, 1..k) + g[k + 1] /\ SumOver(g, 1..k) \in Int
    <3>1. \A i \in 1..k + 1 : g[i] \in Int
          BY <2>3
    <3> QED BY <3>1, SumUpto
  <2>11. f[x] = g[k + 1] /\ g[k + 1] \in Int
    <3>1. k + 1 \in 1..c
          BY <1>2
    <3> QED BY <2>2, <3>1
  <2>12. SumOver(f, T) = SumOver(g, 1..k + 1)
    <3>1. PICK a \in Int, b \in Int : a = SumOver(g, 1..k) /\ b = g[k + 1]
          BY <2>10, <2>11
    <3>2. SumOver(f, S) = a
          BY <2>1, <2>5, <3>1
    <3> QED BY <2>9, <2>10, <2>11, <3>1, <3>2
  <2> QED BY <2>5, <2>7, <2>12
<1>3. \A k \in I \cap Nat : k + 1 \in I
  <2> SUFFICES ASSUME NEW k \in I \cap Nat PROVE k + 1 \in I
      OBVIOUS
  <2>1. CASE k + 1 <= c
        BY <1>2, <2>1
  <2>2. CASE ~(k + 1 <= c)
        BY <2>2
  <2> QED BY <2>1, <2>2
<1>4. Nat \subseteq I
  <2> HIDE DEF I
  <2> QED BY <1>1, <1>3, NumberInduction
<1>5. c \in I
      BY <1>4
<1>6. R(c) = F
      OBVIOUS
<1>7. SumOver(f, R(c)) = SumOver(g, 1..c)
      BY <1>5
<1> HIDE DEF R
<1> QED BY <1>6, <1>7

(* At the end of a round everybody has exited, ... *)
LEMMA AllAreGone ==
    ASSUME SchedulerInv, Accounts, phase = "run", EQ = <<>>
    PROVE  /\ running = 0 /\ Gone(exits) = Processes /\ Logged(exits, rbt, wait, bno)
           /\ AllGiven(bno, rbt) + idle = now /\ now \in Nat /\ idle \in Int
           /\ Len(exits) \in Nat /\ DOMAIN exits = 1..Len(exits) /\ wait \in [Processes -> Int]
           /\ J \in Inputs
<1>1. Entries(EQ) = {} /\ Pending(EQ) = {}
  <2>1. Len(<<>>) = 0
        OBVIOUS
  <2>2. Entries(EQ) = {}
        BY <2>1 DEF Entries
  <2> QED BY <2>2 DEF Pending
<1>2. running = 0
      BY <1>1 DEF SchedulerInv, Running, Loop
<1>3. RQ = <<>>
      BY <1>2, LoopFacts
<1>4. Gone(exits) = Processes
  <2>1. Queued(RQ) = {}
        BY <1>3 DEF Queued
  <2>2. /\ Processes = Pending(EQ) \cup Queued(RQ) \cup Gone(exits)
        BY LoopFacts DEF Placed
  <2> QED BY <1>1, <2>1, <2>2
<1>5. PICK S : exits \in Seq(S)
      BY DEF SchedulerInv
<1>6. Len(exits) \in Nat /\ DOMAIN exits = 1..Len(exits)
      BY <1>5, LenProperties
<1>7. AllGiven(bno, rbt) + idle = now /\ idle \in Int /\ Logged(exits, rbt, wait, bno)
      BY <1>2 DEF Accounts, Filled
<1> QED BY <1>2, <1>4, <1>6, <1>7, LoopFacts DEF Accounts, SchedulerInv

(* ... and what is printed follows from who exited when, in either program. *)
LEMMA ReportIs ==
    ASSUME SchedulerInv, Accounts, phase = "run", EQ = <<>>
    PROVE  Report = Summary(exits, now)
<1>1. /\ Gone(exits) = Processes /\ Logged(exits, rbt, wait, bno)
      /\ AllGiven(bno, rbt) + idle = now /\ now \in Nat /\ idle \in Int
      /\ wait \in [Processes -> Int] /\ J \in Inputs
      BY AllAreGone
<1>2. PICK c \in Nat : c = Len(exits) /\ DOMAIN exits = 1..c
      BY AllAreGone
<1>3. PICK h, g : /\ h = [i \in 1..c |-> exits[i].p]
                  /\ g = [i \in 1..c |-> exits[i].wait]
      OBVIOUS
<1>4. \A i \in 1..c : /\ h[i] \in Processes /\ g[i] = wait[h[i]] /\ g[i] \in Int
                      /\ bno[h[i]] = Len(J[h[i]].CPUB) /\ rbt[h[i]] = 0
      BY <1>1, <1>2, <1>3 DEF Logged
<1>5. \A i, j \in 1..c : h[i] = h[j] => i = j
      BY <1>1, <1>2, <1>3 DEF Logged
<1>6. {h[i] : i \in 1..c} = Processes
  <2>1. \A p \in Processes : \E i \in 1..c : p = exits[i].p
        BY <1>1, <1>2 DEF Gone
  <2>2. \A p \in Processes : p \in {h[i] : i \in 1..c}
        BY <1>3, <2>1
  <2> QED BY <1>4, <2>2
<1>7. SumOver(wait, Processes) = Total([i \in DOMAIN exits |-> exits[i].wait])
  <2>1. SumOver(wait, Processes) = SumOver(g, 1..c)
    <3>1. PICK w : w = wait
          OBVIOUS
    <3>2. Lists(h, c, Processes, w, g)
          BY <1>4, <1>5, <1>6, <3>1 DEF Lists
    <3>3. SumOver(w, Processes) = SumOver(g, 1..c)
          BY <3>2, SumListed
    <3> QED BY <3>1, <3>3
  <2>2. DOMAIN g = 1..c /\ g = [i \in DOMAIN exits |-> exits[i].wait]
        BY <1>2, <1>3
  <2> QED BY <2>1, <2>2 DEF Total
<1>8. AllGiven(bno, rbt) = Busy /\ AllGiven(bno, rbt) \in Int
  <2>1. PICK f, k : /\ f = [p \in Processes |-> Given(p, bno, rbt)]
                    /\ k = [p \in Processes |-> Total(J[p].CPUB)]
        OBVIOUS
  <2>2. ASSUME NEW p \in Processes PROVE f[p] \in Int /\ f[p] = k[p]
    <3>1. bno[p] = Len(J[p].CPUB) /\ rbt[p] = 0
          BY <1>4, <1>6
    <3>2. Len(J[p].CPUB) \in 1..Len(J[p].CPUB)
      <4>1. Len(J[p].CPUB) \in Nat \ {0}
            BY <1>1, Bursts
      <4> QED BY <4>1
    <3>3. /\ SumOver(J[p].CPUB, 1..Len(J[p].CPUB)) = Total(J[p].CPUB)
          /\ SumOver(J[p].CPUB, 1..Len(J[p].CPUB)) \in Int
          BY <1>1, <3>2, BurstSums
    <3>4. Given(p, bno, rbt) = Total(J[p].CPUB) - 0 /\ Total(J[p].CPUB) \in Int
          BY <3>1, <3>3 DEF Given
    <3> QED BY <2>1, <3>4
  <2>3. IsFiniteSet(Processes)
        BY SchedulerAssumption, FS_Interval DEF SchedulerAssumption, Processes
  <2>4. SumOver(f, Processes) = SumOver(k, Processes)
    <3>1. \A p \in Processes : k[p] \in Int /\ f[p] = k[p]
          BY <2>2
    <3> QED BY <2>3, <3>1, SumSame
  <2>5. SumOver(f, Processes) \in Int
    <3>1. \A p \in Processes : f[p] \in Int
          BY <2>2
    <3> QED BY <2>3, <3>1, SumSplit
  <2> QED BY <2>1, <2>4, <2>5 DEF AllGiven, Busy
<1>9. now - Busy = idle
  <2>1. PICK a \in Int : a = Busy /\ a + idle = now
        BY <1>1, <1>8
  <2> QED BY <1>1, <2>1
<1>10. PICK w : w = Total([i \in DOMAIN exits |-> exits[i].wait])
       OBVIOUS
<1>11. /\ (IF version = "student" THEN SumOver(wait, Processes) ELSE w) = w
       /\ (IF version = "student" THEN idle ELSE now - Busy) = now - Busy
       BY <1>7, <1>9, <1>10
<1>12. Report = [exits |-> exits, total |-> now, wait |-> w, idle |-> now - Busy]
       BY <1>10, <1>11 DEF Report
<1> QED BY <1>10, <1>12 DEF Summary

-----------------------------------------------------------------------------
(* One order of the events *)

(* The loop without its heap: a state has the set of the pending events,   *)
(* where what makes a process ready is an arrival, and an event has an     *)
(* effect on it.  D is the contents of proc.txt.                           *)
Plain(e) == [time |-> e.time, p |-> e.p, type |-> IF e.type \in Joins THEN "arrival" ELSE e.type]
Plains(E) == {Plain(e) : e \in E}

State(P, Q, r, b, rem, x, t) ==
    [pend |-> P, queue |-> Q, running |-> r, bno |-> b, rbt |-> rem, log |-> x, now |-> t]

Burst(q, left, x, t) ==
    LET run == IF left <= q THEN left ELSE q
    IN  [time |-> t + run, p |-> x, type |-> IF run = left THEN "end" ELSE "timeout"]

(* The end of an iteration, with P pending. *)
Went(q, P, Q, free, r, b, rem, x, t) ==
    IF free /\ Q # <<>>
    THEN State(P \cup {Burst(q, rem[Head(Q)], Head(Q), t)}, Tail(Q), Head(Q), b,
               [rem EXCEPT ![Head(Q)] = @ - (IF @ <= q THEN @ ELSE q)], x, t)
    ELSE State(P, Q, IF free THEN 0 ELSE r, b, rem, x, t)

Back(D, b, y) == [time |-> y.time + D[y.p].IOB[b[y.p]], p |-> y.p, type |-> "arrival"]

Queues(q, s, y, free) ==
    Went(q, s.pend \ {y}, Append(s.queue, y.p), free, s.running, s.bno, s.rbt, s.log, y.time)
Leaves(D, q, s, y) ==
    Went(q, (s.pend \ {y}) \cup {Back(D, s.bno, y)}, s.queue, TRUE, s.running,
         [s.bno EXCEPT ![y.p] = @ + 1],
         [s.rbt EXCEPT ![y.p] = D[y.p].CPUB[s.bno[y.p] + 1]], s.log, y.time)
Exits(D, q, s, y) ==
    Went(q, s.pend \ {y}, s.queue, TRUE, s.running, s.bno, s.rbt,
         Append(s.log, ExitOf(D, y.p, y.time)), y.time)

Effect(D, q, s, y) ==
    IF y.type = "arrival" THEN Queues(q, s, y, s.running = 0)
    ELSE IF y.type = "timeout" THEN Queues(q, s, y, TRUE)
    ELSE IF s.bno[y.p] < Len(D[y.p].CPUB) THEN Leaves(D, q, s, y)
    ELSE Exits(D, q, s, y)

Seen == State(Plains(Entries(EQ)), RQ, running, bno, rbt, exits, now)

LEMMA PlainsAre ==
    /\ \A e : Plain(e).time = e.time /\ Plain(e).p = e.p
    /\ \A e : e.type \in Joins => Plain(e).type = "arrival"
    /\ \A e : e.type \notin Joins => Plain(e).type = e.type
    /\ \A E, f : Plains(E \cup {f}) = Plains(E) \cup {Plain(f)}
    /\ \A E, e : e \in E /\ (\A x \in E \ {e} : x.p # e.p)
                    => Plains(E \ {e}) = Plains(E) \ {Plain(e)}
<1>1. /\ \A e : Plain(e).time = e.time /\ Plain(e).p = e.p
      /\ \A e : e.type \in Joins => Plain(e).type = "arrival"
      /\ \A e : e.type \notin Joins => Plain(e).type = e.type
      BY DEF Plain
<1>2. \A E, f : Plains(E \cup {f}) = Plains(E) \cup {Plain(f)}
  <2> HIDE DEF Plain
  <2> QED BY DEF Plains
<1>3. ASSUME NEW E, NEW e \in E, \A x \in E \ {e} : x.p # e.p
      PROVE  Plains(E \ {e}) = Plains(E) \ {Plain(e)}
  <2>1. \A x \in E \ {e} : Plain(x) # Plain(e)
        BY <1>1, <1>3
  <2> HIDE DEF Plain
  <2> QED BY <2>1 DEF Plains
<1> QED BY <1>1, <1>2, <1>3

(* What the decision that ends a step makes of the state that is seen.     *)
SeenTurn(q, P, Q, free, rem, t, b, x) ==
    State(Plains(Entries(EQ')), RQ', running', b, rbt', x, t)
      = Went(q, P, Q, free, running, b, rem, x, t)

(* The end of an iteration, of the program and of the abstract loop. *)
LEMMA TurnSeen ==
    ASSUME NEW q \in Nat, NEW E, NEW Q \in Seq(Processes), NEW free \in BOOLEAN,
           NEW rem \in [Processes -> Nat], NEW from, NEW t \in Nat, NEW b, NEW x,
           Turn(E, Q, free, rem, from, t, q)
    PROVE  SeenTurn(q, Plains(E), Q, free, rem, t, b, x)
<1>1. CASE free /\ Q # <<>>
  <2>1. PICK p \in Processes : p = Head(Q)
        BY <1>1, HeadTailProperties
  <2>2. PICK f : f = Burst(q, rem[p], p, t)
        OBVIOUS
  <2>3. /\ Entries(EQ') = E \cup {f} /\ RQ' = Tail(Q) /\ running' = p
        /\ rbt' = [rem EXCEPT ![p] = @ - (IF @ <= q THEN @ ELSE q)]
        BY <1>1, <2>1, <2>2 DEF Turn, Burst
  <2>4. Plain(f) = f
        BY <2>2 DEF Plain, Burst, Joins
  <2>5. Plains(Entries(EQ')) = Plains(E) \cup {f}
        BY <2>3, <2>4, PlainsAre
  <2> QED BY <1>1, <2>1, <2>2, <2>3, <2>5 DEF Went, SeenTurn
<1>2. CASE ~(free /\ Q # <<>>)
      BY <1>2 DEF Turn, Went, SeenTurn
<1> QED BY <1>1, <1>2

(* A step takes the first event, and has its effect. *)
Stepping(e) ==
    /\ e \in Entries(EQ) /\ e = EQ[1] /\ J' = J /\ round' = round /\ version' = version
    /\ phase' = "run" /\ output' = output
    /\ Seen' = Effect(J, quantum, Seen, Plain(e))

LEMMA TakenSeen ==
    ASSUME SchedulerInv, NEW types, Take(types), NEW e \in Entries(EQ), e = EQ[1]
    PROVE  /\ phase = "run" /\ J' = J /\ round' = round /\ version' = version /\ phase' = "run"
           /\ output' = output /\ now' = e.time /\ e \in Events
           /\ Plains(Entries(EQ) \ {e}) = Plains(Entries(EQ)) \ {Plain(e)}
           /\ quantum \in Nat /\ RQ \in Seq(Processes) /\ rbt \in [Processes -> Nat]
<1>1. /\ phase = "run" /\ J' = J /\ round' = round /\ version' = version /\ phase' = "run"
      /\ output' = output /\ now' = e.time
      BY DEF Take
<1>2. /\ quantum \in Nat /\ RQ \in Seq(Processes) /\ rbt \in [Processes -> Nat]
      /\ Placed(EQ, RQ, Gone(exits)) /\ Heap(EQ)
      BY <1>1, LoopFacts
<1>3. \A x \in Entries(EQ) \ {e} : x.p # e.p
      BY <1>2 DEF Heap, Single
<1>4. Entries(EQ) \subseteq Events
      BY <1>2, LenProperties, ElementOfSeq DEF Heap, Entries
<1>5. Plains(Entries(EQ) \ {e}) = Plains(Entries(EQ)) \ {Plain(e)}
      BY <1>3, PlainsAre
<1> QED BY <1>1, <1>2, <1>4, <1>5

LEMMA SeenIs ==
    /\ Seen.pend = Plains(Entries(EQ)) /\ Seen.queue = RQ /\ Seen.running = running
    /\ Seen.bno = bno /\ Seen.rbt = rbt /\ Seen.log = exits /\ Seen.now = now
    /\ Seen' = State(Plains(Entries(EQ')), RQ', running', bno', rbt', exits', now')
<1>1. Plains(Entries(EQ))' = Plains(Entries(EQ'))
      BY DEF Plains, Entries, Plain
<1> QED BY <1>1 DEF Seen, State

(* The step takes e, whose process joins the queue.                        *)
SeenQueued(e, free) == Seen' = Queues(quantum, Seen, Plain(e), free)

LEMMA QueueSeen ==
    ASSUME SchedulerInv, NEW types, Take(types), NEW e \in Entries(EQ), e = EQ[1],
           NEW free \in BOOLEAN, NEW from, bno' = bno, exits' = exits,
           Turn(Entries(EQ) \ {e}, Append(RQ, e.p), free, rbt, from, e.time, quantum)
    PROVE  SeenQueued(e, free)
<1>1. /\ now' = e.time /\ e \in Events /\ e.p \in Processes /\ e.time \in Nat
      /\ Plains(Entries(EQ) \ {e}) = Plains(Entries(EQ)) \ {Plain(e)}
      /\ RQ \in Seq(Processes) /\ rbt \in [Processes -> Nat]
      BY TakenSeen DEF Events
<1>2. PICK q, E, Q, b, x, rem :
                           /\ rem = rbt /\ q = quantum /\ E = Entries(EQ) \ {e} /\ Q = Append(RQ, e.p)
                           /\ b = bno /\ x = exits /\ q \in Nat
      BY TakenSeen
<1>3. Q \in Seq(Processes)
      BY <1>1, <1>2, AppendProperties
<1>4. State(Plains(Entries(EQ')), RQ', running', b, rbt', x, e.time)
        = Went(q, Plains(E), Q, free, running, b, rem, x, e.time)
  <2>1. Turn(E, Q, free, rem, from, e.time, q)
        BY <1>2
  <2>2. PICK t \in Nat : t = e.time
        BY <1>1
  <2>3. rem \in [Processes -> Nat] /\ q \in Nat
        BY <1>1, <1>2
  <2>4. SeenTurn(q, Plains(E), Q, free, rem, t, b, x)
        BY <1>3, <2>1, <2>2, <2>3, TurnSeen
  <2> QED BY <2>2, <2>4 DEF SeenTurn
<1>5. Seen' = State(Plains(Entries(EQ')), RQ', running', b, rbt', x, e.time)
      BY <1>1, <1>2, SeenIs
<1>6. Plain(e).p = e.p /\ Plain(e).time = e.time
      BY PlainsAre
<1> QED BY <1>1, <1>2, <1>4, <1>5, <1>6, SeenIs DEF Queues, SeenQueued

LEMMA JoinSeen ==
    ASSUME SchedulerInv, Join
    PROVE  \E e : Stepping(e)
<1>1. PICK e \in Entries(EQ) : e = EQ[1] /\ e.type \in Joins /\ JoinTurn(e)
      BY JoinKeeps
<1>2. Take(Joins) /\ bno' = bno /\ exits' = exits
      BY DEF Join
<1>3. PICK free, from : /\ free = (running = 0) /\ free \in BOOLEAN
                        /\ from = [since EXCEPT ![e.p] = e.time]
      OBVIOUS
<1>4. Turn(Entries(EQ) \ {e}, Append(RQ, e.p), free, rbt, from, e.time, quantum)
      BY <1>1, <1>3 DEF JoinTurn
<1>5. Seen' = Queues(quantum, Seen, Plain(e), free)
      BY <1>1, <1>2, <1>3, <1>4, QueueSeen DEF SeenQueued
<1>6. Seen' = Effect(J, quantum, Seen, Plain(e))
  <2>1. Plain(e).type = "arrival" /\ Seen.running = running
        BY <1>1, PlainsAre, SeenIs
  <2> QED BY <1>3, <1>5, <2>1 DEF Effect
<1> QED BY <1>1, <1>2, <1>6, TakenSeen DEF Stepping

LEMMA TimeOutSeen ==
    ASSUME SchedulerInv, TimeOut
    PROVE  \E e : Stepping(e)
<1>1. PICK e \in Entries(EQ) : e = EQ[1] /\ e.type = "timeout" /\ TimeOutTurn(e)
      BY TimeOutKeeps
<1>2. PICK types : types = {"timeout"} /\ Take(types) /\ bno' = bno /\ exits' = exits
      BY DEF TimeOut
<1>3. PICK free, from : /\ free = TRUE /\ free \in BOOLEAN
                        /\ from = [since EXCEPT ![e.p] = e.time]
      OBVIOUS
<1>4. Turn(Entries(EQ) \ {e}, Append(RQ, e.p), free, rbt, from, e.time, quantum)
      BY <1>1, <1>3 DEF TimeOutTurn
<1>5. Seen' = Queues(quantum, Seen, Plain(e), free)
      BY <1>1, <1>2, <1>3, <1>4, QueueSeen DEF SeenQueued
<1>6. Seen' = Effect(J, quantum, Seen, Plain(e))
  <2>1. Plain(e).type = "timeout"
        BY <1>1, PlainsAre DEF Joins
  <2> QED BY <1>3, <1>5, <2>1 DEF Effect
<1> QED BY <1>1, <1>2, <1>6, TakenSeen DEF Stepping

LEMMA StartIOSeen ==
    ASSUME SchedulerInv, StartIO
    PROVE  \E e : Stepping(e)
<1>1. PICK e \in Entries(EQ), back \in Events :
                 /\ e = EQ[1] /\ e.type = "end"
                 /\ back = [time |-> e.time + J[e.p].IOB[bno[e.p]], p |-> e.p,
                            type |-> IF version = "student" THEN "io" ELSE "arrival"]
                 /\ bno[e.p] < Len(J[e.p].CPUB) /\ bno' = [bno EXCEPT ![e.p] = @ + 1]
                 /\ IOTurn(e, back)
      BY StartIOKeeps
<1>2. PICK types : types = {"end"} /\ Take(types) /\ exits' = exits
      BY DEF StartIO
<1>3. /\ now' = e.time /\ e \in Events /\ e.p \in Processes /\ e.time \in Nat
      /\ Plains(Entries(EQ) \ {e}) = Plains(Entries(EQ)) \ {Plain(e)}
      /\ RQ \in Seq(Processes) /\ rbt \in [Processes -> Nat] /\ J \in Inputs
      BY <1>1, <1>2, TakenSeen DEF Events, SchedulerInv
<1>4. PICK q, E, b, x, from :
         /\ q = quantum /\ q \in Nat /\ E = (Entries(EQ) \ {e}) \cup {back}
         /\ b = bno' /\ x = exits /\ from = [since EXCEPT ![e.p] = e.time]
      BY <1>1, <1>2, TakenSeen
<1>5. PICK rem \in [Processes -> Nat] : rem = [rbt EXCEPT ![e.p] = J[e.p].CPUB[bno[e.p] + 1]]
  <2>1. bno[e.p] \in 1..Len(J[e.p].CPUB)
        BY <1>1, <1>2, <1>3, TakenSeen DEF SchedulerInv
  <2>2. J[e.p].CPUB[bno[e.p] + 1] \in Nat
    <3>1. PICK k, c : k = bno[e.p] /\ c = Len(J[e.p].CPUB)
          OBVIOUS
    <3>2. c \in Nat /\ k \in 1..c /\ k < c
          BY <1>1, <1>3, <2>1, <3>1, Bursts
    <3>3. k + 1 \in 1..c
          BY <3>2
    <3> QED BY <1>3, <3>1, <3>3, Bursts
  <2> QED BY <1>3, <2>2
<1>6. Turn(E, RQ, TRUE, rem, from, e.time, q)
      BY <1>1, <1>4, <1>5 DEF IOTurn
<1>7. State(Plains(Entries(EQ')), RQ', running', b, rbt', x, e.time)
        = Went(q, Plains(E), RQ, TRUE, running, b, rem, x, e.time)
  <2>1. PICK free \in BOOLEAN : free = TRUE
        OBVIOUS
  <2>2. Turn(E, RQ, free, rem, from, e.time, q)
        BY <1>6, <2>1
  <2>3. PICK t, Q : t \in Nat /\ t = e.time /\ Q = RQ /\ Q \in Seq(Processes)
        BY <1>3
  <2>4. SeenTurn(q, Plains(E), Q, free, rem, t, b, x)
        BY <1>4, <2>2, <2>3, TurnSeen
  <2> QED BY <2>1, <2>3, <2>4 DEF SeenTurn
<1>8. Seen' = State(Plains(Entries(EQ')), RQ', running', b, rbt', x, e.time)
      BY <1>2, <1>3, <1>4, SeenIs
<1>9. /\ Plain(e).p = e.p /\ Plain(e).time = e.time /\ Plain(e).type = "end"
      /\ Plain(back) = Back(J, bno, Plain(e))
  <2>1. Plain(e).p = e.p /\ Plain(e).time = e.time /\ Plain(e).type = "end"
        BY <1>1, PlainsAre DEF Joins
  <2>2. back.type \in Joins
        BY <1>1 DEF Joins
  <2> QED BY <1>1, <2>1, <2>2 DEF Plain, Back
<1>10. Plains(E) = (Plains(Entries(EQ)) \ {Plain(e)}) \cup {Back(J, bno, Plain(e))}
  <2>1. PICK F : F = Entries(EQ) \ {e} /\ E = F \cup {back}
        BY <1>4
  <2>2. Plains(E) = Plains(F) \cup {Plain(back)}
        BY <2>1, PlainsAre
  <2> QED BY <1>3, <1>9, <2>1, <2>2
<1>11. Seen' = Leaves(J, quantum, Seen, Plain(e))
  <2>1. /\ b = [bno EXCEPT ![e.p] = @ + 1] /\ q = quantum /\ x = exits
        /\ rem = [rbt EXCEPT ![e.p] = J[e.p].CPUB[bno[e.p] + 1]]
        BY <1>1, <1>4, <1>5
  <2>2. Seen' = Went(q, Plains(E), RQ, TRUE, running, b, rem, x, e.time)
        BY <1>7, <1>8
  <2>3. PICK s, y : s = Seen /\ y = Plain(e)
        OBVIOUS
  <2>4. /\ s.pend = Plains(Entries(EQ)) /\ s.queue = RQ /\ s.running = running
        /\ s.bno = bno /\ s.rbt = rbt /\ s.log = exits
        BY <2>3, SeenIs
  <2>5. Plains(E) = (s.pend \ {y}) \cup {Back(J, s.bno, y)} /\ y.p = e.p /\ y.time = e.time
        BY <1>9, <1>10, <2>3, <2>4
  <2>6. Went(q, Plains(E), RQ, TRUE, running, b, rem, x, e.time) = Leaves(J, quantum, s, y)
        BY ONLY <2>1, <2>4, <2>5 DEF Leaves
  <2> QED BY <2>2, <2>3, <2>6
<1>12. Seen' = Effect(J, quantum, Seen, Plain(e))
       BY <1>1, <1>9, <1>11, SeenIs DEF Effect
<1> QED BY <1>1, <1>2, <1>12, TakenSeen DEF Stepping

LEMMA ExitSeen ==
    ASSUME SchedulerInv, Accounts, Exit
    PROVE  \E e : Stepping(e)
<1>1. PICK e \in Entries(EQ) : e = EQ[1] /\ e.type = "end" /\ ExitTurn(e)
      BY ExitKeeps
<1>2. PICK types : types = {"end"} /\ Take(types) /\ bno' = bno
      BY DEF Exit
<1>3. /\ now' = e.time /\ e \in Events /\ e.p \in Processes /\ e.time \in Nat
      /\ Plains(Entries(EQ) \ {e}) = Plains(Entries(EQ)) \ {Plain(e)}
      /\ RQ \in Seq(Processes) /\ rbt \in [Processes -> Nat] /\ J \in Inputs
      BY <1>1, <1>2, TakenSeen DEF Events, SchedulerInv
<1>4. PICK q, E, b, x, from :
         /\ q = quantum /\ q \in Nat /\ E = Entries(EQ) \ {e} /\ b = bno /\ x = exits'
         /\ from = [since EXCEPT ![e.p] = e.time]
      BY <1>1, <1>2, TakenSeen
<1>5. PICK free : free \in BOOLEAN /\ free = TRUE
      OBVIOUS
<1>6. Turn(E, RQ, free, rbt, from, e.time, q)
      BY <1>1, <1>4, <1>5 DEF ExitTurn
<1>7. State(Plains(Entries(EQ')), RQ', running', b, rbt', x, e.time)
        = Went(q, Plains(E), RQ, free, running, b, rbt, x, e.time)
  <2>1. PICK t, Q, rem : /\ t \in Nat /\ t = e.time /\ Q = RQ /\ Q \in Seq(Processes)
                         /\ rem = rbt /\ rem \in [Processes -> Nat]
        BY <1>3
  <2>2. Turn(E, Q, free, rem, from, t, q)
        BY <1>6, <2>1
  <2>3. SeenTurn(q, Plains(E), Q, free, rem, t, b, x)
        BY <1>4, <1>5, <2>1, <2>2, TurnSeen
  <2> QED BY <2>1, <2>3 DEF SeenTurn
<1>8. Seen' = State(Plains(Entries(EQ')), RQ', running', b, rbt', x, e.time)
      BY <1>2, <1>3, <1>4, SeenIs
<1>9. Plain(e).p = e.p /\ Plain(e).time = e.time /\ Plain(e).type = "end"
      BY <1>1, PlainsAre DEF Joins
<1>10. exits' = Append(exits, ExitOf(J, e.p, e.time))
       BY <1>1, ExitAccounts
<1>11. Seen' = Exits(J, quantum, Seen, Plain(e))
       BY <1>3, <1>4, <1>5, <1>7, <1>8, <1>9, <1>10, SeenIs DEF Exits
<1>12. ~(bno[e.p] < Len(J[e.p].CPUB))
  <2>1. bno[e.p] = Len(J[e.p].CPUB)
        BY <1>1 DEF Exit
  <2>2. Len(J[e.p].CPUB) \in Nat
        BY <1>3, Bursts
  <2> QED BY <2>1, <2>2
<1>13. Seen' = Effect(J, quantum, Seen, Plain(e))
       BY <1>9, <1>11, <1>12, SeenIs DEF Effect
<1> QED BY <1>1, <1>2, <1>13, TakenSeen DEF Stepping

(* The instructor's order, in which a run has only one way to go. *)
Sooner(a, b) ==
    \/ a.time < b.time
    \/ a.time = b.time /\ \/ rank[a.type] < rank[b.type]
                          \/ rank[a.type] = rank[b.type] /\ a.p < b.p

First(y, P) == y \in P /\ \A z \in P : z # y => Sooner(y, z)

Follows(D, q, s, u) == s.pend \subseteq Events /\ \E y : First(y, s.pend) /\ u = Effect(D, q, s, y)

Start(D) ==
    State({[time |-> D[p].atime, p |-> p, type |-> "arrival"] : p \in Processes}, <<>>, 0,
          [p \in Processes |-> 1], [p \in Processes |-> D[p].CPUB[1]], <<>>, 0)

History(D, q, h, k) ==
    k \in Nat /\ h[0] = Start(D) /\ \A i \in Nat : i < k => Follows(D, q, h[i], h[i + 1])

Reached(D, q, s) == \E h, k : History(D, q, h, k) /\ h[k] = s

LEMMA Ranks == \A e \in Events : rank[e.type] \in Nat /\ e.time \in Nat /\ e.p \in Int
  BY SchedulerAssumption DEF Events, Kinds, rank, Processes, SchedulerAssumption

LEMMA OneWay ==
    ASSUME NEW D, NEW q, NEW s, NEW u, NEW v, Follows(D, q, s, u), Follows(D, q, s, v)
    PROVE  u = v
<1>1. PICK y : First(y, s.pend) /\ u = Effect(D, q, s, y)
      BY DEF Follows
<1>2. PICK z : First(z, s.pend) /\ v = Effect(D, q, s, z)
      BY DEF Follows
<1>3. y = z
  <2>1. y \in Events /\ z \in Events
        BY <1>1, <1>2 DEF First, Follows
  <2>2. ASSUME y # z PROVE FALSE
    <3>1. Sooner(y, z) /\ Sooner(z, y)
          BY <1>1, <1>2, <2>2 DEF First
    <3>2. PICK a, b, c, d, i, j : /\ a = y.time /\ b = z.time /\ c = rank[y.type]
                                  /\ d = rank[z.type] /\ i = y.p /\ j = z.p
          OBVIOUS
    <3>3. /\ a \in Int /\ b \in Int /\ c \in Int /\ d \in Int /\ i \in Int /\ j \in Int
          BY <2>1, <3>2, Ranks
    <3>4. /\ a < b \/ (a = b /\ (c < d \/ (c = d /\ i < j)))
          /\ b < a \/ (b = a /\ (d < c \/ (d = c /\ j < i)))
          BY <3>1, <3>2 DEF Sooner
    <3> QED BY <3>3, <3>4
  <2> QED BY <2>2
<1> QED BY <1>1, <1>2, <1>3

LEMMA ReachedFirst == \A D, q : Reached(D, q, Start(D))
<1> SUFFICES ASSUME NEW D, NEW q PROVE Reached(D, q, Start(D))
    OBVIOUS
<1>1. PICK h : h = [i \in {0} |-> Start(D)]
      OBVIOUS
<1>2. History(D, q, h, 0) /\ h[0] = Start(D)
  <2>1. \A i \in Nat : ~(i < 0)
        OBVIOUS
  <2> QED BY <1>1, <2>1 DEF History
<1> QED BY <1>2 DEF Reached

LEMMA ReachedNext ==
    ASSUME NEW D, NEW q, NEW s, NEW u, Reached(D, q, s), Follows(D, q, s, u)
    PROVE  Reached(D, q, u)
<1>1. PICK h, k : History(D, q, h, k) /\ h[k] = s
      BY DEF Reached
<1>2. k \in Nat
      BY <1>1 DEF History
<1>3. PICK g : g = [i \in Nat |-> IF i <= k THEN h[i] ELSE u]
      OBVIOUS
<1>4. /\ \A i \in Nat : i <= k => g[i] = h[i]
      /\ g[k + 1] = u
      BY <1>2, <1>3
<1>5. ASSUME NEW i \in Nat, i < k + 1 PROVE Follows(D, q, g[i], g[i + 1])
  <2>1. CASE i < k
    <3>1. i <= k /\ i + 1 <= k /\ i + 1 \in Nat
          BY <1>2, <2>1
    <3> QED BY <1>1, <1>4, <2>1, <3>1 DEF History
  <2>2. CASE i = k
    <3>1. g[i] = s /\ g[i + 1] = u
          BY <1>1, <1>2, <1>4, <2>2
    <3> QED BY <3>1
  <2>3. i < k \/ i = k
        BY <1>2, <1>5
  <2> QED BY <2>1, <2>2, <2>3
<1>6. g[0] = Start(D) /\ k + 1 \in Nat
  <2>1. 0 <= k /\ 0 \in Nat
        BY <1>2
  <2> QED BY <1>1, <1>2, <1>4, <2>1 DEF History
<1>7. History(D, q, g, k + 1)
      BY <1>5, <1>6 DEF History
<1> QED BY <1>4, <1>7 DEF Reached

LEMMA SameWay ==
    ASSUME NEW D, NEW q, NEW h, NEW k, NEW g, NEW m, History(D, q, h, k), History(D, q, g, m)
    PROVE  \A i \in Nat : i <= k /\ i <= m => h[i] = g[i]
<1> DEFINE I == {i \in Nat : i <= k /\ i <= m => h[i] = g[i]}
<1>0. k \in Nat /\ m \in Nat
      BY DEF History
<1>1. 0 \in I
      BY DEF History
<1>2. ASSUME NEW i \in I \cap Nat PROVE i + 1 \in I
  <2>1. CASE i + 1 <= k /\ i + 1 <= m
    <3>1. i < k /\ i < m /\ i <= k /\ i <= m /\ i \in Nat
          BY <1>0, <2>1
    <3>2. h[i] = g[i]
          BY <3>1
    <3>3. Follows(D, q, h[i], h[i + 1]) /\ Follows(D, q, g[i], g[i + 1])
          BY <3>1 DEF History
    <3>4. h[i + 1] = g[i + 1]
      <4>1. PICK s, u, v : s = h[i] /\ u = h[i + 1] /\ v = g[i + 1]
            OBVIOUS
      <4>2. Follows(D, q, s, u) /\ Follows(D, q, s, v)
            BY <3>2, <3>3, <4>1
      <4>3. u = v
            BY <4>2, OneWay
      <4> QED BY <4>1, <4>3
    <3> QED BY <3>1, <3>4
  <2>2. CASE ~(i + 1 <= k /\ i + 1 <= m)
        BY <2>2
  <2> QED BY <2>1, <2>2
<1>3. Nat \subseteq I
  <2>1. \A i \in I \cap Nat : i + 1 \in I
        BY <1>2
  <2> HIDE DEF I
  <2> QED BY <1>1, <2>1, NumberInduction
<1> QED BY <1>3

(* There is only one way in which a run can end. *)
LEMMA OneEnd ==
    ASSUME NEW D, NEW q, NEW s, NEW u, Reached(D, q, s), Reached(D, q, u),
           s.pend = {}, u.pend = {}
    PROVE  s = u
<1>1. PICK h, k : History(D, q, h, k) /\ h[k] = s
      BY DEF Reached
<1>2. PICK g, m : History(D, q, g, m) /\ g[m] = u
      BY DEF Reached
<1>3. k \in Nat /\ m \in Nat /\ \A i \in Nat : i <= k /\ i <= m => h[i] = g[i]
  <2>1. \A i \in Nat : i <= k /\ i <= m => h[i] = g[i]
        BY <1>1, <1>2, SameWay
  <2> QED BY <1>1, <1>2, <2>1 DEF History
<1>4. \A v, w : Follows(D, q, v, w) => v.pend # {}
      BY DEF Follows, First
<1>5. CASE k < m
  <2>1. g[k] = s
        BY <1>1, <1>3, <1>5
  <2>2. Follows(D, q, g[k], g[k + 1])
        BY <1>2, <1>3, <1>5 DEF History
  <2> QED BY <1>4, <2>1, <2>2
<1>6. CASE m < k
  <2>1. h[m] = u
        BY <1>2, <1>3, <1>6
  <2>2. Follows(D, q, h[m], h[m + 1])
        BY <1>1, <1>3, <1>6 DEF History
  <2> QED BY <1>4, <2>1, <2>2
<1>7. CASE k = m
      BY <1>1, <1>2, <1>3, <1>7
<1> QED BY <1>3, <1>5, <1>6, <1>7

(* An end may come before the processes that become ready at its time: the *)
(* first of the queue runs either way.                                     *)
Latecomer(q, P, Q, r, b, rem, x, t, u, j) ==
    u = Went(q, P, Q, TRUE, r, b, rem, x, t) =>
        Queues(q, u, j, u.running = 0) = Went(q, P \ {j}, Append(Q, j.p), TRUE, r, b, rem, x, t)

LEMMA WentThen ==
    ASSUME NEW q, NEW P, NEW Q \in Seq(Processes), NEW r, NEW b, NEW rem, NEW x, NEW t,
           NEW j, j.type = "arrival", j.p \in Processes, j.time = t, NEW u
    PROVE  Latecomer(q, P, Q, r, b, rem, x, t, u, j)
<1> SUFFICES ASSUME u = Went(q, P, Q, TRUE, r, b, rem, x, t)
             PROVE  Queues(q, u, j, u.running = 0)
                      = Went(q, P \ {j}, Append(Q, j.p), TRUE, r, b, rem, x, t)
    BY DEF Latecomer
<1>1. PICK R, p : p = j.p /\ R = Append(Q, p)
      OBVIOUS
<1>2. R \in Seq(Processes) /\ R # <<>> /\ p \in Processes
  <2>1. R \in Seq(Processes) /\ Len(R) = Len(Q) + 1 /\ Len(Q) \in Nat
        BY <1>1, AppendProperties, LenProperties
  <2>2. Len(R) # 0
        BY <2>1
  <2> QED BY <1>1, <2>1, <2>2, EmptySeq
<1>3. CASE Q = <<>>
  <2>1. /\ u.pend = P /\ u.queue = Q /\ u.running = 0 /\ u.bno = b /\ u.rbt = rem /\ u.log = x
        BY <1>3 DEF Went, State
  <2>2. Queues(q, u, j, u.running = 0) = Went(q, P \ {j}, R, TRUE, 0, b, rem, x, t)
        BY <1>1, <2>1 DEF Queues
  <2>3. Went(q, P \ {j}, R, TRUE, 0, b, rem, x, t) = Went(q, P \ {j}, R, TRUE, r, b, rem, x, t)
        BY <1>2 DEF Went
  <2> QED BY <1>1, <2>2, <2>3
<1>4. CASE Q # <<>>
  <2>1. PICK y, T, c, m : /\ y = Head(Q) /\ T = Tail(Q) /\ c = Burst(q, rem[y], y, t)
                          /\ m = [rem EXCEPT ![y] = @ - (IF @ <= q THEN @ ELSE q)]
        OBVIOUS
  <2>2. /\ u.pend = P \cup {c} /\ u.queue = T /\ u.running = y /\ u.bno = b /\ u.rbt = m
        /\ u.log = x
        BY <1>4, <2>1 DEF Went, State
  <2>3. y \in Processes /\ y # 0 /\ T \in Seq(Processes)
    <3>1. y \in Processes /\ T \in Seq(Processes)
          BY <1>4, <2>1, HeadTailProperties
    <3>2. \A z \in Processes : z # 0
          BY SchedulerAssumption DEF SchedulerAssumption, Processes
    <3> QED BY <3>1, <3>2
  <2>4. Head(R) = y /\ Tail(R) = Append(T, p)
    <3>1. Q = <<y>> \o T
          BY <1>4, <2>1, HeadTailProperties
    <3>2. R \in Seq(Processes) /\ Head(R) = Head(Q)
          BY <1>1, <1>2, <1>4
    <3>3. Tail(Append(Q, p)) = Append(Tail(Q), p)
          BY <1>2, <1>4
    <3> QED BY <1>1, <2>1, <3>2, <3>3
  <2>5. Queues(q, u, j, u.running = 0) = State((P \cup {c}) \ {j}, Append(T, p), y, b, m, x, t)
    <3>1. Queues(q, u, j, u.running = 0)
            = Went(q, (P \cup {c}) \ {j}, Append(T, p), FALSE, y, b, m, x, t)
          BY <1>1, <2>2, <2>3 DEF Queues
    <3> QED BY <3>1 DEF Went
  <2>6. Went(q, P \ {j}, R, TRUE, r, b, rem, x, t)
          = State((P \ {j}) \cup {c}, Append(T, p), y, b, m, x, t)
        BY <1>2, <2>1, <2>4 DEF Went
  <2>7. (P \cup {c}) \ {j} = (P \ {j}) \cup {c}
    <3>1. c # j
          BY <2>1 DEF Burst
    <3> QED BY <3>1
  <2> QED BY <1>1, <2>5, <2>6, <2>7
<1> QED BY <1>3, <1>4

LEMMA Commute ==
    ASSUME NEW D, NEW q, NEW s, s.queue \in Seq(Processes), s.running # 0,
           NEW y \in s.pend, y.type = "end", NEW j \in s.pend, j.type = "arrival",
           j.p \in Processes, j.time = y.time, j.p # y.p
    PROVE  Effect(D, q, Effect(D, q, s, y), j) = Effect(D, q, Effect(D, q, s, j), y)
<1>1. PICK P, Q, r, b, rem, x, t :
         /\ P = s.pend /\ Q = s.queue /\ r = s.running /\ b = s.bno /\ rem = s.rbt /\ x = s.log
         /\ t = y.time
      OBVIOUS
<1>2. PICK v : v = Effect(D, q, s, j)
      OBVIOUS
<1>3. /\ v.pend = P \ {j} /\ v.queue = Append(Q, j.p) /\ v.running = r /\ v.bno = b
      /\ v.rbt = rem /\ v.log = x
  <2>1. v = Queues(q, s, j, FALSE)
        BY <1>1, <1>2 DEF Effect
  <2>2. v = State(P \ {j}, Append(Q, j.p), r, b, rem, x, j.time)
        BY <1>1, <2>1 DEF Queues, Went
  <2> QED BY <2>2 DEF State
<1>4. PICK u : u = Effect(D, q, s, y)
      OBVIOUS
<1>5. Effect(D, q, u, j) = Queues(q, u, j, u.running = 0)
      BY DEF Effect
<1>6. CASE b[y.p] < Len(D[y.p].CPUB)
  <2>1. PICK B, c, m : /\ B = Back(D, b, y) /\ c = [b EXCEPT ![y.p] = @ + 1]
                       /\ m = [rem EXCEPT ![y.p] = D[y.p].CPUB[b[y.p] + 1]]
        OBVIOUS
  <2>2. u = Went(q, (P \ {y}) \cup {B}, Q, TRUE, r, c, m, x, t)
        BY <1>1, <1>4, <1>6, <2>1 DEF Effect, Leaves
  <2>3. Effect(D, q, v, y) = Went(q, ((P \ {j}) \ {y}) \cup {B}, Append(Q, j.p), TRUE, r, c, m, x, t)
        BY <1>1, <1>3, <1>6, <2>1 DEF Effect, Leaves
  <2>4. ((P \ {y}) \cup {B}) \ {j} = ((P \ {j}) \ {y}) \cup {B}
    <3>1. B # j
          BY <2>1 DEF Back
    <3> QED BY <3>1
  <2>5. PICK S : S = (P \ {y}) \cup {B}
        OBVIOUS
  <2>6. Queues(q, u, j, u.running = 0) = Went(q, S \ {j}, Append(Q, j.p), TRUE, r, c, m, x, t)
    <3>1. Q \in Seq(Processes) /\ j.time = t
          BY <1>1
    <3>2. Latecomer(q, S, Q, r, c, m, x, t, u, j)
          BY <3>1, WentThen
    <3> QED BY <2>2, <2>5, <3>2 DEF Latecomer
  <2> QED BY <1>2, <1>4, <1>5, <2>3, <2>4, <2>5, <2>6
<1>7. CASE ~(b[y.p] < Len(D[y.p].CPUB))
  <2>1. PICK z : z = Append(x, ExitOf(D, y.p, y.time))
        OBVIOUS
  <2>2. u = Went(q, P \ {y}, Q, TRUE, r, b, rem, z, t)
        BY <1>1, <1>4, <1>7, <2>1 DEF Effect, Exits
  <2>3. Effect(D, q, v, y) = Went(q, (P \ {j}) \ {y}, Append(Q, j.p), TRUE, r, b, rem, z, t)
        BY <1>1, <1>3, <1>7, <2>1 DEF Effect, Exits
  <2>4. (P \ {y}) \ {j} = (P \ {j}) \ {y}
        OBVIOUS
  <2>5. PICK S : S = P \ {y}
        OBVIOUS
  <2>6. Queues(q, u, j, u.running = 0) = Went(q, S \ {j}, Append(Q, j.p), TRUE, r, b, rem, z, t)
    <3>1. Q \in Seq(Processes) /\ j.time = t
          BY <1>1
    <3>2. Latecomer(q, S, Q, r, b, rem, z, t, u, j)
          BY <3>1, WentThen
    <3> QED BY <2>2, <2>5, <3>2 DEF Latecomer
  <2> QED BY <1>2, <1>4, <1>5, <2>3, <2>4, <2>5, <2>6
<1> QED BY <1>6, <1>7

(* The end y of a burst, and processes that become ready at its time. *)
Early(D, s, y) ==
    /\ y \in s.pend /\ s.pend \subseteq Events /\ y.type = "end"
    /\ s.running # 0 /\ s.queue \in Seq(Processes) /\ s.rbt \in [Processes -> Nat]
    /\ \A z \in s.pend \ {y} : /\ z.type = "arrival" /\ z.time >= y.time
                               /\ z.p # y.p /\ s.rbt[z.p] >= 1
    /\ \E z \in s.pend \ {y} : z.time = y.time
    /\ s.bno[y.p] \in 1..Len(D[y.p].CPUB) /\ y.p \notin Queued(s.queue)
    /\ \A x \in Queued(s.queue) : s.rbt[x] >= 1

(* What comes of the end is later. *)
LEMMA EarlyLeaves ==
    ASSUME NEW D \in Inputs, NEW q \in Nat \ {0}, NEW s, NEW y, Early(D, s, y),
           NEW u, u = Effect(D, q, s, y)
    PROVE  /\ s.pend \ {y} \subseteq u.pend
           /\ \A z \in u.pend : z \in s.pend \ {y} \/ z.time > y.time
<1>1. PICK p, Q, t : p = y.p /\ Q = s.queue /\ t = y.time
      OBVIOUS
<1>2. /\ y \in Events /\ p \in Processes /\ t \in Nat /\ Q \in Seq(Processes)
      /\ s.rbt \in [Processes -> Nat] /\ p \notin Queued(Q)
      /\ \A x \in Queued(Q) : s.rbt[x] >= 1
      BY <1>1 DEF Early, Events
<1>3. /\ D[p].CPUB \in Seq(Nat \ {0}) /\ D[p].IOB \in Seq(Nat \ {0})
      /\ Len(D[p].IOB) = Len(D[p].CPUB) - 1 /\ Len(D[p].CPUB) \in Nat /\ Len(D[p].IOB) \in Nat
  <2>1. /\ D[p].CPUB \in Seq(Nat \ {0}) /\ D[p].IOB \in Seq(Nat \ {0})
        /\ Len(D[p].IOB) = Len(D[p].CPUB) - 1
        BY <1>2, SchedulerAssumption DEF SchedulerAssumption
  <2> QED BY <2>1, LenProperties
<1>4. ASSUME NEW P, NEW b, NEW rem, NEW x, rem \in [Processes -> Nat],
             \A i \in Queued(Q) : rem[i] = s.rbt[i],
             NEW w, w = Went(q, P, Q, TRUE, s.running, b, rem, x, t)
      PROVE  P \subseteq w.pend /\ \A z \in w.pend : z \in P \/ z.time > t
  <2>1. CASE Q = <<>>
        BY <1>4, <2>1 DEF Went, State
  <2>2. CASE Q # <<>>
    <3>1. PICK h, f : h = Head(Q) /\ f = Burst(q, rem[h], h, t)
          OBVIOUS
    <3>2. h \in Queued(Q) /\ h \in Processes
      <4>1. 1 \in 1..Len(Q) /\ h = Q[1] /\ h \in Processes
            BY <1>2, <2>2, <3>1, EmptySeq, LenProperties, HeadTailProperties
      <4> QED BY <4>1 DEF Queued
    <3>3. rem[h] \in Nat /\ rem[h] >= 1
          BY <1>2, <1>4, <3>2
    <3>4. f.time > t
      <4>1. PICK run \in Nat : run = (IF rem[h] <= q THEN rem[h] ELSE q) /\ run >= 1
            BY <3>3
      <4>2. f.time = t + run
            BY <3>1, <4>1 DEF Burst
      <4> QED BY <1>2, <4>1, <4>2
    <3>5. w.pend = P \cup {f}
          BY <1>4, <2>2, <3>1 DEF Went, State
    <3> QED BY <3>4, <3>5
  <2> QED BY <2>1, <2>2
<1>5. CASE s.bno[p] < Len(D[p].CPUB)
  <2>1. PICK B, P, b, rem : /\ B = Back(D, s.bno, y) /\ P = (s.pend \ {y}) \cup {B}
                            /\ b = [s.bno EXCEPT ![p] = @ + 1]
                            /\ rem = [s.rbt EXCEPT ![p] = D[p].CPUB[s.bno[p] + 1]]
        OBVIOUS
  <2>2. u = Went(q, P, Q, TRUE, s.running, b, rem, s.log, t)
        BY <1>1, <1>5, <2>1 DEF Effect, Leaves, Early
  <2>3. PICK k \in Nat : k = s.bno[p] /\ k >= 1 /\ k < Len(D[p].CPUB)
        BY <1>1, <1>3, <1>5 DEF Early
  <2>4. D[p].CPUB[k + 1] \in Nat
    <3>1. k + 1 \in 1..Len(D[p].CPUB)
      <4>1. Len(D[p].CPUB) \in Nat
            BY <1>3, LenProperties
      <4> QED BY ONLY k \in Nat, <2>3, <4>1
    <3> QED BY <1>3, <3>1, ElementOfSeq
  <2>5. rem \in [Processes -> Nat]
        BY <1>2, <2>1, <2>3, <2>4
  <2>6. \A i \in Queued(Q) : rem[i] = s.rbt[i]
    <3>1. \A i \in 1..Len(Q) : Q[i] \in Processes
          BY <1>2, ElementOfSeq
    <3>2. \A i \in Queued(Q) : i \in Processes \ {p}
          BY <1>2, <3>1 DEF Queued
    <3> QED BY <1>2, <2>1, <3>2
  <2>7. P \subseteq u.pend /\ \A z \in u.pend : z \in P \/ z.time > t
        BY <1>4, <2>2, <2>5, <2>6
  <2>8. B.time > t
    <3>1. k \in 1..Len(D[p].IOB)
          BY <1>3, <2>3
    <3>2. PICK i \in Nat : i = D[p].IOB[k] /\ i >= 1
      <4>1. D[p].IOB[k] \in Nat \ {0}
            BY <1>3, <3>1, ElementOfSeq
      <4> QED BY <4>1
    <3>3. B.time = t + i
          BY <1>1, <2>1, <2>3, <3>2 DEF Back
    <3> QED BY <1>2, <3>2, <3>3
  <2> QED BY <1>1, <2>1, <2>7, <2>8
<1>6. CASE ~(s.bno[p] < Len(D[p].CPUB))
  <2>1. PICK z : z = Append(s.log, ExitOf(D, p, t))
        OBVIOUS
  <2>2. u = Went(q, s.pend \ {y}, Q, TRUE, s.running, s.bno, s.rbt, z, t)
        BY <1>1, <1>6, <2>1 DEF Effect, Exits, Early
  <2>3. PICK P, b, rem : P = s.pend \ {y} /\ b = s.bno /\ rem = s.rbt
        OBVIOUS
  <2>4. P \subseteq u.pend /\ \A i \in u.pend : i \in P \/ i.time > t
        BY <1>2, <1>4, <2>2, <2>3
  <2> QED BY <1>1, <2>3, <2>4
<1> QED BY <1>5, <1>6

(* An arrival at that time leaves the end early, or makes it the first. *)
LEMMA EarlyNext ==
    ASSUME NEW D \in Inputs, NEW q, NEW s, NEW y, Early(D, s, y),
           NEW j \in s.pend \ {y}, j.time = y.time, NEW v, v = Effect(D, q, s, j)
    PROVE  Early(D, v, y) \/ (First(y, v.pend) /\ v.pend \subseteq Events)
<1>1. PICK Q, p, R : Q = s.queue /\ p = j.p /\ R = Append(Q, p)
      OBVIOUS
<1>2. /\ j.type = "arrival" /\ p # y.p /\ s.rbt[p] >= 1 /\ s.running # 0 /\ j \in Events
      /\ y \in Events /\ p \in Processes /\ Q \in Seq(Processes)
      BY <1>1 DEF Early, Events
<1>3. /\ v.pend = s.pend \ {j} /\ v.queue = R /\ v.running = s.running
      /\ v.bno = s.bno /\ v.rbt = s.rbt
  <2>1. v = Queues(q, s, j, FALSE)
        BY <1>2 DEF Effect
  <2>2. v = State(s.pend \ {j}, R, s.running, s.bno, s.rbt, s.log, j.time)
        BY <1>1, <2>1 DEF Queues, Went
  <2> QED BY <2>2 DEF State
<1>4. R \in Seq(Processes) /\ Queued(R) \subseteq Queued(Q) \cup {p}
  <2>1. /\ R \in Seq(Processes) /\ Len(R) = Len(Q) + 1 /\ Len(Q) \in Nat
        /\ R[Len(Q) + 1] = p /\ \A i \in 1..Len(Q) : R[i] = Q[i]
        BY <1>1, <1>2, AppendProperties, LenProperties
  <2>2. \A i \in 1..Len(R) : i \in 1..Len(Q) \/ i = Len(Q) + 1
        BY <2>1
  <2>3. \A x \in Queued(R) : x \in Queued(Q) \cup {p}
    <3>1. ASSUME NEW i \in 1..Len(R) PROVE R[i] \in Queued(Q) \cup {p}
      <4>1. CASE i \in 1..Len(Q)
        <5>1. Q[i] \in Queued(Q)
              BY <4>1 DEF Queued
        <5> QED BY <2>1, <4>1, <5>1
      <4>2. CASE i = Len(Q) + 1
            BY <2>1, <4>2
      <4> QED BY <2>2, <4>1, <4>2
    <3> QED BY <3>1 DEF Queued
  <2> QED BY <2>1, <2>3
<1>5. v.pend \subseteq Events /\ y \in v.pend
      BY <1>3 DEF Early
<1>6. CASE \E z \in v.pend \ {y} : z.time = y.time
  <2>1. \A x \in Queued(R) : s.rbt[x] >= 1 /\ x # y.p
        BY <1>1, <1>2, <1>4 DEF Early
  <2> QED BY <1>1, <1>2, <1>3, <1>4, <1>5, <1>6, <2>1 DEF Early
<1>7. CASE ~ \E z \in v.pend \ {y} : z.time = y.time
  <2>1. ASSUME NEW z \in v.pend, z # y PROVE Sooner(y, z)
    <3>1. z.time >= y.time /\ z.time # y.time
          BY <1>3, <1>7, <2>1 DEF Early
    <3>2. z.time \in Nat /\ y.time \in Nat
          BY <1>2, <1>5, <2>1 DEF Events
    <3>3. y.time < z.time
          BY <3>1, <3>2
    <3> QED BY <3>3 DEF Sooner
  <2> QED BY <1>5, <2>1 DEF First
<1> QED BY <1>6, <1>7

LEMMA SeenOrder ==
    ASSUME SchedulerInv, phase = "run", NEW e \in Entries(EQ), e = EQ[1]
    PROVE  /\ version \in {"student", "instructor"} /\ Entries(EQ) \subseteq Events
           /\ Seen.pend \subseteq Events
           /\ \A f \in Entries(EQ) : f # e => Before(e, f) /\ f.p # e.p
           /\ \A z \in Seen.pend : \E f \in Entries(EQ) : z = Plain(f)
           /\ Plain(e) \in Seen.pend
<1>1. version \in {"student", "instructor"} /\ Heap(EQ) /\ EQ \in Seq(Events) /\ Len(EQ) \in Nat
      BY LoopFacts, LenProperties DEF Heap
<1>2. Entries(EQ) \subseteq Events
      BY <1>1, ElementOfSeq DEF Entries
<1>3. \A f \in Entries(EQ) : f # e => Before(e, f)
  <2>1. \A i \in 2..Len(EQ) : Before(EQ[1], EQ[i])
        BY <1>1, RootFirst
  <2>2. \A i \in 1..Len(EQ) : i = 1 \/ i \in 2..Len(EQ)
        BY <1>1
  <2> QED BY <2>1, <2>2 DEF Entries
<1>4. \A f \in Entries(EQ) : f # e => f.p # e.p
      BY <1>1 DEF Heap, Single
<1>5. Seen.pend = Plains(Entries(EQ))
      BY SeenIs
<1>6. /\ \A z \in Seen.pend : \E f \in Entries(EQ) : z = Plain(f)
      /\ Plain(e) \in Seen.pend
      BY <1>5 DEF Plains
<1>7. \A f \in Events : Plain(f) \in Events
      BY DEF Events, Plain, Kinds, Joins
<1> QED BY <1>1, <1>2, <1>3, <1>4, <1>6, <1>7

(* Before another event in the instructor's program is Sooner, ...         *)
LEMMA SoonerThan ==
    ASSUME NEW e \in Events, NEW f \in Events, version = "instructor", Before(e, f)
    PROVE  Sooner(Plain(e), Plain(f))
<1>1. rank[Plain(e).type] = rank[e.type] /\ rank[Plain(f).type] = rank[f.type]
      BY DEF Plain, rank, Joins, Events, Kinds
<1> QED BY <1>1, PlainsAre DEF Before, Sooner

(* ... and in the student's, but for the end of a burst.                   *)
LEMMA SoonerThough ==
    ASSUME NEW e \in Events, NEW f \in Events, version = "student", Before(e, f),
           ~(e.type \notin Joins /\ f.type \notin Joins)
    PROVE  Sooner(Plain(e), Plain(f)) \/ (e.type = "end" /\ Plain(f).time = Plain(e).time)
<1>1. /\ Plain(e).time = e.time /\ Plain(f).time = f.time
      /\ Plain(e).p = e.p /\ Plain(f).p = f.p
      BY PlainsAre
<1>2. CASE e.time < f.time
      BY <1>1, <1>2 DEF Sooner
<1>3. CASE ~(e.time < f.time)
  <2>1. /\ e.time = f.time
        /\ IF e.type = "timeout" /\ f.type \in Joins THEN FALSE
           ELSE (e.type \in Joins /\ f.type = "timeout") \/ e.p < f.p
        BY <1>3 DEF Before
  <2>2. CASE e.type \in Joins /\ f.type \in Joins
    <3>1. Plain(e).type = "arrival" /\ Plain(f).type = "arrival"
          BY <2>2, PlainsAre
    <3>2. e.p < f.p
          BY <2>1, <2>2 DEF Joins
    <3> QED BY <1>1, <2>1, <3>1, <3>2 DEF Sooner
  <2>3. CASE e.type \in Joins /\ f.type \notin Joins
    <3>1. Plain(e).type = "arrival" /\ Plain(f).type \in {"end", "timeout"}
          BY <2>3, PlainsAre DEF Events, Kinds, Joins
    <3>2. rank["arrival"] = 1 /\ rank["end"] = 2 /\ rank["timeout"] = 3
          BY DEF rank
    <3>3. rank[Plain(e).type] < rank[Plain(f).type]
          BY <3>1, <3>2
    <3> QED BY <1>1, <2>1, <3>3 DEF Sooner
  <2>4. CASE e.type \notin Joins /\ f.type \in Joins
    <3>1. e.type # "timeout"
          BY <2>1, <2>4
    <3>2. e.type = "end"
          BY <2>4, <3>1 DEF Events, Kinds, Joins
    <3> QED BY <1>1, <2>1, <3>2
  <2> QED BY <2>2, <2>3, <2>4
<1> QED BY <1>2, <1>3

LEMMA FirstOrEarly ==
    ASSUME SchedulerInv, Accounts, phase = "run", NEW e \in Entries(EQ), e = EQ[1]
    PROVE  First(Plain(e), Seen.pend) \/ (version = "student" /\ Early(J, Seen, Plain(e)))
<1>1. PICK x, s : x = Plain(e) /\ s = Seen
      OBVIOUS
<1>2. /\ version \in {"student", "instructor"} /\ Entries(EQ) \subseteq Events
      /\ s.pend \subseteq Events /\ x \in s.pend
      /\ \A f \in Entries(EQ) : f # e => Before(e, f) /\ f.p # e.p
      /\ \A z \in s.pend : \E f \in Entries(EQ) : z = Plain(f)
      BY <1>1, SeenOrder
<1>3. CASE version = "instructor"
  <2>1. ASSUME NEW z \in s.pend, z # x PROVE Sooner(x, z)
    <3>1. PICK f \in Entries(EQ) : z = Plain(f)
          BY <1>2
    <3>2. f # e /\ e \in Events /\ f \in Events
          BY <1>1, <1>2, <2>1, <3>1
    <3>3. Before(e, f)
          BY <1>2, <3>2
    <3> QED BY <1>1, <1>3, <3>1, <3>2, <3>3, SoonerThan
  <2> QED BY <1>1, <1>2, <2>1 DEF First
<1>4. CASE version = "student" /\ ~First(x, s.pend)
  <2>1. \A f \in Entries(EQ) : f.type \notin Joins <=> f.p = running
        BY LoopFacts
  <2>2. ASSUME NEW f \in Entries(EQ), f # e
        PROVE  Sooner(x, Plain(f)) \/ (e.type = "end" /\ Plain(f).time = x.time)
    <3>1. ~(e.type \notin Joins /\ f.type \notin Joins)
          BY <1>2, <2>1, <2>2
    <3>2. Before(e, f) /\ e \in Events /\ f \in Events
          BY <1>2, <2>2
    <3> QED BY <1>1, <1>4, <3>1, <3>2, SoonerThough
  <2>3. PICK g \in s.pend : g # x /\ ~Sooner(x, g)
        BY <1>2, <1>4 DEF First
  <2>4. e.type = "end" /\ g.time = x.time
        BY <1>1, <1>2, <2>2, <2>3
  <2>5. x.type = "end" /\ x.p = e.p /\ x.time = e.time /\ e.p = running
        BY <1>1, <2>1, <2>4, PlainsAre DEF Joins
  <2>6. Books(Entries(EQ), RQ, rbt, since, wait, bno)
        BY DEF Accounts
  <2>7. ASSUME NEW z \in s.pend \ {x}
        PROVE  z.type = "arrival" /\ z.time >= x.time /\ z.p # x.p /\ rbt[z.p] >= 1
    <3>1. PICK f \in Entries(EQ) : z = Plain(f) /\ f # e
          BY <1>1, <1>2
    <3>2. f.p # e.p /\ f.type \in Joins /\ z.p = f.p /\ z.time = f.time
          BY <1>2, <2>1, <2>5, <3>1, PlainsAre
    <3>3. z.type = "arrival" /\ f.type # "end"
          BY <3>1, <3>2, PlainsAre DEF Joins
    <3>4. rbt[f.p] >= 1
          BY <2>6, <3>3 DEF Books
    <3>5. z.time >= x.time
      <4>1. x.time \in Nat /\ z.time \in Nat
            BY <1>2 DEF Events
      <4>2. x.time < z.time \/ x.time = z.time
            BY <2>2, <3>1 DEF Sooner
      <4> QED BY <4>1, <4>2
    <3> QED BY <2>5, <3>2, <3>3, <3>4, <3>5
  <2>8. /\ s.queue = RQ /\ s.running = running /\ s.rbt = rbt /\ s.bno = bno
        BY <1>1, SeenIs
  <2>9. /\ RQ \in Seq(Processes) /\ rbt \in [Processes -> Nat] /\ e.p \in Processes /\ e.p # 0
    <3>1. e.p \in Processes
          BY <1>2 DEF Events
    <3>2. \A p \in Processes : p # 0
          BY SchedulerAssumption DEF SchedulerAssumption, Processes
    <3> QED BY <3>1, <3>2, LoopFacts
  <2>10. bno[e.p] \in 1..Len(J[e.p].CPUB)
         BY <2>9 DEF SchedulerInv
  <2>11. e.p \notin Queued(RQ)
    <3>1. e.p \in Pending(EQ)
          BY DEF Pending
    <3> QED BY <3>1, LoopFacts DEF Placed
  <2>12. \A p \in Queued(RQ) : rbt[p] >= 1
         BY <2>6 DEF Books
  <2>13. Early(J, s, x)
         BY <1>2, <2>3, <2>4, <2>5, <2>7, <2>8, <2>9, <2>10, <2>11, <2>12 DEF Early
  <2> QED BY <1>1, <1>4, <2>13
<1> QED BY <1>1, <1>2, <1>3, <1>4

(* The program is where the instructor's order leads, or the student's has *)
(* taken the end of a burst before processes that become ready just then.  *)
OnTheWay(D, q, v, w) ==
    \E s : /\ Reached(D, q, s)
           /\ \/ w = s
              \/ v = "student" /\ \E y : Early(D, s, y) /\ w = Effect(D, q, s, y)

InOrder == phase = "run" => OnTheWay(J, quantum, version, Seen)

LEMMA StepInOrder ==
    ASSUME SchedulerInv, Accounts, phase = "run", InOrder, NEW e, Stepping(e)
    PROVE  InOrder'
<1>1. PICK D, q, v, w, u, x : /\ D = J /\ q = quantum /\ v = version /\ w = Seen
                              /\ u = Effect(D, q, w, x) /\ x = Plain(e)
      OBVIOUS
<1>2. /\ e \in Entries(EQ) /\ e = EQ[1] /\ u = Seen' /\ J' = D /\ version' = v /\ quantum' = q
      BY <1>1 DEF Stepping, quantum
<1>3. PICK s : /\ Reached(D, q, s)
               /\ \/ w = s
                  \/ v = "student" /\ \E y : Early(D, s, y) /\ w = Effect(D, q, s, y)
      BY <1>1 DEF InOrder, OnTheWay
<1>4. SUFFICES OnTheWay(D, q, v, u)
  <2>1. OnTheWay(D, q, v, u) => OnTheWay(J', quantum', version', Seen')
        BY <1>2
  <2> QED BY <2>1 DEF InOrder
<1>5. D \in Inputs /\ q \in Nat \ {0}
  <2>1. Quanta \in Seq(Nat \ {0}) /\ round \in 1..Len(Quanta)
        BY SchedulerAssumption DEF SchedulerAssumption, SchedulerInv
  <2>2. Quanta[round] \in Nat \ {0}
        BY <2>1, ElementOfSeq
  <2> QED BY <1>1, <2>2 DEF quantum, SchedulerInv
<1>6. /\ Entries(EQ) \subseteq Events /\ w.pend \subseteq Events
      /\ \A f \in Entries(EQ) : f # e => Before(e, f) /\ f.p # e.p
      /\ \A z \in w.pend : \E f \in Entries(EQ) : z = Plain(f)
      /\ x \in w.pend
      BY <1>1, <1>2, SeenOrder
<1>7. CASE w = s
  <2>1. CASE First(x, w.pend)
    <3>1. Follows(D, q, w, u)
          BY <1>1, <1>6, <2>1 DEF Follows
    <3>2. Reached(D, q, u)
          BY <1>3, <1>7, <3>1, ReachedNext
    <3> QED BY <3>2 DEF OnTheWay
  <2>2. CASE v = "student" /\ Early(D, w, x)
        BY <1>1, <1>3, <1>7, <2>2 DEF OnTheWay
  <2>3. First(x, w.pend) \/ (v = "student" /\ Early(D, w, x))
        BY <1>1, <1>2, FirstOrEarly
  <2> QED BY <2>1, <2>2, <2>3
<1>8. ASSUME v = "student", NEW y, Early(D, s, y), w = Effect(D, q, s, y)
      PROVE  OnTheWay(D, q, v, u)
  <2>1. /\ s.pend \ {y} \subseteq w.pend
        /\ \A z \in w.pend : z \in s.pend \ {y} \/ z.time > y.time
        BY <1>5, <1>8, EarlyLeaves
  <2>2. PICK z \in s.pend \ {y} : z.time = y.time
        BY <1>8 DEF Early
  <2>3. x.time <= y.time
    <3>1. PICK f \in Entries(EQ) : z = Plain(f)
          BY <1>6, <2>1, <2>2
    <3>2. e.time <= f.time
      <4>1. e.time \in Nat /\ f.time \in Nat
            BY <1>2, <1>6 DEF Events
      <4>2. e = f \/ e.time < f.time \/ e.time = f.time
            BY <1>6 DEF Before
      <4> QED BY <4>1, <4>2
    <3> QED BY <1>1, <2>2, <3>1, <3>2, PlainsAre
  <2>4. x \in s.pend \ {y} /\ x.time = y.time /\ x.type = "arrival" /\ x.p # y.p
    <3>1. x.time \in Nat /\ y.time \in Nat
          BY <1>6, <1>8 DEF Early, Events
    <3>2. ~(x.time > y.time)
          BY <2>3, <3>1
    <3>3. x \in s.pend \ {y}
          BY <1>6, <2>1, <3>2
    <3>4. x.time >= y.time /\ x.type = "arrival" /\ x.p # y.p
          BY <1>8, <3>3 DEF Early
    <3>5. x.time = y.time
          BY <2>3, <3>1, <3>4
    <3> QED BY <3>3, <3>4, <3>5
  <2>5. First(x, s.pend)
    <3>1. ASSUME NEW a \in s.pend, a # x PROVE Sooner(x, a)
      <4>1. CASE a = y
        <5>1. y.type = "end" /\ rank["arrival"] < rank["end"]
              BY <1>8 DEF Early, rank
        <5> QED BY <2>4, <4>1, <5>1 DEF Sooner
      <4>2. CASE a # y
        <5>1. PICK f \in Entries(EQ) : a = Plain(f)
              BY <1>6, <2>1, <4>2
        <5>2. f # e /\ Before(e, f) /\ e \in Events /\ f \in Events
              BY <1>1, <1>2, <1>6, <3>1, <5>1
        <5>3. e.type \in Joins /\ e.type # "end"
          <6>1. e.type \in Joins
            <7>1. e.type \notin Joins => x.type = e.type
                  BY <1>1, PlainsAre
            <7> QED BY <2>4, <7>1 DEF Joins
          <6> QED BY <6>1 DEF Joins
        <5> QED BY <1>1, <1>8, <5>1, <5>2, <5>3, SoonerThough
      <4> QED BY <4>1, <4>2
    <3> QED BY <2>4, <3>1 DEF First
  <2>6. PICK n1 : n1 = Effect(D, q, s, x)
        OBVIOUS
  <2>7. Reached(D, q, n1)
    <3>1. Follows(D, q, s, n1)
          BY <1>8, <2>5, <2>6 DEF Follows, Early
    <3> QED BY <1>3, <3>1, ReachedNext
  <2>8. u = Effect(D, q, n1, y)
    <3>1. /\ s.queue \in Seq(Processes) /\ s.running # 0 /\ y \in s.pend /\ y.type = "end"
          /\ x \in s.pend /\ x.p \in Processes
          BY <1>6, <1>8, <2>4 DEF Early, Events
    <3>2. Effect(D, q, Effect(D, q, s, y), x) = Effect(D, q, Effect(D, q, s, x), y)
          BY <2>4, <3>1, Commute
    <3> QED BY <1>1, <1>8, <2>6, <3>2
  <2>9. Early(D, n1, y) \/ (First(y, n1.pend) /\ n1.pend \subseteq Events)
        BY <1>5, <1>8, <2>4, <2>6, EarlyNext
  <2>10. CASE Early(D, n1, y)
         BY <1>8, <2>7, <2>8, <2>10 DEF OnTheWay
  <2>11. CASE First(y, n1.pend) /\ n1.pend \subseteq Events
    <3>1. Follows(D, q, n1, u)
          BY <2>8, <2>11 DEF Follows
    <3>2. Reached(D, q, u)
          BY <2>7, <3>1, ReachedNext
    <3> QED BY <3>2 DEF OnTheWay
  <2> QED BY <2>9, <2>10, <2>11
<1> QED BY <1>3, <1>7, <1>8

LEMMA BeginInOrder ==
    ASSUME SchedulerInv, Begin, version \in {"student", "instructor"}
    PROVE  InOrder'
<1>1. /\ J \in Inputs /\ J' = J /\ now' = 0 /\ RQ' = <<>> /\ running' = 0 /\ exits' = <<>>
      /\ bno' = [p \in Processes |-> 1] /\ rbt' = [p \in Processes |-> J[p].CPUB[1]]
      BY DEF SchedulerInv, Begin
<1>2. Entries(EQ') = Entries(Arrivals)
      BY <1>1, Pushed, MadeHeap DEF Begin
<1>3. PICK P : P = {[time |-> J[p].atime, p |-> p, type |-> "arrival"] : p \in Processes}
      OBVIOUS
<1>4. Plains(Entries(EQ')) = P
  <2>1. /\ n \in Nat \ {0} /\ Len(Arrivals) = n /\ Processes = 1..n
        /\ \A p \in 1..n : Arrivals[p] = [time |-> J[p].atime, p |-> p, type |-> "arrival"]
        BY <1>1, ArrivalsAre DEF Processes
  <2>2. \A p \in 1..n : Plain(Arrivals[p]) = Arrivals[p]
        BY <2>1 DEF Plain, Joins
  <2>3. \A z \in Plains(Entries(EQ')) : z \in P
    <3>1. ASSUME NEW f \in Entries(Arrivals) PROVE Plain(f) \in P
      <4>1. PICK p \in 1..n : f = Arrivals[p]
            BY <2>1 DEF Entries
      <4> QED BY <1>3, <2>1, <2>2, <4>1
    <3> QED BY <1>2, <3>1 DEF Plains
  <2>4. \A z \in P : z \in Plains(Entries(EQ'))
    <3>1. ASSUME NEW p \in Processes
          PROVE  [time |-> J[p].atime, p |-> p, type |-> "arrival"] \in Plains(Entries(Arrivals))
      <4>1. Arrivals[p] \in Entries(Arrivals)
            BY <2>1 DEF Entries
      <4>2. Plain(Arrivals[p]) \in Plains(Entries(Arrivals))
            BY <4>1 DEF Plains
      <4> QED BY <2>1, <2>2, <4>2
    <3> QED BY <1>2, <1>3, <3>1
  <2> QED BY <2>3, <2>4
<1>5. Seen' = Start(J)
  <2>1. Seen' = State(P, <<>>, 0, [p \in Processes |-> 1],
                      [p \in Processes |-> J[p].CPUB[1]], <<>>, 0)
        BY <1>1, <1>4, SeenIs
  <2> QED BY <1>3, <2>1 DEF Start
<1>6. OnTheWay(J', quantum', version', Seen')
  <2>1. PICK D, q, s : D = J' /\ q = quantum' /\ s = Seen'
        OBVIOUS
  <2>2. Reached(D, q, s)
        BY <1>1, <1>5, <2>1, ReachedFirst
  <2> QED BY <2>1, <2>2 DEF OnTheWay
<1> QED BY <1>6 DEF InOrder

(* What has been printed is what the way through the events says. *)
Printed(D, q, o) == \E s : Reached(D, q, s) /\ s.pend = {} /\ o = Summary(s.log, s.now)

Rounds(v) ==
    IF v = "student" THEN IF version = "student" THEN round - 1 ELSE Len(Quanta)
    ELSE IF version = "student" THEN 0
    ELSE IF version = "instructor" THEN round - 1 ELSE Len(Quanta)

Outputs ==
    /\ output = [v \in {"student", "instructor"} |-> output[v]]
    /\ \A v \in {"student", "instructor"} :
          /\ \E S : output[v] \in Seq(S)
          /\ Len(output[v]) = Rounds(v)
          /\ \A k \in 1..Len(output[v]) : Printed(J, Quanta[k], output[v][k])

LEMMA RoundEnds ==
    ASSUME SchedulerInv, Accounts, InOrder, phase = "run", EQ = <<>>
    PROVE  Printed(J, quantum, Report)
<1>1. Seen.pend = {} /\ Seen.log = exits /\ Seen.now = now
  <2>1. Len(<<>>) = 0
        OBVIOUS
  <2>2. Entries(EQ) = {}
        BY <2>1 DEF Entries
  <2>3. Plains(Entries(EQ)) = {}
        BY <2>2 DEF Plains
  <2> QED BY <2>3, SeenIs
<1>2. PICK D, q, w : D = J /\ q = quantum /\ w = Seen
      OBVIOUS
<1>3. PICK s : /\ Reached(D, q, s)
               /\ \/ w = s
                  \/ version = "student" /\ \E y : Early(D, s, y) /\ w = Effect(D, q, s, y)
      BY <1>2 DEF InOrder, OnTheWay
<1>4. D \in Inputs /\ q \in Nat \ {0}
  <2>1. Quanta \in Seq(Nat \ {0}) /\ round \in 1..Len(Quanta)
        BY SchedulerAssumption DEF SchedulerAssumption, SchedulerInv
  <2>2. Quanta[round] \in Nat \ {0}
        BY <2>1, ElementOfSeq
  <2> QED BY <1>2, <2>2 DEF quantum, SchedulerInv
<1>5. ASSUME NEW y, Early(D, s, y), w = Effect(D, q, s, y) PROVE FALSE
  <2>1. s.pend \ {y} \subseteq w.pend
        BY <1>4, <1>5, EarlyLeaves
  <2>2. s.pend \ {y} # {}
        BY <1>5 DEF Early
  <2> QED BY <1>1, <1>2, <2>1, <2>2
<1>6. w = s
      BY <1>3, <1>5
<1>7. Report = Summary(exits, now)
      BY ReportIs
<1> QED BY <1>1, <1>2, <1>3, <1>6, <1>7 DEF Printed

LEMMA FinishPrints ==
    ASSUME SchedulerInv, Accounts, InOrder, Outputs, Finish
    PROVE  Outputs'
<1>1. /\ phase = "run" /\ EQ = <<>> /\ J' = J /\ version \in {"student", "instructor"}
      /\ output' = [output EXCEPT ![version] = Append(@, Report)]
      /\ output = [v \in {"student", "instructor"} |-> output[v]]
      BY DEF Finish, SchedulerInv, Outputs
<1>2. \A D, q, o : Printed(D, q, o)' <=> Printed(D, q, o)
      BY <1>1 DEF Printed, Summary, Busy
<1>3. PICK a, c : a = version /\ c = Report /\ Printed(J, quantum, c)
      BY <1>1, RoundEnds
<1>4. /\ output' = [v \in {"student", "instructor"} |-> output'[v]]
      /\ output'[a] = Append(output[a], c)
      /\ \A v \in {"student", "instructor"} : v # a => output'[v] = output[v]
      BY <1>1, <1>3
<1>5. /\ round \in 1..Len(Quanta) /\ Len(Quanta) \in Nat
      BY SchedulerAssumption, LenProperties DEF SchedulerAssumption, SchedulerInv
<1>6. /\ Rounds(a) = round - 1
      /\ \A v \in {"student", "instructor"} : v # a => Rounds(v)' = Rounds(v)
      /\ Rounds(a)' = round
  <2>1. /\ round < Len(Quanta) => round' = round + 1 /\ version' = version
        /\ ~(round < Len(Quanta)) =>
              round' = 1 /\ version' = IF version = "student" THEN "instructor" ELSE "none"
        BY DEF Finish
  <2>2. Rounds(a) = round - 1
        BY <1>1, <1>3 DEF Rounds
  <2>3. CASE round < Len(Quanta)
    <3>1. (round + 1) - 1 = round
          BY <1>5
    <3> QED BY <1>1, <1>3, <2>1, <2>2, <2>3, <3>1 DEF Rounds
  <2>4. CASE ~(round < Len(Quanta))
    <3>1. Len(Quanta) = round /\ 1 - 1 = 0
          BY <1>5, <2>4
    <3>2. CASE version = "student"
          BY <1>3, <2>1, <2>2, <2>4, <3>1, <3>2 DEF Rounds
    <3>3. CASE version = "instructor"
          BY <1>3, <2>1, <2>2, <2>4, <3>1, <3>3 DEF Rounds
    <3> QED BY <1>1, <3>2, <3>3
  <2> QED BY <2>3, <2>4
<1>7. ASSUME NEW v \in {"student", "instructor"}
      PROVE  /\ \E S : output'[v] \in Seq(S)
             /\ Len(output'[v]) = Rounds(v)'
             /\ \A k \in 1..Len(output'[v]) : Printed(J, Quanta[k], output'[v][k])
  <2>1. /\ Len(output[v]) = Rounds(v)
        /\ \A k \in 1..Len(output[v]) : Printed(J, Quanta[k], output[v][k])
        BY DEF Outputs
  <2>2. PICK S : output[v] \in Seq(S)
        BY DEF Outputs
  <2>3. CASE v # a
        BY <1>4, <1>6, <2>1, <2>2, <2>3
  <2>4. CASE v = a
    <3>1. PICK s, u : s = output[v] /\ u = Append(s, c)
          OBVIOUS
    <3>2. s \in Seq(S \cup {c}) /\ c \in S \cup {c}
      <4>1. s \in Seq(S)
            BY <2>2, <3>1
      <4>2. s = [i \in 1..Len(s) |-> s[i]] /\ Len(s) \in Nat /\ \A i \in 1..Len(s) : s[i] \in S
            BY <4>1, ElementOfSeq, LenProperties
      <4> QED BY <4>2
    <3>3. /\ u \in Seq(S \cup {c}) /\ Len(u) = Len(s) + 1 /\ Len(s) \in Nat
          /\ u[Len(s) + 1] = c /\ \A i \in 1..Len(s) : u[i] = s[i]
          BY <3>1, <3>2, AppendProperties, LenProperties
    <3>4. Len(s) + 1 = round
      <4>1. Len(s) = round - 1
            BY <1>6, <2>1, <2>4, <3>1
      <4> QED BY <1>5, <4>1
    <3>5. ASSUME NEW k \in 1..Len(u) PROVE Printed(J, Quanta[k], u[k])
      <4>1. k \in 1..Len(s) \/ k = Len(s) + 1
            BY <3>3
      <4>2. CASE k \in 1..Len(s)
            BY <2>1, <3>1, <3>3, <4>2
      <4>3. CASE k = Len(s) + 1
            BY <1>3, <3>3, <3>4, <4>3 DEF quantum
      <4> QED BY <4>1, <4>2, <4>3
    <3>6. output'[v] = u
          BY <1>4, <2>4, <3>1
    <3> QED BY <1>6, <2>4, <3>3, <3>4, <3>5, <3>6
  <2> QED BY <2>3, <2>4
<1> QED BY <1>1, <1>2, <1>4, <1>7 DEF Outputs

(* A round of either program is on the way that the instructor's order of  *)
(* events takes, up to the end of a burst taken early; and what has been   *)
(* printed of a round is what stands at the end of that way.               *)
THEOREM OrderKept == Spec => [](InOrder /\ Outputs)
<1>1. Init => InOrder /\ Outputs
  <2> SUFFICES ASSUME Init PROVE InOrder /\ Outputs
      OBVIOUS
  <2>1. InOrder
        BY DEF Init, InOrder
  <2>2. /\ output = [v \in {"student", "instructor"} |-> <<>>]
        /\ version = "student" /\ round = 1
        BY DEF Init
  <2>3. <<>> \in Seq({}) /\ Len(<<>>) = 0 /\ 1 - 1 = 0 /\ 1..0 = {}
        OBVIOUS
  <2>4. \A v \in {"student", "instructor"} : output[v] = <<>> /\ Rounds(v) = 0
        BY <2>2, <2>3 DEF Rounds
  <2>5. output = [v \in {"student", "instructor"} |-> output[v]]
        BY <2>2
  <2> QED BY <2>1, <2>3, <2>4, <2>5 DEF Outputs
<1>2. SchedulerInv /\ VersionIs /\ Accounts /\ InOrder /\ Outputs /\ [Next]_vars
        => (InOrder /\ Outputs)'
  <2> SUFFICES ASSUME SchedulerInv, VersionIs, Accounts, InOrder, Outputs, [Next]_vars
               PROVE  InOrder' /\ Outputs'
      OBVIOUS
  <2>1. ASSUME J' = J, output' = output, version' = version, round' = round PROVE Outputs'
    <3>1. \A D, q, o : Printed(D, q, o)' <=> Printed(D, q, o)
          BY <2>1 DEF Printed, Summary, Busy
    <3>2. \A v : Rounds(v)' = Rounds(v)
          BY <2>1 DEF Rounds
    <3> QED BY <2>1, <3>1, <3>2 DEF Outputs
  <2>2. CASE Begin
    <3>1. version \in {"student", "instructor"} /\ J' = J /\ output' = output
          /\ version' = version /\ round' = round
          BY <2>2 DEF Begin, VersionIs
    <3> QED BY <2>1, <2>2, <3>1, BeginInOrder
  <2>3. CASE Join \/ TimeOut \/ StartIO \/ Exit
    <3>1. PICK e : Stepping(e)
          BY <2>3, JoinSeen, TimeOutSeen, StartIOSeen, ExitSeen
    <3>2. phase = "run"
          BY <2>3 DEF Join, TimeOut, StartIO, Exit, Take
    <3>3. InOrder'
          BY <3>1, <3>2, StepInOrder
    <3> QED BY <2>1, <3>1, <3>3 DEF Stepping
  <2>4. CASE Finish
    <3>1. InOrder'
          BY <2>4 DEF Finish, InOrder
    <3> QED BY <2>4, <3>1, FinishPrints
  <2>5. CASE UNCHANGED vars
    <3>1. /\ J' = J /\ phase' = phase /\ EQ' = EQ /\ RQ' = RQ /\ rbt' = rbt /\ bno' = bno
          /\ running' = running /\ now' = now /\ exits' = exits
          /\ output' = output /\ version' = version /\ round' = round
          BY <2>5 DEF vars
    <3>2. Seen' = Seen /\ quantum' = quantum
          BY <3>1 DEF Seen, Plains, Plain, Entries, State, quantum
    <3> QED BY <2>1, <3>1, <3>2 DEF InOrder
  <2> QED BY <2>2, <2>3, <2>4, <2>5 DEF Next
<1> QED BY <1>1, <1>2, Invariance, AccountsKept, PTL DEF Spec

(* Whatever proc.txt says and whatever the quanta, the two programs print  *)
(* the same: neither the order in which they take simultaneous events nor  *)
(* how they count waiting and idle time shows.                             *)
THEOREM BothPrintTheSame == Spec => []SameOutput
<1>1. SchedulerInv /\ Outputs => SameOutput
  <2> SUFFICES ASSUME SchedulerInv, Outputs, version = "none"
               PROVE  output["student"] = output["instructor"]
      BY DEF SameOutput
  <2>1. PICK s, u : s = output["student"] /\ u = output["instructor"]
        OBVIOUS
  <2>2. Len(s) = Len(Quanta) /\ Len(u) = Len(Quanta)
        BY <2>1 DEF Outputs, Rounds
  <2>3. PICK S : s \in Seq(S)
        BY <2>1 DEF Outputs
  <2>4. PICK T : u \in Seq(T)
        BY <2>1 DEF Outputs
  <2>5. ASSUME NEW k \in 1..Len(Quanta) PROVE s[k] = u[k]
    <3>1. Printed(J, Quanta[k], s[k]) /\ Printed(J, Quanta[k], u[k])
          BY <2>1, <2>2 DEF Outputs
    <3>2. PICK D, q : D = J /\ q = Quanta[k]
          OBVIOUS
    <3>3. PICK x : Reached(D, q, x) /\ x.pend = {} /\ s[k] = Summary(x.log, x.now)
          BY <3>1, <3>2 DEF Printed
    <3>4. PICK y : Reached(D, q, y) /\ y.pend = {} /\ u[k] = Summary(y.log, y.now)
          BY <3>1, <3>2 DEF Printed
    <3>5. x = y
          BY <3>3, <3>4, OneEnd
    <3> QED BY <3>3, <3>4, <3>5
  <2>6. s = [k \in 1..Len(Quanta) |-> s[k]] /\ u = [k \in 1..Len(Quanta) |-> u[k]]
        BY <2>2, <2>3, <2>4, LenProperties
  <2> QED BY <2>1, <2>5, <2>6
<1> QED BY <1>1, Invariance, OrderKept, PTL
=============================================================================
