---------------------------- MODULE PagingProofs ----------------------------
(***************************************************************************)
(* Proofs about the memory simulators, DemandPaging (A9) and               *)
(* PageReplacement (A10), for any number of processes, frames, pages and   *)
(* searches, and both versions of each: no process and no frame is lost or *)
(* counted twice, what a free entry says of its frame is true, and the     *)
(* page replaced is one that has been unused for longest.                  *)
(*                                                                         *)
(* Lemmas about numbers, queues, page tables and searches come first; then *)
(* each simulator has an inductive invariant, Inv and RInv, a lemma for    *)
(* every action that it survives the action, and its theorems.             *)
(***************************************************************************)
EXTENDS DemandPaging, PageReplacement, FiniteSetTheorems, SequenceTheorems,
        WellFoundedInduction, TLAPS

-----------------------------------------------------------------------------
(* Numbers *)

(* A division is a number, and grows with what is divided. *)
LEMMA Division ==
    ASSUME NEW a \in Nat, NEW b \in Nat, a <= b, NEW d \in Nat \ {0}
    PROVE  a \div d \in Nat /\ b \div d \in Nat /\ a \div d <= b \div d
<1>1. /\ a = d * (a \div d) + (a % d) /\ a % d \in 0..(d - 1) /\ a \div d \in Nat
      /\ b = d * (b \div d) + (b % d) /\ b % d \in 0..(d - 1) /\ b \div d \in Nat
      OBVIOUS
<1>2. PICK q, u : q = a \div d /\ u = b \div d
      OBVIOUS
<1>3. PICK r, v : r = a % d /\ v = b % d
      OBVIOUS
<1>4. /\ q \in Nat /\ u \in Nat /\ r \in Nat /\ v \in Nat /\ r < d /\ v < d
      /\ a = d * q + r /\ b = d * u + v
      BY <1>1, <1>2, <1>3
<1>5. q <= u
  <2> SUFFICES ASSUME q > u PROVE FALSE
      BY <1>4
  <2>1. PICK e \in Nat : q = u + 1 + e
    <3>1. q - u - 1 \in Nat /\ q = u + 1 + (q - u - 1)
          BY <1>4
    <3> QED BY <3>1
  <2>2. d * (u + 1 + e) = d * u + d + d * e
        BY <1>4
  <2>3. d * e \in Nat /\ d * u \in Nat
        BY <1>4
  <2>4. a >= d * u + d
        BY <1>4, <2>1, <2>2, <2>3
  <2> QED BY <1>4, <2>3, <2>4
<1> QED BY <1>2, <1>4, <1>5

(* A number below n * e is e times a number below n, and a rest.           *)
LEMMA DividedInto ==
    ASSUME NEW a \in Nat, NEW d \in Nat, NEW e \in Nat \ {0}, a < d * e
    PROVE  \E q \in 0..d - 1 : \E r \in 0..e - 1 : a = q * e + r
<1>1. a = e * (a \div e) + (a % e) /\ a % e \in 0..(e - 1) /\ a \div e \in Nat
      OBVIOUS
<1>2. PICK q \in Nat, r \in 0..e - 1 : a = e * q + r
      BY <1>1
<1>3. q < d
  <2> SUFFICES ASSUME q >= d PROVE FALSE
      OBVIOUS
  <2>1. PICK k \in Nat : q = d + k
    <3>1. q - d \in Nat /\ q = d + (q - d)
          OBVIOUS
    <3> QED BY <3>1
  <2>2. e * (d + k) = d * e + e * k /\ e * k \in Nat /\ d * e \in Nat
        OBVIOUS
  <2> QED BY <1>2, <2>1, <2>2
<1>4. e * q = q * e
      OBVIOUS
<1> QED BY <1>2, <1>3, <1>4

(* There is room for the essential pages of all.                           *)
LEMMA RoomForAll ==
    /\ n * Essential \in Nat /\ n * Essential <= NFRAMES
    /\ \A p \in Procs : /\ p * Essential \in Nat
                        /\ p * Essential + Essential <= n * Essential
<1> USE SearchAssumption DEF SearchAssumption
<1>1. n * Essential \in Nat /\ n * Essential <= NFRAMES
      OBVIOUS
<1>2. ASSUME NEW p \in Procs
      PROVE  p * Essential \in Nat /\ p * Essential + Essential <= n * Essential
  <2>1. p \in Nat /\ p < n
        BY DEF Procs
  <2>2. PICK k \in Nat : n = p + 1 + k
    <3>1. n - p - 1 \in Nat /\ n = p + 1 + (n - p - 1)
          BY <2>1
    <3> QED BY <3>1
  <2>3. (p + 1 + k) * Essential = p * Essential + Essential + k * Essential
        BY <2>1
  <2>4. k * Essential \in Nat /\ p * Essential \in Nat
        BY <2>1
  <2> QED BY <2>2, <2>3, <2>4
<1> QED BY <1>1, <1>2

(* A set of numbers that is not empty has a least element.                 *)
LEMMA LeastNumber ==
    ASSUME NEW I, I \subseteq Nat, I # {}
    PROVE  \E a \in I : \A b \in I : a <= b
<1> DEFINE R == {p \in Nat \X Nat : p[1] < p[2]}
<1>1. IsWellFoundedOn(R, Nat)
      BY NatLessThanWellFounded DEF OpToRel
<1>2. PICK a \in I : \A b \in I : ~(<<b, a>> \in R)
  <2> HIDE DEF R
  <2> QED BY <1>1, WFMin
<1>3. ASSUME NEW b \in I PROVE a <= b
  <2>1. <<b, a>> \in R <=> b < a
        OBVIOUS
  <2> QED BY <1>2, <2>1
<1> QED BY <1>3

(* What holds of 0 and of k + 1 whenever of k holds of every number.       *)
LEMMA NumberInduction ==
    ASSUME NEW I, 0 \in I, \A k \in I \cap Nat : k + 1 \in I
    PROVE  Nat \subseteq I
<1> SUFFICES ASSUME Nat \ I # {} PROVE FALSE
    OBVIOUS
<1>1. PICK a \in Nat \ I : \A b \in Nat \ I : a <= b
      BY LeastNumber
<1>2. a - 1 \in Nat \cap I
      BY <1>1
<1> QED BY <1>1, <1>2

-----------------------------------------------------------------------------
(* Queues *)

In(s, x) == \E i \in 1..Len(s) : s[i] = x
Distinct(s) == \A i, j \in 1..Len(s) : s[i] = s[j] => i = j

(* Who is in a queue after somebody has joined it at the end, ...          *)
LEMMA AtTheEnd ==
    ASSUME NEW Q, NEW s \in Seq(Q), NEW e \in Q
    PROVE  /\ Append(s, e) \in Seq(Q) /\ Len(Append(s, e)) = Len(s) + 1
           /\ \A x : In(Append(s, e), x) <=> (In(s, x) \/ x = e)
           /\ Distinct(s) /\ ~In(s, e) => Distinct(Append(s, e))
<1> DEFINE z == Append(s, e)
<1>1. /\ z \in Seq(Q) /\ Len(z) = Len(s) + 1 /\ Len(s) \in Nat
      /\ \A i \in 1..Len(s) : z[i] = s[i]
      /\ z[Len(s) + 1] = e
      BY LenProperties
<1> HIDE DEF z
<1>2. 1..Len(z) = 1..Len(s) \cup {Len(s) + 1}
      BY <1>1
<1>3. \A x : In(z, x) <=> (In(s, x) \/ x = e)
      BY <1>1, <1>2 DEF In
<1>4. ASSUME Distinct(s), ~In(s, e) PROVE Distinct(z)
      BY <1>1, <1>2, <1>4 DEF In, Distinct
<1> QED BY <1>1, <1>3, <1>4 DEF z

(* ... at the front, ...                                                   *)
LEMMA AtTheFront ==
    ASSUME NEW Q, NEW s \in Seq(Q), NEW e \in Q
    PROVE  /\ <<e>> \o s \in Seq(Q) /\ Len(<<e>> \o s) = Len(s) + 1
           /\ \A x : In(<<e>> \o s, x) <=> (In(s, x) \/ x = e)
           /\ Distinct(s) /\ ~In(s, e) => Distinct(<<e>> \o s)
<1> DEFINE z == <<e>> \o s
<1>1. /\ z \in Seq(Q) /\ Len(z) = Len(s) + 1 /\ Len(s) \in Nat
      /\ \A i \in 1..Len(s) : z[i + 1] = s[i]
      /\ z[1] = e
  <2>1. <<e>> \in Seq(Q) /\ Len(<<e>>) = 1 /\ <<e>>[1] = e /\ Len(s) \in Nat
        BY LenProperties
  <2>2. /\ z \in Seq(Q) /\ Len(z) = 1 + Len(s)
        /\ \A i \in 1..1 + Len(s) : z[i] = IF i <= 1 THEN <<e>>[i] ELSE s[i - 1]
    <3> HIDE DEF z
    <3> QED BY <2>1, ConcatProperties, Zenon DEF z
  <2>3. ASSUME NEW i \in 1..Len(s) PROVE z[i + 1] = s[i]
    <3>1. i + 1 \in 1..1 + Len(s) /\ ~(i + 1 <= 1) /\ (i + 1) - 1 = i
          BY <2>1
    <3> HIDE DEF z
    <3> QED BY <2>2, <3>1
  <2> QED BY <2>1, <2>2, <2>3
<1> HIDE DEF z
<1>2. \A x : In(z, x) <=> (In(s, x) \/ x = e)
  <2>1. ASSUME NEW x, In(z, x) PROVE In(s, x) \/ x = e
    <3>1. PICK i \in 1..Len(s) + 1 : z[i] = x
          BY <1>1, <2>1 DEF In
    <3>2. i = 1 \/ (i - 1 \in 1..Len(s) /\ (i - 1) + 1 = i)
          BY <1>1
    <3> QED BY <1>1, <3>1, <3>2 DEF In
  <2>2. ASSUME NEW x, In(s, x) \/ x = e PROVE In(z, x)
    <3>1. 1 \in 1..Len(z) /\ \A i \in 1..Len(s) : i + 1 \in 1..Len(z)
          BY <1>1
    <3> QED BY <1>1, <2>2, <3>1 DEF In
  <2> QED BY <2>1, <2>2
<1>3. ASSUME Distinct(s), ~In(s, e) PROVE Distinct(z)
  <2> SUFFICES ASSUME NEW i \in 1..Len(z), NEW j \in 1..Len(z), z[i] = z[j]
               PROVE  i = j
      BY DEF Distinct
  <2>1. /\ i = 1 \/ (i - 1 \in 1..Len(s) /\ (i - 1) + 1 = i)
        /\ j = 1 \/ (j - 1 \in 1..Len(s) /\ (j - 1) + 1 = j)
        BY <1>1
  <2>2. /\ i # 1 => z[i] = s[i - 1]
        /\ j # 1 => z[j] = s[j - 1]
        BY <1>1, <2>1
  <2>3. CASE i = 1 /\ j = 1
        BY <2>3
  <2>4. CASE i # 1 /\ j # 1
    <3>1. i - 1 = j - 1
          BY <1>3, <2>1, <2>2, <2>4 DEF Distinct
    <3> QED BY <3>1
  <2>5. CASE i = 1 /\ j # 1
        BY <1>1, <1>3, <2>1, <2>2, <2>5 DEF In
  <2>6. CASE i # 1 /\ j = 1
        BY <1>1, <1>3, <2>1, <2>2, <2>6 DEF In
  <2> QED BY <2>3, <2>4, <2>5, <2>6
<1> QED BY <1>1, <1>2, <1>3 DEF z

(* ... or has left it at the front.                                        *)
LEMMA FromTheFront ==
    ASSUME NEW Q, NEW s \in Seq(Q), s # <<>>
    PROVE  /\ Head(s) \in Q /\ Tail(s) \in Seq(Q) /\ Len(Tail(s)) = Len(s) - 1
           /\ \A x : In(s, x) <=> (In(Tail(s), x) \/ x = Head(s))
           /\ Distinct(s) => Distinct(Tail(s)) /\ ~In(Tail(s), Head(s))
<1> DEFINE z == Tail(s)
<1>1. /\ Head(s) \in Q /\ z \in Seq(Q) /\ Len(z) = Len(s) - 1 /\ Len(s) \in Nat \ {0}
      /\ \A i \in 1..Len(z) : z[i] = s[i + 1]
      /\ Head(s) = s[1]
      BY HeadTailProperties, EmptySeq
<1> HIDE DEF z
<1>2. \A x : In(s, x) <=> (In(z, x) \/ x = Head(s))
  <2>1. ASSUME NEW x, In(s, x) PROVE In(z, x) \/ x = Head(s)
    <3>1. PICK i \in 1..Len(s) : s[i] = x
          BY <2>1 DEF In
    <3>2. i = 1 \/ (i - 1 \in 1..Len(z) /\ (i - 1) + 1 = i)
          BY <1>1
    <3> QED BY <1>1, <3>1, <3>2 DEF In
  <2>2. ASSUME NEW x, In(z, x) \/ x = Head(s) PROVE In(s, x)
    <3>1. 1 \in 1..Len(s) /\ \A i \in 1..Len(z) : i + 1 \in 1..Len(s)
          BY <1>1
    <3> QED BY <1>1, <2>2, <3>1 DEF In
  <2> QED BY <2>1, <2>2
<1>3. ASSUME Distinct(s) PROVE Distinct(z) /\ ~In(z, Head(s))
  <2>1. \A i \in 1..Len(z) : i + 1 \in 1..Len(s) /\ i + 1 # 1
        BY <1>1
  <2>2. 1 \in 1..Len(s)
        BY <1>1
  <2>3. Distinct(z)
    <3> SUFFICES ASSUME NEW i \in 1..Len(z), NEW j \in 1..Len(z), z[i] = z[j]
                 PROVE  i = j
        BY DEF Distinct
    <3>1. i + 1 = j + 1
          BY <1>1, <1>3, <2>1 DEF Distinct
    <3> QED BY <3>1
  <2>4. ~In(z, Head(s))
        BY <1>1, <1>3, <2>1, <2>2 DEF In, Distinct
  <2> QED BY <2>3, <2>4
<1> QED BY <1>1, <1>2, <1>3 DEF z

(* Two queues, one after the other.                                        *)
LEMMA Joined ==
    ASSUME NEW Q, NEW s \in Seq(Q), NEW t \in Seq(Q)
    PROVE  /\ s \o t \in Seq(Q) /\ Len(s \o t) = Len(s) + Len(t)
           /\ \A x : In(s \o t, x) <=> (In(s, x) \/ In(t, x))
           /\ Distinct(s) /\ Distinct(t) /\ (\A x : In(s, x) => ~In(t, x))
                 => Distinct(s \o t)
<1> DEFINE z == s \o t
<1>1. /\ z \in Seq(Q) /\ Len(z) = Len(s) + Len(t) /\ Len(s) \in Nat /\ Len(t) \in Nat
      /\ \A i \in 1..Len(s) + Len(t) : z[i] = IF i <= Len(s) THEN s[i] ELSE t[i - Len(s)]
      BY ConcatProperties, LenProperties
<1> HIDE DEF z
<1>2. \A i \in 1..Len(s) : i \in 1..Len(z) /\ z[i] = s[i]
      BY <1>1
<1>3. ASSUME NEW i \in 1..Len(t)
      PROVE  Len(s) + i \in 1..Len(z) /\ z[Len(s) + i] = t[i]
  <2>1. /\ Len(s) + i \in 1..Len(s) + Len(t) /\ ~(Len(s) + i <= Len(s))
        /\ (Len(s) + i) - Len(s) = i
        BY <1>1
  <2> QED BY <1>1, <2>1
<1>4. \A i \in 1..Len(z) : \/ i \in 1..Len(s)
                           \/ i - Len(s) \in 1..Len(t) /\ Len(s) + (i - Len(s)) = i
      BY <1>1
<1>5. \A x : In(z, x) <=> (In(s, x) \/ In(t, x))
  <2>1. ASSUME NEW x, In(z, x) PROVE In(s, x) \/ In(t, x)
    <3>1. PICK i \in 1..Len(z) : z[i] = x
          BY <2>1 DEF In
    <3> QED BY <1>2, <1>3, <1>4, <3>1 DEF In
  <2>2. ASSUME NEW x, In(s, x) \/ In(t, x) PROVE In(z, x)
        BY <1>2, <1>3, <2>2 DEF In
  <2> QED BY <2>1, <2>2
<1>6. ASSUME Distinct(s), Distinct(t), \A x : In(s, x) => ~In(t, x)
      PROVE  Distinct(z)
  <2> SUFFICES ASSUME NEW i \in 1..Len(z), NEW j \in 1..Len(z), z[i] = z[j]
               PROVE  i = j
      BY DEF Distinct
  <2>1. CASE i \in 1..Len(s) /\ j \in 1..Len(s)
        BY <1>2, <1>6, <2>1 DEF Distinct
  <2>2. CASE i - Len(s) \in 1..Len(t) /\ j - Len(s) \in 1..Len(t)
    <3>1. i - Len(s) = j - Len(s)
      <4>1. z[i] = t[i - Len(s)] /\ z[j] = t[j - Len(s)]
            BY <1>1, <2>2
      <4> QED BY <1>6, <2>2, <4>1 DEF Distinct
    <3> QED BY <1>1, <3>1
  <2>3. CASE i \in 1..Len(s) /\ j - Len(s) \in 1..Len(t)
    <3>1. z[i] = s[i] /\ z[j] = t[j - Len(s)]
          BY <1>1, <2>3
    <3> QED BY <1>6, <2>3, <3>1 DEF In
  <2>4. CASE j \in 1..Len(s) /\ i - Len(s) \in 1..Len(t)
    <3>1. z[j] = s[j] /\ z[i] = t[i - Len(s)]
          BY <1>1, <2>4
    <3> QED BY <1>6, <2>4, <3>1 DEF In
  <2> QED BY <1>4, <2>1, <2>2, <2>3, <2>4
<1> QED BY <1>1, <1>5, <1>6 DEF z

(* As many are in a queue as it is long, if nobody is in it twice.         *)
LEMMA QueueSize ==
    ASSUME NEW Q, NEW s \in Seq(Q), Distinct(s)
    PROVE  /\ IsFiniteSet({x \in Q : In(s, x)}) /\ Cardinality({x \in Q : In(s, x)}) = Len(s)
           /\ IsFiniteSet(Q) => Len(s) <= Cardinality(Q)
<1> DEFINE T == {x \in Q : In(s, x)}
<1>1. s \in [1..Len(s) -> Q] /\ Len(s) \in Nat
      BY LenProperties
<1>2. s \in Bijection(1..Len(s), T)
  <2>1. \A i \in 1..Len(s) : s[i] \in T
        BY <1>1 DEF In
  <2>2. s \in [1..Len(s) -> T]
        BY <1>1, <2>1
  <2>3. s \in Injection(1..Len(s), T)
        BY <2>2 DEF Injection, IsInjective, Distinct
  <2>4. s \in Surjection(1..Len(s), T)
        BY <2>2 DEF Surjection, In
  <2> QED BY <2>3, <2>4 DEF Bijection
<1>5. T \in SUBSET Q
      OBVIOUS
<1> HIDE DEF T
<1>3. ExistsBijection(1..Len(s), T)
      BY <1>2 DEF ExistsBijection
<1>4. IsFiniteSet(1..Len(s)) /\ Cardinality(1..Len(s)) = Len(s)
  <2>1. PICK c \in Nat : c = Len(s)
        BY <1>1
  <2>2. IsFiniteSet(1..c) /\ Cardinality(1..c) = c
        BY FS_Interval
  <2> QED BY <2>1, <2>2
<1>6. IsFiniteSet(T) /\ Cardinality(T) = Len(s)
      BY <1>3, <1>4, FS_Bijection
<1>7. IsFiniteSet(Q) => Len(s) <= Cardinality(Q)
      BY <1>5, <1>6, FS_Subset
<1> QED BY <1>6, <1>7 DEF T
LEMMA InQueue ==
    ASSUME NEW Q, NEW s \in Seq(Q), NEW x, In(s, x)
    PROVE  x \in Q
    BY ElementOfSeq DEF In

-----------------------------------------------------------------------------
(* Page tables *)

(* What page tables are: page j of p is in no frame or in one.             *)
Tables(tb) ==
    DOMAIN tb = Procs /\ \A p \in Procs : tb[p] \in [Pages(p) -> Frames \cup {NoFrame}]

(* The pages that the processes in H have loaded.                          *)
Owned(H, tb) == {x \in H \X Int : x[2] \in Loaded(tb[x[1]])}

(* The pages of a process are finitely many, ...                           *)
LEMMA PagesFinite ==
    ASSUME NEW p \in Procs
    PROVE  /\ PageOf(size[p] - 1) \in Int
           /\ Pages(p) \subseteq Nat /\ IsFiniteSet(Pages(p)) /\ Cardinality(Pages(p)) \in Nat
           /\ 0..Essential - 1 \subseteq Pages(p) /\ Essential \in Pages(p)
<1> USE SearchAssumption DEF SearchAssumption
<1>1. PICK q \in Nat : q = (size[p] - 1) \div PerPage
  <2>1. size[p] - 1 \in Nat
        OBVIOUS
  <2> QED BY <2>1, Division
<1>2. PageOf(size[p] - 1) = Essential + q
      BY <1>1 DEF PageOf
<1>3. Pages(p) = 0..(Essential + q)
      BY <1>2 DEF Pages
<1>4. Pages(p) \subseteq Nat /\ 0..Essential - 1 \subseteq Pages(p) /\ Essential \in Pages(p)
      BY <1>3
<1>5. IsFiniteSet(Pages(p))
  <2>1. 0 \in Int /\ Essential + q \in Int
        OBVIOUS
  <2> QED BY <1>3, <2>1, FS_Interval
<1> QED BY <1>2, <1>4, <1>5, FS_CardinalityType

(* ... and so are those that are loaded.                                   *)
LEMMA LoadedFinite ==
    ASSUME NEW tb, Tables(tb), NEW p \in Procs
    PROVE  /\ Loaded(tb[p]) = {j \in Pages(p) : tb[p][j] # NoFrame}
           /\ IsFiniteSet(Loaded(tb[p])) /\ Loaded(tb[p]) \subseteq Nat
           /\ Cardinality(Loaded(tb[p])) \in Nat
           /\ Cardinality(Loaded(tb[p])) <= Cardinality(Pages(p))
<1>1. Loaded(tb[p]) = {j \in Pages(p) : tb[p][j] # NoFrame}
      BY DEF Loaded, Tables
<1>2. Loaded(tb[p]) \in SUBSET Pages(p)
      BY <1>1
<1>3. Pages(p) \subseteq Nat /\ IsFiniteSet(Pages(p))
      BY PagesFinite
<1>4. IsFiniteSet(Loaded(tb[p])) /\ Cardinality(Loaded(tb[p])) <= Cardinality(Pages(p))
      BY <1>2, <1>3, FS_Subset
<1> QED BY <1>1, <1>2, <1>3, <1>4, FS_CardinalityType

(* A process that joins adds what it has loaded.                           *)
LEMMA OwnedJoin ==
    ASSUME NEW tb, NEW H, NEW w, w \notin H,
           IsFiniteSet(Owned(H, tb)), IsFiniteSet(Loaded(tb[w])), Loaded(tb[w]) \subseteq Int
    PROVE  /\ IsFiniteSet(Owned(H \cup {w}, tb))
           /\ Cardinality(Owned(H \cup {w}, tb))
                = Cardinality(Owned(H, tb)) + Cardinality(Loaded(tb[w]))
<1> DEFINE L == Loaded(tb[w])
           O == Owned(H, tb)
           N == {w} \X L
           f == [j \in L |-> <<w, j>>]
<1>1. Owned(H \cup {w}, tb) = O \cup N /\ O \cap N = {}
      BY DEF Owned
<1>2. f \in Bijection(L, N)
  <2>1. f \in Injection(L, N)
        BY DEF Injection, IsInjective
  <2>2. f \in Surjection(L, N)
        BY DEF Surjection
  <2> QED BY <2>1, <2>2 DEF Bijection
<1> HIDE DEF f, N, L, O
<1>3. ExistsBijection(L, N)
      BY <1>2 DEF ExistsBijection
<1>4. IsFiniteSet(N) /\ Cardinality(N) = Cardinality(L)
      BY <1>3, FS_Bijection DEF L
<1>5. IsFiniteSet(O \cup N) /\ Cardinality(O \cup N) = Cardinality(O) + Cardinality(N)
  <2>1. IsFiniteSet(O)
        BY DEF O
  <2>2. Cardinality(O \cap N) = 0
        BY <1>1, FS_EmptySet
  <2>3. Cardinality(O \cup N) = Cardinality(O) + Cardinality(N) - Cardinality(O \cap N)
        BY <1>4, <2>1, FS_Union
  <2>4. Cardinality(O) \in Nat /\ Cardinality(N) \in Nat
        BY <1>4, <2>1, FS_CardinalityType
  <2> QED BY <1>4, <2>1, <2>2, <2>3, <2>4, FS_Union
<1> QED BY <1>1, <1>4, <1>5 DEF L, O

(* What is loaded by all together is finite.                               *)
LEMMA OwnedFinite ==
    ASSUME NEW tb, Tables(tb), NEW H \in SUBSET Procs
    PROVE  IsFiniteSet(Owned(H, tb)) /\ Cardinality(Owned(H, tb)) \in Nat
<1> DEFINE T == {{p} \X Loaded(tb[p]) : p \in Procs}
<1>1. IsFiniteSet(Procs)
  <2>1. 0 \in Int /\ n - 1 \in Int
        BY SearchAssumption DEF SearchAssumption
  <2> QED BY <2>1, FS_Interval DEF Procs
<1>2. \A p \in Procs : IsFiniteSet({p} \X Loaded(tb[p]))
      BY LoadedFinite, FS_Singleton, FS_Product
<1>3. IsFiniteSet(Procs \X UNION {Pages(p) : p \in Procs})
  <2> DEFINE f == [p \in Procs |-> Pages(p)]
             P == {Pages(p) : p \in Procs}
  <2>1. f \in Surjection(Procs, P)
        BY DEF Surjection
  <2>2. \A t \in P : IsFiniteSet(t)
        BY PagesFinite
  <2> HIDE DEF f, P
  <2>3. IsFiniteSet(P)
        BY <1>1, <2>1, FS_Surjection
  <2>4. IsFiniteSet(UNION P)
        BY <2>2, <2>3, FS_UNION
  <2> QED BY <1>1, <2>4, FS_Product DEF P
<1>4. Owned(H, tb) \in SUBSET (Procs \X UNION {Pages(p) : p \in Procs})
  <2>1. ASSUME NEW x \in Owned(H, tb)
        PROVE  x[1] \in Procs /\ x[2] \in Pages(x[1]) /\ x = <<x[1], x[2]>>
        BY LoadedFinite DEF Owned
  <2> QED BY <2>1
<1> QED BY <1>3, <1>4, FS_Subset, FS_CardinalityType

(* A process that goes takes what it has loaded with it.                   *)
LEMMA OwnedLeave ==
    ASSUME NEW tb, Tables(tb), NEW H \in SUBSET Procs, NEW p \in H
    PROVE  Cardinality(Owned(H, tb))
             = Cardinality(Owned(H \ {p}, tb)) + Cardinality(Loaded(tb[p]))
<1>1. IsFiniteSet(Owned(H \ {p}, tb))
      BY OwnedFinite
<1>2. IsFiniteSet(Loaded(tb[p])) /\ Loaded(tb[p]) \subseteq Int
      BY LoadedFinite
<1>3. (H \ {p}) \cup {p} = H /\ p \notin H \ {p}
      OBVIOUS
<1> QED BY <1>1, <1>2, <1>3, OwnedJoin

(* A page that is loaded is one more.                                      *)
LEMMA OwnedLoad ==
    ASSUME NEW tb, Tables(tb), NEW z, Tables(z), NEW H \in SUBSET Procs, NEW p \in H,
           NEW j \in Pages(p), tb[p][j] = NoFrame, z[p][j] # NoFrame,
           \A i \in Pages(p) : i # j => z[p][i] = tb[p][i],
           \A q \in Procs : q # p => z[q] = tb[q]
    PROVE  Cardinality(Owned(H, z)) = Cardinality(Owned(H, tb)) + 1
<1>1. Loaded(z[p]) = Loaded(tb[p]) \cup {j}
  <2>1. /\ Loaded(z[p]) = {i \in Pages(p) : z[p][i] # NoFrame}
        /\ Loaded(tb[p]) = {i \in Pages(p) : tb[p][i] # NoFrame}
        BY LoadedFinite
  <2> QED BY <2>1
<1>2. j \notin Loaded(tb[p])
      BY DEF Loaded
<1>3. j \in Int
      BY PagesFinite
<1>4. Owned(H, z) = Owned(H, tb) \cup {<<p, j>>}
      BY <1>1, <1>3 DEF Owned
<1>5. <<p, j>> \notin Owned(H, tb)
      BY <1>2 DEF Owned
<1> QED BY <1>4, <1>5, OwnedFinite, FS_AddElement

(* The order of the loops over a page table has each loaded page once.     *)
LEMMA LoadedOnce ==
    ASSUME NEW t, IsFiniteSet(Loaded(t)), Loaded(t) \subseteq Int
    PROVE  /\ LoadedInOrder(t) \in Seq(Loaded(t))
           /\ Len(LoadedInOrder(t)) = Cardinality(Loaded(t))
           /\ \A i, j \in 1..Cardinality(Loaded(t)) :
                 LoadedInOrder(t)[i] = LoadedInOrder(t)[j] => i = j
           /\ \A j \in Loaded(t) :
                 \E i \in 1..Cardinality(Loaded(t)) : LoadedInOrder(t)[i] = j
<1> DEFINE L == Loaded(t)
           c == Cardinality(L)
           UpTo(j) == {k \in L : k <= j}
           Rank(j) == Cardinality(UpTo(j))
           s == [i \in 1..c |-> CHOOSE j \in L : Rank(j) = i]
<1>0. s = LoadedInOrder(t)
      BY DEF LoadedInOrder
<1>1. IsFiniteSet(L) /\ L \subseteq Int /\ c \in Nat
      BY FS_CardinalityType
<1> HIDE DEF L, s, c
<1>2. ASSUME NEW j \in L
      PROVE  IsFiniteSet(UpTo(j)) /\ Rank(j) \in 1..c
  <2>1. UpTo(j) \in SUBSET L /\ j \in UpTo(j)
        BY <1>1
  <2> HIDE DEF UpTo
  <2>2. IsFiniteSet(UpTo(j)) /\ Cardinality(UpTo(j)) <= c
        BY <1>1, <2>1, FS_Subset DEF c
  <2>3. Cardinality(UpTo(j)) \in Nat /\ Cardinality(UpTo(j)) # 0
        BY <2>1, <2>2, FS_CardinalityType, FS_EmptySet
  <2> QED BY <1>1, <2>2, <2>3
<1>3. ASSUME NEW i \in L, NEW j \in L, i < j
      PROVE  Rank(i) < Rank(j)
  <2>0. i \in Int /\ j \in Int /\ \A k \in L : k \in Int
        BY <1>1
  <2>1. UpTo(i) \subseteq UpTo(j)
    <3>1. ASSUME NEW k \in L, k <= i PROVE k <= j
          BY <1>3, <2>0, <3>1
    <3> QED BY <3>1
  <2>4. j \in UpTo(j) /\ ~(j <= i)
        BY <1>3, <2>0
  <2>5. j \notin UpTo(i)
        BY <2>4
  <2>2. IsFiniteSet(UpTo(i)) /\ IsFiniteSet(UpTo(j))
        BY <1>2
  <2> HIDE DEF UpTo
  <2>3. Cardinality(UpTo(i)) <= Cardinality(UpTo(j))
        /\ Cardinality(UpTo(i)) # Cardinality(UpTo(j))
        BY <2>1, <2>2, <2>4, <2>5, FS_Subset
  <2>6. Cardinality(UpTo(i)) \in Nat /\ Cardinality(UpTo(j)) \in Nat
        BY <2>2, FS_CardinalityType
  <2> QED BY <2>3, <2>6
<1>4. ASSUME NEW i \in L, NEW j \in L, Rank(i) = Rank(j)
      PROVE  i = j
  <2>1. i < j \/ j < i \/ i = j
        BY <1>1
  <2>2. Rank(i) \in Int /\ Rank(j) \in Int
        BY <1>1, <1>2
  <2> HIDE DEF Rank
  <2> QED BY <1>3, <1>4, <2>1, <2>2
<1>5. \A i \in 1..c : \E j \in L : Rank(j) = i
  <2> DEFINE r == [j \in L |-> Rank(j)]
  <2> HIDE DEF Rank
  <2>1. r \in Injection(L, 1..c)
        BY <1>2, <1>4 DEF Injection, IsInjective
  <2>2. IsFiniteSet(1..c) /\ Cardinality(1..c) = c
        BY <1>1, FS_Interval
  <2>3. r \in Surjection(L, 1..c)
    <3> HIDE DEF r
    <3> QED BY <2>1, <2>2, FS_Injection DEF c
  <2> QED BY <2>3 DEF Surjection
<1> HIDE DEF Rank
<1>6. ASSUME NEW i \in 1..c PROVE s[i] \in L /\ Rank(s[i]) = i
      BY <1>5 DEF s
<1>7. s \in [1..c -> L]
      BY <1>6 DEF s
<1>8. s \in Seq(L) /\ Len(s) = c
      BY <1>1, <1>7
<1>9. \A i, j \in 1..c : s[i] = s[j] => i = j
      BY <1>6
<1>10. ASSUME NEW j \in L PROVE \E i \in 1..c : s[i] = j
      BY <1>2, <1>4, <1>6
<1> QED BY <1>0, <1>8, <1>9, <1>10 DEF L, c


(* What those loaded have does not depend on what the others have.         *)
LEMMA OwnedSame ==
    ASSUME NEW tb, NEW z, NEW H, \A q \in H : z[q] = tb[q]
    PROVE  Owned(H, z) = Owned(H, tb)
    BY DEF Owned

-----------------------------------------------------------------------------
(* Searches *)

(* Who is searching; a search has a range left, within the array.          *)
Runs(p) == search # NoSearch /\ search.pid = p
InRange ==
    search = NoSearch \/
       /\ search \in [pid : Procs, key : Nat, left : Nat, right : Nat]
       /\ search.left <= search.right /\ search.right < size[search.pid]

(* The page looked at is one of the process's.                             *)
LEMMA PageOfIts ==
    ASSUME NEW p \in Procs, NEW i \in Nat, i < size[p]
    PROVE  PageOf(i) \in Pages(p) /\ PageOf(i) >= Essential
<1>1. size[p] \in Nat \ {0} /\ PerPage \in Nat \ {0} /\ Essential \in Nat \ {0}
      BY SearchAssumption DEF SearchAssumption
<1>2. PICK k \in Nat : k = size[p] - 1 /\ i <= k
      BY <1>1
<1>3. i \div PerPage \in Nat /\ k \div PerPage \in Nat /\ i \div PerPage <= k \div PerPage
      BY <1>1, <1>2, Division
<1>4. PICK a \in Nat, b \in Nat : a = i \div PerPage /\ b = k \div PerPage /\ a <= b
      BY <1>3
<1>5. Essential + a \in 0..Essential + b /\ Essential + a >= Essential
      BY <1>1, <1>4
<1> QED BY <1>2, <1>4, <1>5 DEF PageOf, Pages
(* Half of a range.                                                        *)
LEMMA Narrowed ==
    ASSUME NEW s \in [pid : Procs, key : Nat, left : Nat, right : Nat], s.left < s.right
    PROVE  /\ Mid(s) \in Nat /\ s.left <= Mid(s) /\ Mid(s) < s.right
           /\ Narrow(s) \in [pid : Procs, key : Nat, left : Nat, right : Nat]
           /\ Narrow(s).pid = s.pid
           /\ Narrow(s).left <= Narrow(s).right /\ Narrow(s).right <= s.right
           /\ Narrow(s) # NoSearch
<1>1. PICK l \in Nat, r \in Nat : l = s.left /\ r = s.right /\ l < r
      OBVIOUS
<1>2. PICK d : d = (l + r) \div 2
      OBVIOUS
<1>3. d \in Nat /\ l <= d /\ d < r
      BY <1>1, <1>2
<1>4. Mid(s) = d
      BY <1>1, <1>2 DEF Mid
<1>5. CASE s.key <= Mid(s)
  <2>1. Narrow(s) = [s EXCEPT !.right = d]
        BY <1>4, <1>5 DEF Narrow
  <2>2. Narrow(s) = [pid |-> s.pid, key |-> s.key, left |-> l, right |-> d]
        BY <1>1, <2>1
  <2>3. s.pid \in Nat /\ -1 \notin Nat
        BY DEF Procs
  <2> QED BY <1>1, <1>3, <1>4, <2>2, <2>3 DEF NoSearch
<1>6. CASE ~(s.key <= Mid(s))
  <2>1. Narrow(s) = [s EXCEPT !.left = d + 1]
        BY <1>4, <1>6 DEF Narrow
  <2>2. Narrow(s) = [pid |-> s.pid, key |-> s.key, left |-> d + 1, right |-> r]
        BY <1>1, <2>1
  <2>3. s.pid \in Nat /\ -1 \notin Nat
        BY DEF Procs
  <2>4. d + 1 \in Nat /\ d + 1 <= r
        BY <1>3
  <2> QED BY <1>1, <1>3, <1>4, <2>2, <2>3, <2>4 DEF NoSearch
<1> QED BY <1>5, <1>6

(* A search begins.                                                        *)
LEMMA Begun ==
    ASSUME NEW p \in Procs, NEW k \in Keys, search' = NewSearch(p, k)
    PROVE  InRange' /\ search' # NoSearch /\ search'.pid = p
<1>1. k \in Nat /\ size[p] \in Nat \ {0}
      BY SearchAssumption DEF SearchAssumption
<1>2. size[p] - 1 \in Nat /\ 0 <= size[p] - 1 /\ size[p] - 1 < size[p]
      BY <1>1
<1>3. search' = [pid |-> p, key |-> k, left |-> 0, right |-> size[p] - 1]
      BY DEF NewSearch
<1>4. p # -1
      BY DEF Procs
<1>5. search' # NoSearch /\ search'.pid = p
      BY <1>3, <1>4 DEF NoSearch
<1>6. /\ search' \in [pid : Procs, key : Nat, left : Nat, right : Nat]
      /\ search'.left <= search'.right /\ search'.right < size[search'.pid]
      BY <1>1, <1>2, <1>3
<1> QED BY <1>5, <1>6 DEF InRange

(* A search goes on.                                                       *)
LEMMA GoesOn ==
    ASSUME InRange, search # NoSearch, ~Found(search), search' = Narrow(search)
    PROVE  /\ InRange' /\ search' # NoSearch /\ search'.pid = search.pid
           /\ \A q : Runs(q)' <=> Runs(q)
           /\ Page \in Pages(search.pid) /\ Page >= Essential
<1>1. /\ search \in [pid : Procs, key : Nat, left : Nat, right : Nat]
      /\ search.left < search.right /\ search.right < size[search.pid]
  <2>1. ~(search.left >= search.right)
        BY DEF Found
  <2>2. /\ search \in [pid : Procs, key : Nat, left : Nat, right : Nat]
        /\ search.left <= search.right /\ search.right < size[search.pid]
        BY DEF InRange
  <2> QED BY <2>1, <2>2
<1>2. /\ search' \in [pid : Procs, key : Nat, left : Nat, right : Nat]
      /\ search'.pid = search.pid
      /\ search'.left <= search'.right /\ search'.right <= search.right
      /\ search' # NoSearch
      /\ Mid(search) \in Nat /\ Mid(search) < search.right
      BY <1>1, Narrowed
<1>3. search'.right < size[search'.pid] /\ Mid(search) < size[search.pid]
  <2>1. size[search.pid] \in Nat
        BY <1>1, SearchAssumption DEF SearchAssumption
  <2>2. PICK a \in Nat, b \in Nat, c \in Nat, d \in Nat :
          a = search'.right /\ b = search.right /\ c = size[search.pid] /\ d = Mid(search)
        BY <1>1, <1>2, <2>1
  <2> QED BY <1>1, <1>2, <2>2
<1>4. \A q : Runs(q)' <=> Runs(q)
      BY <1>2 DEF Runs
<1>5. Page \in Pages(search.pid) /\ Page >= Essential
      BY <1>1, <1>2, <1>3, PageOfIts DEF Page
<1> QED BY <1>2, <1>3, <1>4, <1>5 DEF InRange
-----------------------------------------------------------------------------
(* Frames *)

(* What is left of a list of free frames when k have been taken from it.   *)
LEMMA FramesTaken ==
    ASSUME NEW f \in Seq(Frames), NEW k \in Nat, k <= Len(f)
    PROVE  /\ Without(f, k) \in Seq(Frames) /\ Len(Without(f, k)) = Len(f) - k
           /\ Student => \A i \in 1..Len(f) - k : Without(f, k)[i] = f[i]
           /\ ~Student => \A i \in 1..Len(f) - k : Without(f, k)[i] = f[i + k]
<1>1. PICK c \in Nat : c = Len(f)
      BY LenProperties
<1>2. \A i \in 1..c : f[i] \in Frames
      BY <1>1, ElementOfSeq
<1>3. CASE Student
  <2>1. Without(f, k) = SubSeq(f, 1, c - k)
        BY <1>1, <1>3 DEF Without
  <2>2. /\ SubSeq(f, 1, c - k) \in Seq(Frames)
        /\ Len(SubSeq(f, 1, c - k)) = c - k
        /\ \A i \in 1..c - k : SubSeq(f, 1, c - k)[i] = f[i]
    <3>1. \A i \in 1..c - k : f[i] \in Frames
          BY <1>1, <1>2
    <3>2. SubSeq(f, 1, c - k) = [i \in 1..c - k |-> f[i]]
          BY <1>1
    <3>0. PICK a \in Nat : a = c - k
      <4>1. c - k \in Nat
            BY <1>1
      <4> QED BY <4>1
    <3>3. PICK g : g = [i \in 1..a |-> f[i]]
          OBVIOUS
    <3>4. g \in [1..a -> Frames] /\ \A i \in 1..a : g[i] = f[i]
          BY <3>0, <3>1, <3>3
    <3>5. g \in Seq(Frames) /\ Len(g) = a
          BY ONLY <3>4, a \in Nat
    <3> QED BY <3>0, <3>2, <3>3, <3>4, <3>5
  <2> QED BY <1>1, <1>3, <2>1, <2>2
<1>4. CASE ~Student
  <2>1. Without(f, k) = SubSeq(f, k + 1, c)
        BY <1>1, <1>4 DEF Without
  <2>2. /\ SubSeq(f, k + 1, c) \in Seq(Frames)
        /\ Len(SubSeq(f, k + 1, c)) = c - k
        /\ \A i \in 1..c - k : SubSeq(f, k + 1, c)[i] = f[i + k]
    <3>1. \A i \in 1..c - k : f[i + k] \in Frames
          BY <1>1, <1>2
    <3>2. SubSeq(f, k + 1, c) = [i \in 1..c - k |-> f[i + k]]
      <4>1. (c - (k + 1)) + 1 = c - k /\ \A i \in 1..c - k : (i + (k + 1)) - 1 = i + k
            BY <1>1
      <4>2. SubSeq(f, k + 1, c) = [i \in 1..(c - (k + 1)) + 1 |-> f[(i + (k + 1)) - 1]]
            BY <1>1
      <4> QED BY <4>1, <4>2
    <3>0. PICK a \in Nat : a = c - k
      <4>1. c - k \in Nat
            BY <1>1
      <4> QED BY <4>1
    <3>3. PICK g : g = [i \in 1..a |-> f[i + k]]
          OBVIOUS
    <3>4. g \in [1..a -> Frames] /\ \A i \in 1..a : g[i] = f[i + k]
          BY <3>0, <3>1, <3>3
    <3>5. g \in Seq(Frames) /\ Len(g) = a
          BY ONLY <3>4, a \in Nat
    <3> QED BY <3>0, <3>2, <3>3, <3>4, <3>5
  <2> QED BY <1>1, <1>4, <2>1, <2>2
<1> QED BY <1>3, <1>4

(* A process that is loaded has its essential pages and no others.         *)
LEMMA EssentialsLoaded ==
    ASSUME NEW p \in Procs, NEW f \in Seq(Frames), Len(f) >= Essential
    PROVE  /\ EssentialPages(p, f) \in [Pages(p) -> Frames \cup {NoFrame}]
           /\ Loaded(EssentialPages(p, f)) = 0..Essential - 1
           /\ Cardinality(Loaded(EssentialPages(p, f))) = Essential
           /\ Student => \A j \in 0..Essential - 1 :
                            EssentialPages(p, f)[j] = f[Len(f) - j]
<1> DEFINE t == EssentialPages(p, f)
<1>1. PICK c \in Nat : c = Len(f)
      BY LenProperties
<1>2. \A i \in 1..c : f[i] \in Frames
      BY <1>1, ElementOfSeq
<1>3. Essential \in Nat \ {0} /\ Pages(p) \subseteq Nat /\ 0..Essential - 1 \subseteq Pages(p)
      BY PagesFinite, SearchAssumption DEF SearchAssumption
<1>4. \A j \in 0..Essential - 1 : c - j \in 1..c /\ j + 1 \in 1..c
      BY <1>1, <1>3
<1>5. t = [j \in Pages(p) |-> IF j >= Essential THEN NoFrame
                              ELSE IF Student THEN f[c - j] ELSE f[j + 1]]
      BY <1>1 DEF EssentialPages
<1> HIDE DEF t
<1>6. ASSUME NEW j \in Pages(p)
      PROVE  /\ j >= Essential => t[j] = NoFrame
             /\ j < Essential => j \in 0..Essential - 1 /\ t[j] \in Frames
             /\ j < Essential /\ Student => t[j] = f[c - j]
  <2>1. j < Essential => j \in 0..Essential - 1 /\ ~(j >= Essential)
        BY <1>3
  <2> QED BY <1>2, <1>4, <1>5, <2>1
<1>7. NoFrame \notin Frames
      BY DEF NoFrame, Frames
<1>8. \A j \in Pages(p) : j >= Essential \/ j < Essential
      BY <1>3
<1>9. t \in [Pages(p) -> Frames \cup {NoFrame}]
  <2>1. \A j \in Pages(p) : t[j] \in Frames \cup {NoFrame}
        BY <1>6, <1>8
  <2> QED BY <1>5, <2>1
<1>10. Loaded(t) = 0..Essential - 1
  <2>1. DOMAIN t = Pages(p)
        BY <1>9
  <2>2. ASSUME NEW j \in Pages(p), t[j] # NoFrame PROVE j \in 0..Essential - 1
        BY <1>6, <1>8, <2>2
  <2>3. ASSUME NEW j \in 0..Essential - 1 PROVE j \in Pages(p) /\ t[j] # NoFrame
    <3>1. j \in Pages(p) /\ j < Essential
          BY <1>3
    <3> QED BY <1>6, <1>7, <3>1
  <2> QED BY <2>1, <2>2, <2>3 DEF Loaded
<1>11. Cardinality(0..Essential - 1) = Essential
  <2>1. 0 \in Int /\ Essential - 1 \in Int /\ ~(0 > Essential - 1)
        /\ (Essential - 1) - 0 + 1 = Essential
        BY <1>3
  <2> QED BY <2>1, FS_Interval
<1>12. ASSUME Student, NEW j \in 0..Essential - 1 PROVE t[j] = f[c - j]
  <2>1. j \in Pages(p) /\ j < Essential
        BY <1>3
  <2> QED BY <1>6, <1>12, <2>1
<1> QED BY <1>1, <1>9, <1>10, <1>11, <1>12 DEF t

(* What a process gives back: as many frames as it has pages loaded, and   *)
(* in the student's program just those frames.                             *)
LEMMA FramesReleased ==
    ASSUME Tables(table), NEW p \in Procs
    PROVE  /\ Released(p) \in Seq(Frames)
           /\ Len(Released(p)) = Cardinality(Loaded(table[p]))
           /\ Student => \A j \in Loaded(table[p]) : In(Released(p), table[p][j])
<1> DEFINE L == Loaded(table[p])
           s == LoadedInOrder(table[p])
<1>1. /\ L = {j \in Pages(p) : table[p][j] # NoFrame}
      /\ IsFiniteSet(L) /\ L \subseteq Nat /\ Cardinality(L) \in Nat
      BY LoadedFinite
<1>2. /\ s \in Seq(L) /\ Len(s) = Cardinality(L)
      /\ \A j \in L : \E i \in 1..Cardinality(L) : s[i] = j
  <2>1. L \subseteq Int
        BY <1>1
  <2> QED BY <1>1, <2>1, LoadedOnce
<1>3. \A j \in L : table[p][j] \in Frames /\ j \in Frames
  <2>1. \A j \in L : j \in Pages(p) /\ table[p][j] # NoFrame
        BY <1>1
  <2>2. \A j \in L : table[p][j] \in Frames
        BY <2>1 DEF Tables
  <2>3. \A j \in Pages(p) : j \in Frames
    <3>1. PageOf(size[p] - 1) \in Int /\ Cardinality(Pages(p)) <= NFRAMES /\ NFRAMES \in Nat
          BY PagesFinite, FitsAssumption, SearchAssumption DEF SearchAssumption
    <3>2. PICK q \in Int : q = PageOf(size[p] - 1)
          BY <3>1
    <3>3. Essential \in 0..q
          BY <3>2, PagesFinite DEF Pages
    <3>4. Cardinality(0..q) = q + 1
      <4>1. 0 \in Int /\ q \in Int /\ ~(0 > q) /\ q - 0 + 1 = q + 1
            BY <3>3
      <4> QED BY <4>1, FS_Interval
    <3> QED BY <3>1, <3>2, <3>4 DEF Pages, Frames
  <2> QED BY <2>1, <2>2, <2>3
<1> HIDE DEF L
<1>4. DOMAIN s = 1..Cardinality(L) /\ \A i \in 1..Cardinality(L) : s[i] \in L
      BY <1>2, ElementOfSeq, LenProperties
<1>5. CASE Student
  <2>1. Released(p) = [i \in 1..Cardinality(L) |-> table[p][s[i]]]
        BY <1>4, <1>5 DEF Released
  <2> HIDE DEF s
  <2>2. \A i \in 1..Cardinality(L) : table[p][s[i]] \in Frames
        BY <1>3, <1>4
  <2>3. Released(p) \in [1..Cardinality(L) -> Frames]
        BY <2>1, <2>2
  <2>4. Released(p) \in Seq(Frames) /\ Len(Released(p)) = Cardinality(L)
    <3>1. PICK c \in Nat : c = Cardinality(L)
          BY <1>1
    <3>2. PICK r : r = Released(p)
          OBVIOUS
    <3>3. r \in [1..c -> Frames]
          BY <2>3, <3>1, <3>2
    <3>4. r \in Seq(Frames) /\ Len(r) = c
          BY <3>3
    <3> QED BY <3>1, <3>2, <3>4
  <2>5. ASSUME NEW j \in L PROVE In(Released(p), table[p][j])
    <3>1. PICK i \in 1..Cardinality(L) : s[i] = j
          BY <1>2
    <3> QED BY <2>1, <2>4, <3>1 DEF In
  <2> QED BY <2>4, <2>5 DEF L
<1>6. CASE ~Student
  <2>1. Released(p) = s
        BY <1>6 DEF Released
  <2> HIDE DEF s
  <2>2. s \in [1..Cardinality(L) -> Frames]
    <3>1. \A i \in 1..Cardinality(L) : s[i] \in Frames
          BY <1>3, <1>4
    <3>2. s \in [1..Cardinality(L) -> L]
          BY <1>2, LenProperties
    <3> QED BY <3>1, <3>2
  <2>3. s \in Seq(Frames) /\ Len(s) = Cardinality(L)
    <3>1. PICK c \in Nat : c = Cardinality(L)
          BY <1>1
    <3>2. s \in [1..c -> Frames]
          BY <2>2, <3>1
    <3>3. s \in Seq(Frames) /\ Len(s) = c
          BY <3>2
    <3> QED BY <3>1, <3>3
  <2> QED BY <1>6, <2>1, <2>3 DEF L
<1> QED BY <1>5, <1>6

-----------------------------------------------------------------------------
(* The inductive invariant *)

(* Who is in memory. *)
Here == {p \in Procs : In(ready, p) \/ Runs(p)}

Types ==
    /\ version \in {"student", "solution"}
    /\ ready \in Seq(Procs) /\ swapped \in Seq(Procs)
    /\ InRange
    /\ count \in [Procs -> 0..m] /\ keys \in [Procs -> SUBSET Keys]
    /\ Tables(table) /\ free \in Seq(Frames)
    /\ failed = FALSE

(* Nobody is in two places, and who is in none has ended. *)
Line ==
    /\ Distinct(ready) /\ Distinct(swapped)
    /\ \A p \in Procs : In(ready, p) => ~In(swapped, p) /\ ~Runs(p)
    /\ \A p \in Procs : In(swapped, p) => ~Runs(p)
    /\ \A p \in Procs : count[p] = m <=> ~In(ready, p) /\ ~In(swapped, p) /\ ~Runs(p)

(* Those in memory are the active ones. *)
Counts ==
    /\ active = Len(ready) + IF search = NoSearch THEN 0 ELSE 1
    /\ active \in 0..n /\ domp \in 0..n

(* Those in memory keep their essential pages, ... *)
Keeps == \A p \in Here : 0..Essential - 1 \subseteq Loaded(table[p])

(* ... each frame is free or theirs, ... *)
Total == Cardinality(Owned(Here, table)) + Len(free) = NFRAMES

(* ... and in the student's program no frame is handed out twice. *)
Covered(H, tb, f) ==
    \A x \in Frames : In(f, x) \/ \E p \in H : \E j \in Loaded(tb[p]) : tb[p][j] = x
Cover == Student => Covered(Here, table, free)

Inv == Types /\ Line /\ Counts /\ Keeps /\ Total /\ Cover

-----------------------------------------------------------------------------
(* The beginning *)

LEMMA InitInv == Init => Inv
<1> SUFFICES ASSUME Init PROVE Inv
    OBVIOUS
<1> DEFINE F(k) == Without(AllFrames, k)
           E == Essential
<1>0. /\ n \in Nat \ {0} /\ m \in Nat \ {0} /\ E \in Nat \ {0} /\ NFRAMES \in Nat
      BY SearchAssumption DEF SearchAssumption
<1>1. AllFrames \in Seq(Frames) /\ Len(AllFrames) = NFRAMES
      /\ \A i \in 1..NFRAMES : AllFrames[i] = i - 1
      BY <1>0 DEF AllFrames, Frames
<1>2. \A k \in Nat : k <= NFRAMES =>
         /\ F(k) \in Seq(Frames) /\ Len(F(k)) = NFRAMES - k
         /\ Student => \A i \in 1..NFRAMES - k : F(k)[i] = i - 1
  <2> SUFFICES ASSUME NEW k \in Nat, k <= NFRAMES
               PROVE  /\ F(k) \in Seq(Frames) /\ Len(F(k)) = NFRAMES - k
                      /\ Student => \A i \in 1..NFRAMES - k : F(k)[i] = i - 1
      OBVIOUS
  <2>1. /\ F(k) \in Seq(Frames) /\ Len(F(k)) = NFRAMES - k
        /\ Student => \A i \in 1..NFRAMES - k : F(k)[i] = AllFrames[i]
        BY <1>1, FramesTaken
  <2>2. \A i \in 1..NFRAMES - k : i \in 1..NFRAMES
        BY <1>0
  <2> QED BY <1>1, <2>1, <2>2
<1> HIDE DEF F
<1>3. ASSUME NEW p \in Procs
      PROVE  /\ F(p * E) \in Seq(Frames) /\ Len(F(p * E)) = NFRAMES - p * E
             /\ Len(F(p * E)) >= E
             /\ p * E \in Nat /\ p * E + E <= NFRAMES
             /\ Student => \A i \in 1..NFRAMES - p * E : F(p * E)[i] = i - 1
  <2>1. PICK k \in Nat : k = p * E /\ k + E <= n * E /\ n * E \in Nat /\ n * E <= NFRAMES
        BY RoomForAll
  <2>2. k <= NFRAMES /\ k + E <= NFRAMES
        BY <1>0, <2>1
  <2>3. /\ F(k) \in Seq(Frames) /\ Len(F(k)) = NFRAMES - k
        /\ Student => \A i \in 1..NFRAMES - k : F(k)[i] = i - 1
        BY <1>2, <2>2
  <2> QED BY <1>0, <2>1, <2>2, <2>3
<1>4. ASSUME NEW p \in Procs
      PROVE  /\ table[p] \in [Pages(p) -> Frames \cup {NoFrame}]
             /\ Loaded(table[p]) = 0..E - 1
             /\ Student => \A j \in 0..E - 1 : table[p][j] = NFRAMES - p * E - j - 1
  <2>1. table[p] = EssentialPages(p, F(p * E))
        BY DEF Init, F
  <2>2. PICK f \in Seq(Frames) : f = F(p * E)
        BY <1>3
  <2>3. /\ EssentialPages(p, f) \in [Pages(p) -> Frames \cup {NoFrame}]
        /\ Loaded(EssentialPages(p, f)) = 0..E - 1
        /\ Student => \A j \in 0..E - 1 : EssentialPages(p, f)[j] = f[Len(f) - j]
        BY <1>3, <2>2, EssentialsLoaded
  <2>4. ASSUME Student, NEW j \in 0..E - 1
        PROVE  f[Len(f) - j] = NFRAMES - p * E - j - 1
    <3>1. Len(f) - j = NFRAMES - p * E - j /\ NFRAMES - p * E - j \in 1..NFRAMES - p * E
      <4>1. PICK k \in Nat : k = p * E
            BY <1>3
      <4> QED BY <1>0, <1>3, <2>2, <4>1
    <3>2. f[NFRAMES - p * E - j] = (NFRAMES - p * E - j) - 1
          BY <1>3, <2>2, <2>4, <3>1
    <3> QED BY <3>1, <3>2
  <2> QED BY <2>1, <2>2, <2>3, <2>4
<1>5. /\ free = F(n * E) /\ free \in Seq(Frames) /\ Len(free) = NFRAMES - n * E
      /\ n * E \in Nat /\ n * E <= NFRAMES
      /\ Student => \A i \in 1..NFRAMES - n * E : free[i] = i - 1
  <2>1. n * E \in Nat /\ n * E <= NFRAMES
        BY RoomForAll
  <2>2. free = F(n * E)
        BY DEF Init, F
  <2> QED BY <1>2, <2>1, <2>2
<1>6. /\ ready \in Seq(Procs) /\ Len(ready) = n /\ \A i \in 1..n : ready[i] = i - 1
      /\ search = NoSearch /\ swapped = <<>>
      BY <1>0 DEF Init, Procs
<1>7. \A p \in Procs : In(ready, p) /\ ~In(swapped, p) /\ ~Runs(p)
  <2>1. \A p \in Procs : p + 1 \in 1..n /\ (p + 1) - 1 = p
        BY <1>0 DEF Procs
  <2>2. \A p \in Procs : In(ready, p)
        BY <1>6, <2>1 DEF In
  <2>3. \A p : ~In(<<>>, p)
        BY EmptySeq DEF In
  <2> QED BY <1>6, <2>2, <2>3 DEF Runs
<1>8. Here = Procs
      BY <1>7 DEF Here
<1>9. Tables(table)
      BY <1>4 DEF Tables, Init
<1>10. Types
  <2>1. count \in [Procs -> 0..m] /\ keys \in [Procs -> SUBSET Keys]
        BY <1>0 DEF Init
  <2>2. swapped \in Seq(Procs)
        BY <1>6, EmptySeq
  <2> QED BY <1>5, <1>6, <1>9, <2>1, <2>2 DEF Types, InRange, Init
<1>11. Line
  <2>1. Distinct(ready)
        BY <1>0, <1>6 DEF Distinct
  <2>2. Distinct(swapped)
        BY <1>6, EmptySeq DEF Distinct
  <2>3. \A p \in Procs : count[p] # m
        BY <1>0 DEF Init
  <2> QED BY <1>7, <2>1, <2>2, <2>3 DEF Line
<1>12. Counts
      BY <1>0, <1>6 DEF Counts, Init
<1>13. Keeps
      BY <1>4, <1>8 DEF Keeps
<1>14. Total
  <2>1. Owned(Here, table) = Procs \X (0..E - 1)
    <3>1. \A j \in 0..E - 1 : j \in Int
          OBVIOUS
    <3> QED BY <1>4, <1>8, <3>1 DEF Owned
  <2>2. IsFiniteSet(Procs) /\ Cardinality(Procs) = n
    <3>1. 0 \in Int /\ n - 1 \in Int /\ ~(0 > n - 1) /\ (n - 1) - 0 + 1 = n
          BY <1>0
    <3> QED BY <3>1, FS_Interval DEF Procs
  <2>3. IsFiniteSet(0..E - 1) /\ Cardinality(0..E - 1) = E
    <3>1. 0 \in Int /\ E - 1 \in Int /\ ~(0 > E - 1) /\ (E - 1) - 0 + 1 = E
          BY <1>0
    <3> QED BY <3>1, FS_Interval
  <2>4. Cardinality(Procs \X (0..E - 1)) = n * E
        BY <2>2, <2>3, FS_Product
  <2> QED BY <1>0, <1>5, <2>1, <2>4 DEF Total
<1>15. Cover
  <2> SUFFICES ASSUME Student, NEW x \in Frames
               PROVE  In(free, x) \/ \E p \in Procs : \E j \in Loaded(table[p]) : table[p][j] = x
      BY <1>8 DEF Cover, Covered
  <2>0. x \in Nat /\ x < NFRAMES
        BY <1>0 DEF Frames
  <2>1. CASE x < NFRAMES - n * E
    <3>1. x + 1 \in 1..NFRAMES - n * E /\ (x + 1) - 1 = x
          BY <1>0, <1>5, <2>0, <2>1
    <3> QED BY <1>5, <2>1, <3>1 DEF In
  <2>2. CASE ~(x < NFRAMES - n * E)
    <3>1. PICK a \in Nat : a = NFRAMES - 1 - x /\ a < n * E
          BY <1>0, <1>5, <2>0, <2>2
    <3>2. PICK q \in 0..n - 1, r \in 0..E - 1 : a = q * E + r
      <4>1. n \in Nat /\ E \in Nat \ {0} /\ a < n * E
            BY <1>0, <3>1
      <4> QED BY ONLY a \in Nat, <4>1, DividedInto
    <3>3. q \in Procs
          BY <3>2 DEF Procs
    <3>4. table[q][r] = NFRAMES - q * E - r - 1 /\ r \in Loaded(table[q])
          BY <1>4, <3>2, <3>3
    <3>5. q * E \in Nat
          BY <1>3, <3>3
    <3>6. table[q][r] = x
          BY <1>0, <2>0, <3>1, <3>2, <3>4, <3>5
    <3> QED BY <3>3, <3>4, <3>6
  <2> QED BY <2>1, <2>2
<1> QED BY <1>10, <1>11, <1>12, <1>13, <1>14, <1>15 DEF Inv

-----------------------------------------------------------------------------
(* Parts of the steps *)

(* What is known of the process whose search is under way.                 *)
LEMMA Searcher ==
    ASSUME Inv, search # NoSearch
    PROVE  /\ search.pid \in Procs /\ Runs(search.pid) /\ search.pid \in Here
           /\ ~In(ready, search.pid) /\ ~In(swapped, search.pid)
           /\ \A q : Runs(q) <=> q = search.pid
           /\ count[search.pid] \in 0..m - 1
<1>1. search \in [pid : Procs, key : Nat, left : Nat, right : Nat]
      BY DEF Inv, Types, InRange
<1>2. PICK p \in Procs : p = search.pid
      BY <1>1
<1>3. \A q : Runs(q) <=> q = p
      BY <1>2 DEF Runs
<1>4. ~In(ready, p) /\ ~In(swapped, p) /\ count[p] # m
      BY <1>3 DEF Inv, Line
<1>5. count[p] \in 0..m /\ m \in Nat
      BY SearchAssumption DEF Inv, Types, SearchAssumption
<1>6. count[p] \in 0..m - 1
      BY <1>4, <1>5
<1>7. p \in Here
      BY <1>3 DEF Here
<1> QED BY <1>1, <1>2, <1>3, <1>4, <1>6, <1>7

-----------------------------------------------------------------------------
(* The steps *)

LEMMA BeginStep ==
    ASSUME Inv, Begin
    PROVE  Inv'
<1>1. PICK p : p = Head(ready)
      OBVIOUS
<1>2. PICK k : /\ k \in IF keys[p] = {} THEN {i \in Keys : i < size[p]} ELSE keys[p]
               /\ keys' = [keys EXCEPT ![p] = {k}]
               /\ search' = NewSearch(p, k)
      BY <1>1 DEF Begin
<1>3. /\ search = NoSearch /\ ready # <<>> /\ ready' = Tail(ready)
      /\ UNCHANGED <<version, swapped, count, table, free, active, domp, failed>>
      BY DEF Begin
<1>4. Types /\ Line /\ Counts
      BY DEF Inv
<1>5. /\ p \in Procs /\ ready' \in Seq(Procs) /\ Len(ready') = Len(ready) - 1
      /\ Len(ready) \in Nat
      /\ \A x : In(ready, x) <=> (In(ready', x) \/ x = p)
      /\ Distinct(ready) => Distinct(ready') /\ ~In(ready', p)
      BY <1>1, <1>3, <1>4, FromTheFront, LenProperties DEF Types
<1>6. k \in Keys /\ Keys \subseteq Nat /\ size[p] \in Nat \ {0}
  <2>1. keys[p] \in SUBSET Keys
        BY <1>4, <1>5 DEF Types
  <2> QED BY <1>2, <1>5, <2>1, SearchAssumption DEF SearchAssumption
<1>7. InRange' /\ search'.pid = p /\ search' # NoSearch
      BY <1>2, <1>5, <1>6, Begun
<1>8. \A q : (Runs(q)' <=> q = p) /\ ~Runs(q) /\ (In(swapped, q)' <=> In(swapped, q))
             /\ (In(ready, q)' <=> In(ready', q))
      BY <1>3, <1>7 DEF Runs, In
<1>9. Here' = Here
      BY <1>5, <1>8 DEF Here
<1>10. Types'
  <2>1. keys' \in [Procs -> SUBSET Keys]
    <3>1. keys \in [Procs -> SUBSET Keys]
          BY <1>4 DEF Types
    <3> QED BY <1>2, <1>6, <3>1
  <2>2. Tables(table)'
        BY <1>3, <1>4 DEF Types, Tables
  <2>3. swapped' \in Seq(Procs) /\ count' \in [Procs -> 0..m] /\ free' \in Seq(Frames)
        /\ failed' = FALSE /\ version' \in {"student", "solution"}
        BY <1>3, <1>4 DEF Types
  <2> QED BY <1>5, <1>7, <2>1, <2>2, <2>3 DEF Types
<1>11. Line'
  <2>1. Distinct(ready') /\ Distinct(swapped') /\ ~In(ready', p)
        BY <1>3, <1>4, <1>5 DEF Line
  <2>2. \A q \in Procs : In(ready', q) => ~In(swapped', q) /\ ~Runs(q)'
        BY <1>3, <1>4, <1>5, <1>8, <2>1 DEF Line
  <2>3. \A q \in Procs : In(swapped', q) => ~Runs(q)'
        BY <1>3, <1>4, <1>5, <1>8 DEF Line
  <2>4. \A q \in Procs : count'[q] = m <=> ~In(ready', q) /\ ~In(swapped', q) /\ ~Runs(q)'
        BY <1>3, <1>4, <1>5, <1>8, <2>1 DEF Line
  <2> QED BY <2>1, <2>2, <2>3, <2>4 DEF Line
<1>12. Counts'
      BY <1>3, <1>4, <1>5, <1>7 DEF Counts
<1>13. Keeps' /\ Total' /\ Cover'
  <2>1. Keeps' /\ Total'
        BY <1>3, <1>9 DEF Inv, Keeps, Total
  <2>2. Cover'
        BY <1>3, <1>9 DEF Inv, Cover, Covered, Student, In
  <2> QED BY <2>1, <2>2
<1> QED BY <1>10, <1>11, <1>12, <1>13 DEF Inv

(* A search goes on: everybody stays where he is.                          *)
LEMMA StaysPut ==
    ASSUME Inv, Searching, search' = Narrow(search), UNCHANGED <<ready, swapped>>
    PROVE  /\ InRange' /\ search' # NoSearch /\ search'.pid = search.pid
           /\ Here' = Here
           /\ \A q : Runs(q)' <=> Runs(q)
           /\ Page \in Pages(search.pid)
<1>1. InRange /\ search # NoSearch /\ ~Found(search)
      BY DEF Inv, Types, Searching
<1>2. /\ InRange' /\ search' # NoSearch /\ search'.pid = search.pid
      /\ \A q : Runs(q)' <=> Runs(q)
      /\ Page \in Pages(search.pid)
      BY <1>1, GoesOn
<1>3. Here' = Here
      BY <1>2 DEF Here, In
<1> QED BY <1>2, <1>3

LEMMA LineKept ==
    ASSUME Inv, UNCHANGED <<ready, swapped, count>>, \A q : Runs(q)' <=> Runs(q)
    PROVE  Line'
    BY DEF Inv, Line, Distinct, In

LEMMA HitStep ==
    ASSUME Inv, Hit
    PROVE  Inv'
<1>1. /\ Searching /\ search' = Narrow(search)
      /\ UNCHANGED <<version, ready, swapped, count, keys, table, free, active, domp, failed>>
      BY DEF Hit
<1>2. /\ InRange' /\ search' # NoSearch /\ search'.pid = search.pid
      /\ Here' = Here /\ \A q : Runs(q)' <=> Runs(q)
      BY <1>1, StaysPut
<1>3. Types'
  <2>1. Tables(table)'
        BY <1>1 DEF Inv, Types, Tables
  <2> QED BY <1>1, <1>2, <2>1 DEF Inv, Types
<1>4. Line'
      BY <1>1, <1>2, LineKept
<1>5. Counts'
      BY <1>1, <1>2 DEF Inv, Counts, Searching
<1>6. Keeps' /\ Total'
      BY <1>1, <1>2 DEF Inv, Keeps, Total
<1>7. Cover'
      BY <1>1, <1>2 DEF Inv, Cover, Covered, Student, In
<1> QED BY <1>3, <1>4, <1>5, <1>6, <1>7 DEF Inv

LEMMA LoadPageStep ==
    ASSUME Inv, LoadPage
    PROVE  Inv'
<1>0. PICK p : p = search.pid
      OBVIOUS
<1>1. /\ Searching /\ search' = Narrow(search) /\ search # NoSearch
      /\ table[p][Page] = NoFrame /\ free # <<>>
      /\ table' = [table EXCEPT ![p][Page] = NextFree]
      /\ free' = Without(free, 1)
      /\ UNCHANGED <<version, ready, swapped, count, keys, active, domp, failed>>
      BY <1>0 DEF LoadPage, Faults, Searching
<1>2. /\ InRange' /\ search' # NoSearch /\ search'.pid = search.pid
      /\ Here' = Here /\ \A q : Runs(q)' <=> Runs(q)
      /\ Page \in Pages(p)
      BY <1>0, <1>1, StaysPut
<1>3. p \in Procs /\ p \in Here
      BY <1>0, <1>1, Searcher
<1>4. Page \in Pages(p)
      BY <1>2
<1>5. Tables(table) /\ free \in Seq(Frames) /\ Here \in SUBSET Procs
      BY DEF Inv, Types, Here
<1>6. PICK c \in Nat : c = Len(free) /\ c >= 1
  <2>1. Len(free) \in Nat /\ Len(free) # 0
        BY <1>1, <1>5, EmptySeq, LenProperties
  <2> QED BY <2>1
<1>7. /\ free' \in Seq(Frames) /\ Len(free') = c - 1
      /\ Student => \A i \in 1..c - 1 : free'[i] = free[i]
      BY <1>1, <1>5, <1>6, FramesTaken
<1>8. NextFree \in Frames /\ (Student => NextFree = free[c])
  <2>1. 1 \in 1..c /\ c \in 1..c
        BY <1>6
  <2>2. \A i \in 1..c : free[i] \in Frames
        BY <1>5, <1>6, ElementOfSeq
  <2>3. Head(free) = free[1]
        BY <1>1, <1>5, HeadTailProperties
  <2> QED BY <1>6, <2>1, <2>2, <2>3 DEF NextFree, Last
<1>9. PICK j \in Pages(p), f \in Frames :
        /\ j = Page /\ f = NextFree /\ table[p][j] = NoFrame
        /\ table' = [table EXCEPT ![p] = [@ EXCEPT ![j] = f]]
      BY <1>1, <1>4, <1>8
<1>10. Tables(table') /\ Tables(table)'
  <2>1. \A q \in Procs : q # p => table'[q] = table[q]
        BY <1>5, <1>9 DEF Tables
  <2>2. table'[p] \in [Pages(p) -> Frames \cup {NoFrame}]
    <3>1. table[p] \in [Pages(p) -> Frames \cup {NoFrame}] /\ table'[p] = [table[p] EXCEPT ![j] = f]
          BY <1>3, <1>5, <1>9 DEF Tables
    <3> QED BY <1>9, <3>1
  <2>3. DOMAIN table' = Procs
        BY <1>5, <1>9 DEF Tables
  <2> QED BY <1>5, <2>1, <2>2, <2>3 DEF Tables
<1>11. Types'
      BY <1>1, <1>2, <1>7, <1>10 DEF Inv, Types
<1>12. Line'
      BY <1>1, <1>2, LineKept
<1>13. Counts'
      BY <1>1, <1>2 DEF Inv, Counts, Searching
<1>14. \A q \in Procs : \A i \in Loaded(table[q]) :
          i \in Loaded(table'[q]) /\ table'[q][i] = table[q][i]
  <2> SUFFICES ASSUME NEW q \in Procs, NEW i \in Loaded(table[q])
               PROVE  i \in Loaded(table'[q]) /\ table'[q][i] = table[q][i]
      OBVIOUS
  <2>1. i \in Pages(q) /\ table[q][i] # NoFrame
        BY <1>5, LoadedFinite
  <2>2. table'[q][i] = table[q][i]
        BY <1>5, <1>9, <2>1 DEF Tables
  <2> QED BY <1>10, <2>1, <2>2, LoadedFinite
<1>15. Keeps'
  <2> SUFFICES ASSUME NEW q \in Here PROVE 0..Essential - 1 \subseteq Loaded(table'[q])
      BY <1>2 DEF Keeps
  <2>1. 0..Essential - 1 \subseteq Loaded(table[q])
        BY DEF Inv, Keeps
  <2> QED BY <1>5, <1>14, <2>1
<1>16. Total'
  <2>1. Cardinality(Owned(Here, table')) = Cardinality(Owned(Here, table)) + 1
    <3>1. /\ \A q \in Procs : q # p => table'[q] = table[q]
          /\ table'[p] = [table[p] EXCEPT ![j] = f] /\ p \in Procs
          BY <1>3, <1>5, <1>9 DEF Tables
    <3>2. table'[p][j] = f /\ \A i \in Pages(p) : i # j => table'[p][i] = table[p][i]
          BY <1>5, <3>1 DEF Tables
    <3>3. f # NoFrame
          BY DEF Frames, NoFrame
    <3>4. p \in Here
          BY <1>3
    <3>5. table[p][j] = NoFrame /\ Tables(table) /\ Tables(table') /\ Here \in SUBSET Procs
          BY <1>5, <1>9, <1>10
    <3>6. table'[p][j] # NoFrame /\ \A q \in Procs : q # p => table'[q] = table[q]
          BY <3>1, <3>2, <3>3
    <3> QED BY <3>2, <3>4, <3>5, <3>6, OwnedLoad
  <2>2. Cardinality(Owned(Here, table)) \in Nat
        BY <1>5, OwnedFinite
  <2>3. Cardinality(Owned(Here, table)) + c = NFRAMES
        BY <1>6 DEF Inv, Total
  <2> QED BY <1>2, <1>7, <2>1, <2>2, <2>3 DEF Total
<1>17. Cover'
  <2>1. Student' <=> Student
        BY <1>1 DEF Student
  <2> SUFFICES ASSUME Student, NEW x \in Frames
               PROVE  In(free', x) \/ \E q \in Here : \E i \in Loaded(table'[q]) : table'[q][i] = x
      BY <1>2, <2>1 DEF Cover, Covered
  <2>2. In(free, x) \/ \E q \in Here : \E i \in Loaded(table[q]) : table[q][i] = x
        BY DEF Inv, Cover, Covered
  <2>3. CASE In(free, x)
    <3>1. PICK i \in 1..c : free[i] = x
          BY <1>6, <2>3 DEF In
    <3>2. CASE i \in 1..c - 1
          BY <1>7, <3>1, <3>2 DEF In
    <3>3. CASE i = c
      <4>1. table'[p][j] = x /\ j \in Loaded(table'[p])
        <5>1. f = x
              BY <1>8, <1>9, <3>1, <3>3
        <5>2. table'[p][j] = f
              BY <1>3, <1>5, <1>9 DEF Tables
        <5>3. f # NoFrame
              BY <1>9 DEF Frames, NoFrame
        <5>4. p \in Procs
              BY <1>3
        <5>5. Loaded(table'[p]) = {i2 \in Pages(p) : table'[p][i2] # NoFrame}
              BY <1>10, <5>4, LoadedFinite
        <5> QED BY <1>9, <5>1, <5>2, <5>3, <5>5
      <4> QED BY <1>3, <4>1
    <3> QED BY <1>6, <3>2, <3>3
  <2>4. CASE \E q \in Here : \E i \in Loaded(table[q]) : table[q][i] = x
        BY <1>5, <1>14, <2>4
  <2> QED BY <2>2, <2>3, <2>4
<1> QED BY <1>11, <1>12, <1>13, <1>15, <1>16, <1>17 DEF Inv

(* What a process keeps that gives its frames back, and all that remain.   *)
LEMMA GivesBack ==
    ASSUME Inv, NEW p \in Here, NEW z, z = AfterRelease(p)
    PROVE  /\ Tables(z) /\ \A q \in Procs : q # p => z[q] = table[q]
           /\ Owned(Here \ {p}, z) = Owned(Here \ {p}, table)
           /\ Released(p) \in Seq(Frames) /\ Len(Released(p)) >= Essential
           /\ Len(Released(p)) \in Nat
           /\ Cardinality(Owned(Here \ {p}, table)) + Len(Released(p)) + Len(free) = NFRAMES
           /\ Student => Covered(Here \ {p}, z, free \o Released(p))
<1>1. Tables(table) /\ free \in Seq(Frames) /\ Here \in SUBSET Procs /\ p \in Procs
      BY DEF Inv, Types, Here
<1>2. \A q \in Procs : q # p => z[q] = table[q]
      BY <1>1 DEF AfterRelease, Tables
<1>3. Tables(z)
  <2>1. NoTable(p) \in [Pages(p) -> Frames \cup {NoFrame}]
        BY DEF NoTable
  <2>2. DOMAIN z = Procs /\ (z[p] = NoTable(p) \/ z[p] = table[p])
        BY <1>1 DEF AfterRelease, Tables
  <2> QED BY <1>1, <1>2, <2>1, <2>2 DEF Tables
<1>4. Owned(Here \ {p}, z) = Owned(Here \ {p}, table)
  <2>1. \A q \in Here \ {p} : z[q] = table[q]
        BY <1>1, <1>2
  <2> QED BY <2>1, OwnedSame
<1>5. /\ Released(p) \in Seq(Frames)
      /\ Len(Released(p)) = Cardinality(Loaded(table[p])) /\ Len(Released(p)) \in Nat
      /\ Student => \A j \in Loaded(table[p]) : In(Released(p), table[p][j])
      BY <1>1, FramesReleased, LenProperties
<1>6. Len(Released(p)) >= Essential
  <2>1. 0..Essential - 1 \subseteq Loaded(table[p]) /\ IsFiniteSet(Loaded(table[p]))
        BY <1>1, LoadedFinite DEF Inv, Keeps
  <2>2. Cardinality(0..Essential - 1) <= Cardinality(Loaded(table[p]))
    <3>1. 0..Essential - 1 \in SUBSET Loaded(table[p])
          BY <2>1
    <3> QED BY <2>1, <3>1, FS_Subset
  <2>3. Cardinality(0..Essential - 1) = Essential /\ Essential \in Nat
    <3>1. 0 \in Int /\ Essential - 1 \in Int /\ ~(0 > Essential - 1)
          /\ (Essential - 1) - 0 + 1 = Essential /\ Essential \in Nat
          BY SearchAssumption DEF SearchAssumption
    <3> QED BY <3>1, FS_Interval
  <2> QED BY <1>5, <2>2, <2>3
<1>7. Cardinality(Owned(Here \ {p}, table)) + Len(Released(p)) + Len(free) = NFRAMES
  <2>1. Cardinality(Owned(Here, table))
          = Cardinality(Owned(Here \ {p}, table)) + Cardinality(Loaded(table[p]))
        BY <1>1, OwnedLeave
  <2>2. Cardinality(Owned(Here, table)) + Len(free) = NFRAMES
        BY DEF Inv, Total
  <2>3. Len(free) \in Nat /\ Cardinality(Owned(Here \ {p}, table)) \in Nat
        BY <1>1, OwnedFinite, LenProperties
  <2> QED BY <1>5, <2>1, <2>2, <2>3
<1>8. ASSUME Student PROVE Covered(Here \ {p}, z, free \o Released(p))
  <2> SUFFICES ASSUME NEW x \in Frames
               PROVE  \/ In(free \o Released(p), x)
                      \/ \E q \in Here \ {p} : \E i \in Loaded(z[q]) : z[q][i] = x
      BY DEF Covered
  <2>1. In(free, x) \/ \E q \in Here : \E i \in Loaded(table[q]) : table[q][i] = x
        BY <1>8 DEF Inv, Cover, Covered
  <2>2. In(free, x) \/ In(Released(p), x) => In(free \o Released(p), x)
        BY <1>1, <1>5, Joined
  <2>3. CASE In(free, x)
        BY <2>2, <2>3
  <2>4. ASSUME NEW q \in Here, NEW i \in Loaded(table[q]), table[q][i] = x
        PROVE  \/ In(free \o Released(p), x)
               \/ \E r \in Here \ {p} : \E k \in Loaded(z[r]) : z[r][k] = x
    <3>1. CASE q = p
          BY <1>5, <1>8, <2>2, <2>4, <3>1
    <3>2. CASE q # p
          BY <1>1, <1>2, <2>4, <3>2
    <3> QED BY <3>1, <3>2
  <2> QED BY <2>1, <2>3, <2>4
<1> QED BY <1>2, <1>3, <1>4, <1>5, <1>6, <1>7, <1>8

LEMMA SwapOutStep ==
    ASSUME Inv, SwapOut
    PROVE  Inv'
<1>1. PICK p : p = search.pid
      OBVIOUS
<1>2. /\ search # NoSearch /\ free = <<>>
      /\ free' = Released(p) /\ table' = AfterRelease(p) /\ swapped' = Append(swapped, p)
      /\ search' = NoSearch /\ active' = active - 1
      /\ domp' = IF active' < domp THEN active' ELSE domp
      /\ UNCHANGED <<version, ready, count, keys, failed>>
      BY <1>1 DEF SwapOut, Faults, Searching
<1>3. /\ p \in Procs /\ p \in Here /\ ~In(ready, p) /\ ~In(swapped, p)
      /\ \A q : Runs(q) <=> q = p
      /\ count[p] \in 0..m - 1
      BY <1>1, <1>2, Searcher
<1>4. Types /\ Line /\ Counts
      BY DEF Inv
<1>5. /\ Tables(table') /\ \A q \in Procs : q # p => table'[q] = table[q]
      /\ Owned(Here \ {p}, table') = Owned(Here \ {p}, table)
      /\ Released(p) \in Seq(Frames) /\ Len(Released(p)) \in Nat
      /\ Cardinality(Owned(Here \ {p}, table)) + Len(Released(p)) + Len(free) = NFRAMES
      /\ Student => Covered(Here \ {p}, table', free \o Released(p))
      BY <1>2, <1>3, GivesBack
<1>6. /\ swapped' \in Seq(Procs)
      /\ \A x : In(swapped', x) <=> (In(swapped, x) \/ x = p)
      /\ Distinct(swapped')
      BY <1>2, <1>3, <1>4, AtTheEnd DEF Types, Line
<1>7. /\ \A q : ~Runs(q)'
      /\ Here' = Here \ {p}
  <2>1. \A q : ~Runs(q)'
        BY <1>2 DEF Runs
  <2> QED BY <1>2, <1>3, <2>1 DEF Here, In
<1>8. Types'
  <2>1. Tables(table)'
        BY <1>5 DEF Tables
  <2> QED BY <1>2, <1>4, <1>5, <1>6, <2>1 DEF Types, InRange
<1>9. Line'
  <2>1. Distinct(ready')
        BY <1>2, <1>4 DEF Line
  <2>2. \A q \in Procs : In(ready', q) <=> In(ready, q)
        BY <1>2
  <2>3. \A q \in Procs : In(ready', q) => ~In(swapped', q)
        BY <1>3, <1>4, <1>6, <2>2 DEF Line
  <2>4. \A q \in Procs : count'[q] = m <=> ~In(ready', q) /\ ~In(swapped', q) /\ ~Runs(q)'
    <3> SUFFICES ASSUME NEW q \in Procs
                 PROVE  count[q] = m <=> ~In(ready, q) /\ ~In(swapped', q)
        BY <1>2, <1>7, <2>2
    <3>1. CASE q = p
      <4>1. count[p] # m
            BY <1>3, SearchAssumption DEF SearchAssumption
      <4> QED BY <1>6, <3>1, <4>1
    <3>2. CASE q # p
          BY <1>3, <1>4, <1>6, <3>2 DEF Line
    <3> QED BY <3>1, <3>2
  <2> QED BY <1>6, <1>7, <2>1, <2>3, <2>4 DEF Line
<1>10. Counts'
  <2>1. PICK r \in Nat : r = Len(ready)
        BY <1>4, LenProperties DEF Types
  <2>2. active = r + 1 /\ active' = r /\ active' \in 0..n
    <3>1. n \in Nat
          BY SearchAssumption DEF SearchAssumption
    <3> QED BY <1>2, <1>4, <2>1, <3>1 DEF Counts
  <2>3. domp' \in 0..n
        BY <1>2, <1>4, <2>2 DEF Counts
  <2> QED BY <1>2, <2>1, <2>2, <2>3 DEF Counts
<1>11. Keeps'
  <2>1. \A q \in Here \ {p} : 0..Essential - 1 \subseteq Loaded(table'[q])
        BY <1>5 DEF Inv, Keeps, Here
  <2> QED BY <1>7, <2>1 DEF Keeps
<1>12. Total'
  <2>1. Len(free) = 0
        BY <1>2
  <2>2. Cardinality(Owned(Here \ {p}, table)) \in Nat
        BY <1>4, OwnedFinite DEF Types, Here
  <2> QED BY <1>2, <1>5, <1>7, <2>1, <2>2 DEF Total
<1>13. Cover'
  <2>1. free \o Released(p) = Released(p)
        BY <1>2, <1>5
  <2>2. Student' <=> Student
        BY <1>2 DEF Student
  <2>3. Student => Covered(Here', table', free')
        BY <1>2, <1>5, <1>7, <2>1
  <2> QED BY <2>2, <2>3 DEF Cover, Covered, In
<1> QED BY <1>8, <1>9, <1>10, <1>11, <1>12, <1>13 DEF Inv

(* A search that has found its key: its process is nowhere until it is put *)
(* into the queue again, or has ended.                                     *)
LEMMA Completes ==
    ASSUME Inv, NEW p \in Procs, Complete(p)
    PROVE  /\ search # NoSearch /\ p = search.pid
           /\ p \in Here /\ ~In(ready, p) /\ ~In(swapped, p)
           /\ \A q : (Runs(q) <=> q = p) /\ ~Runs(q)'
           /\ search' = NoSearch /\ version' = version /\ domp' = domp
           /\ count' \in [Procs -> 0..m] /\ count[p] # m
           /\ \A q \in Procs : q # p => count'[q] = count[q]
           /\ keys' \in [Procs -> SUBSET Keys]
<1>1. /\ search # NoSearch /\ p = search.pid
      /\ count' = [count EXCEPT ![p] = @ + 1]
      /\ keys' = [keys EXCEPT ![p] = {}]
      /\ search' = NoSearch /\ version' = version /\ domp' = domp
      BY DEF Complete
<1>2. /\ p \in Here /\ ~In(ready, p) /\ ~In(swapped, p)
      /\ \A q : Runs(q) <=> q = p
      /\ count[p] \in 0..m - 1
      BY <1>1, Searcher
<1>3. count \in [Procs -> 0..m] /\ keys \in [Procs -> SUBSET Keys]
      BY DEF Inv, Types
<1>4. m \in Nat
      BY SearchAssumption DEF SearchAssumption
<1>5. count' \in [Procs -> 0..m] /\ count[p] # m
      BY <1>1, <1>2, <1>3, <1>4
<1>6. \A q \in Procs : q # p => count'[q] = count[q]
      BY <1>1, <1>3
<1>7. keys' \in [Procs -> SUBSET Keys]
      BY <1>1, <1>3
<1>8. \A q : ~Runs(q)'
      BY <1>1 DEF Runs
<1> QED BY <1>1, <1>2, <1>5, <1>6, <1>7, <1>8

LEMMA FinishSearchStep ==
    ASSUME Inv, NEW p \in Procs, FinishSearch(p)
    PROVE  Inv'
<1>1. /\ Complete(p) /\ count'[p] < m /\ ready' = Append(ready, p)
      /\ UNCHANGED <<swapped, table, free, active, failed>>
      BY DEF FinishSearch
<1>2. /\ search # NoSearch /\ p = search.pid
      /\ p \in Here /\ ~In(ready, p) /\ ~In(swapped, p)
      /\ \A q : (Runs(q) <=> q = p) /\ ~Runs(q)'
      /\ search' = NoSearch /\ version' = version /\ domp' = domp
      /\ count' \in [Procs -> 0..m] /\ count[p] # m
      /\ \A q \in Procs : q # p => count'[q] = count[q]
      /\ keys' \in [Procs -> SUBSET Keys]
      BY <1>1, Completes
<1>3. Types /\ Line /\ Counts
      BY DEF Inv
<1>4. /\ ready' \in Seq(Procs) /\ Len(ready') = Len(ready) + 1
      /\ \A x : In(ready', x) <=> (In(ready, x) \/ x = p)
      /\ Distinct(ready')
      BY <1>1, <1>2, <1>3, AtTheEnd DEF Types, Line
<1>5. Here' = Here
      BY <1>2, <1>4 DEF Here, In
<1>6. Types'
  <2>1. Tables(table)'
        BY <1>1, <1>3 DEF Types, Tables
  <2> QED BY <1>1, <1>2, <1>3, <1>4, <2>1 DEF Types, InRange
<1>7. Line'
  <2>1. Distinct(swapped') /\ \A q \in Procs : In(swapped', q) <=> In(swapped, q)
        BY <1>1, <1>3 DEF Line
  <2>2. \A q \in Procs : In(ready', q) => ~In(swapped', q)
        BY <1>2, <1>3, <1>4, <2>1 DEF Line
  <2>3. \A q \in Procs : count'[q] = m <=> ~In(ready', q) /\ ~In(swapped', q) /\ ~Runs(q)'
    <3> SUFFICES ASSUME NEW q \in Procs
                 PROVE  count'[q] = m <=> ~In(ready', q) /\ ~In(swapped, q)
        BY <1>2, <2>1
    <3>1. CASE q = p
      <4>1. count'[p] # m
        <5>1. count'[p] \in Int /\ m \in Int
              BY <1>2, SearchAssumption DEF SearchAssumption
        <5> QED BY <1>1, <5>1
      <4> QED BY <1>4, <3>1, <4>1
    <3>2. CASE q # p
          BY <1>2, <1>3, <1>4, <3>2 DEF Line
    <3> QED BY <3>1, <3>2
  <2> QED BY <1>2, <1>4, <2>1, <2>2, <2>3 DEF Line
<1>8. Counts'
      BY <1>1, <1>2, <1>3, <1>4, LenProperties DEF Counts, Types
<1>9. Keeps' /\ Total'
      BY <1>1, <1>5 DEF Inv, Keeps, Total
<1>10. Cover'
      BY <1>1, <1>2, <1>5 DEF Inv, Cover, Covered, Student, In
<1> QED BY <1>6, <1>7, <1>8, <1>9, <1>10 DEF Inv

LEMMA FinishLastStep ==
    ASSUME Inv, NEW p \in Procs, FinishLast(p)
    PROVE  Inv'
<1>1. /\ Complete(p) /\ count'[p] = m /\ swapped = <<>>
      /\ free' = free \o Released(p) /\ table' = AfterRelease(p)
      /\ active' = active - 1
      /\ UNCHANGED <<ready, swapped, failed>>
      BY DEF FinishLast
<1>2. /\ search # NoSearch /\ p = search.pid
      /\ p \in Here /\ ~In(ready, p) /\ ~In(swapped, p)
      /\ \A q : (Runs(q) <=> q = p) /\ ~Runs(q)'
      /\ search' = NoSearch /\ version' = version /\ domp' = domp
      /\ count' \in [Procs -> 0..m] /\ count[p] # m
      /\ \A q \in Procs : q # p => count'[q] = count[q]
      /\ keys' \in [Procs -> SUBSET Keys]
      BY <1>1, Completes
<1>3. Types /\ Line /\ Counts
      BY DEF Inv
<1>4. /\ Tables(table') /\ \A q \in Procs : q # p => table'[q] = table[q]
      /\ Owned(Here \ {p}, table') = Owned(Here \ {p}, table)
      /\ Released(p) \in Seq(Frames) /\ Len(Released(p)) \in Nat
      /\ Cardinality(Owned(Here \ {p}, table)) + Len(Released(p)) + Len(free) = NFRAMES
      /\ Student => Covered(Here \ {p}, table', free \o Released(p))
      BY <1>1, <1>2, GivesBack
<1>5. free' \in Seq(Frames) /\ Len(free') = Len(free) + Len(Released(p)) /\ Len(free) \in Nat
      BY <1>1, <1>3, <1>4, Joined, LenProperties DEF Types
<1>6. Here' = Here \ {p}
      BY <1>1, <1>2 DEF Here, In
<1>7. Types'
  <2>1. Tables(table)'
        BY <1>4 DEF Tables
  <2> QED BY <1>1, <1>2, <1>3, <1>5, <2>1 DEF Types, InRange
<1>8. Line'
  <2>1. /\ Distinct(swapped') /\ Distinct(ready')
        /\ \A q \in Procs : (In(swapped', q) <=> In(swapped, q)) /\ (In(ready', q) <=> In(ready, q))
        BY <1>1, <1>3 DEF Line
  <2>2. \A q \in Procs : In(ready', q) => ~In(swapped', q)
        BY <1>3, <2>1 DEF Line
  <2>3. \A q \in Procs : count'[q] = m <=> ~In(ready', q) /\ ~In(swapped', q) /\ ~Runs(q)'
    <3> SUFFICES ASSUME NEW q \in Procs
                 PROVE  count'[q] = m <=> ~In(ready, q) /\ ~In(swapped, q)
        BY <1>2, <2>1
    <3>1. CASE q = p
          BY <1>1, <1>2, <3>1
    <3>2. CASE q # p
          BY <1>2, <1>3, <3>2 DEF Line
    <3> QED BY <3>1, <3>2
  <2> QED BY <1>2, <2>1, <2>2, <2>3 DEF Line
<1>9. Counts'
  <2>1. PICK r \in Nat : r = Len(ready)
        BY <1>3, LenProperties DEF Types
  <2>2. active = r + 1 /\ active' = r /\ active' \in 0..n
    <3>1. n \in Nat
          BY SearchAssumption DEF SearchAssumption
    <3> QED BY <1>1, <1>2, <1>3, <2>1, <3>1 DEF Counts
  <2> QED BY <1>1, <1>2, <1>3, <2>1, <2>2 DEF Counts
<1>10. Keeps'
  <2>1. \A q \in Here \ {p} : 0..Essential - 1 \subseteq Loaded(table'[q])
        BY <1>4 DEF Inv, Keeps, Here
  <2> QED BY <1>6, <2>1 DEF Keeps
<1>11. Total'
  <2>1. Cardinality(Owned(Here \ {p}, table)) \in Nat
        BY <1>3, OwnedFinite DEF Types, Here
  <2> QED BY <1>4, <1>5, <1>6, <2>1 DEF Total
<1>12. Cover'
  <2>1. Student' <=> Student
        BY <1>2 DEF Student
  <2>2. Student => Covered(Here', table', free')
        BY <1>1, <1>4, <1>6
  <2> QED BY <2>1, <2>2 DEF Cover, Covered, In
<1> QED BY <1>7, <1>8, <1>9, <1>10, <1>11, <1>12 DEF Inv

LEMMA FinishSwapInStep ==
    ASSUME Inv, NEW p \in Procs, FinishSwapIn(p)
    PROVE  Inv'
<1> DEFINE f == free \o Released(p)
<1>1. PICK w, z : w = Head(swapped) /\ z = AfterRelease(p)
      OBVIOUS
<1>2. /\ search # NoSearch /\ p = search.pid
      /\ p \in Here /\ ~In(ready, p) /\ ~In(swapped, p)
      /\ \A q : (Runs(q) <=> q = p) /\ ~Runs(q)'
      /\ search' = NoSearch /\ version' = version /\ domp' = domp
      /\ count' \in [Procs -> 0..m] /\ count[p] # m
      /\ \A q \in Procs : q # p => count'[q] = count[q]
      /\ keys' \in [Procs -> SUBSET Keys]
  <2>1. Complete(p)
        BY DEF FinishSwapIn
  <2> QED BY <2>1, Completes
<1>3. Types /\ Line /\ Counts
      BY DEF Inv
<1>4. /\ Tables(z) /\ \A q \in Procs : q # p => z[q] = table[q]
      /\ Owned(Here \ {p}, z) = Owned(Here \ {p}, table)
      /\ Released(p) \in Seq(Frames) /\ Len(Released(p)) \in Nat
      /\ Len(Released(p)) >= Essential
      /\ Cardinality(Owned(Here \ {p}, table)) + Len(Released(p)) + Len(free) = NFRAMES
      /\ Student => Covered(Here \ {p}, z, f)
  <2>1. Inv /\ p \in Here /\ z = AfterRelease(p)
        BY <1>1, <1>2
  <2> QED BY ONLY <2>1, GivesBack DEF f
<1>5. /\ f \in Seq(Frames) /\ Len(f) = Len(free) + Len(Released(p)) /\ Len(free) \in Nat
      /\ Len(f) >= Essential
  <2>1. f \in Seq(Frames) /\ Len(f) = Len(free) + Len(Released(p)) /\ Len(free) \in Nat
        BY <1>3, <1>4, Joined, LenProperties DEF Types
  <2>2. Essential \in Nat
        BY SearchAssumption DEF SearchAssumption
  <2> QED BY <1>4, <2>1, <2>2
(* There are frames for the essential pages.                               *)
<1>6. /\ swapped # <<>> /\ swapped' = Tail(swapped)
      /\ count'[p] = m
      /\ table' = [z EXCEPT ![w] = EssentialPages(w, f)]
      /\ free' = Without(f, Essential)
      /\ ready' = <<w>> \o ready /\ active' = active /\ failed' = failed
  <2>1. ~(Len(f) < Essential)
    <3>1. PICK a, b : a = Len(f) /\ b = Essential /\ a \in Nat /\ b \in Nat /\ a >= b
          BY <1>5, SearchAssumption, LenProperties DEF SearchAssumption
    <3> QED BY <3>1
  <2> HIDE DEF f
  <2>2. /\ swapped # <<>> /\ swapped' = Tail(swapped) /\ count'[p] = m
        /\ IF Len(f) < Essential
           THEN failed' = TRUE /\ UNCHANGED <<ready, table, free, active>>
           ELSE /\ table' = [z EXCEPT ![w] = EssentialPages(w, f)]
                /\ free' = Without(f, Essential)
                /\ ready' = <<w>> \o ready
                /\ active' = active /\ failed' = failed
        BY <1>1 DEF FinishSwapIn, f
  <2> QED BY <2>1, <2>2
<1> HIDE DEF f
<1>7. /\ w \in Procs /\ swapped' \in Seq(Procs)
      /\ \A x : In(swapped, x) <=> (In(swapped', x) \/ x = w)
      /\ Distinct(swapped') /\ ~In(swapped', w)
      BY <1>1, <1>3, <1>6, FromTheFront DEF Types, Line
<1>8. ~In(ready, w) /\ w # p /\ w \notin Here
      BY <1>2, <1>3, <1>7 DEF Line, Here
<1>9. /\ ready' \in Seq(Procs) /\ Len(ready') = Len(ready) + 1
      /\ \A x : In(ready', x) <=> (In(ready, x) \/ x = w)
      /\ Distinct(ready')
      BY <1>3, <1>6, <1>7, <1>8, AtTheFront DEF Types, Line
<1>10. Here' = (Here \ {p}) \cup {w}
  <2>1. Here' = {q \in Procs : In(ready', q) \/ Runs(q)'}
        BY DEF Here, In
  <2> QED BY <1>2, <1>7, <1>9, <2>1 DEF Here
<1>11. /\ EssentialPages(w, f) \in [Pages(w) -> Frames \cup {NoFrame}]
       /\ Loaded(EssentialPages(w, f)) = 0..Essential - 1
       /\ Cardinality(Loaded(EssentialPages(w, f))) = Essential
       /\ Student => \A j \in 0..Essential - 1 : EssentialPages(w, f)[j] = f[Len(f) - j]
      BY <1>5, <1>7, EssentialsLoaded
<1>12. /\ free' \in Seq(Frames) /\ Len(free') = Len(f) - Essential
       /\ Student => \A i \in 1..Len(f) - Essential : free'[i] = f[i]
  <2>1. PICK k \in Nat : k = Essential /\ k <= Len(f)
    <3>1. PICK a, b : a = Len(f) /\ b = Essential /\ a \in Nat /\ b \in Nat /\ a >= b
          BY <1>5, SearchAssumption, LenProperties DEF SearchAssumption
    <3>2. b <= a
          BY <3>1
    <3> QED BY <3>1, <3>2
  <2> QED BY <1>5, <1>6, <2>1, FramesTaken
<1>13. /\ table'[w] = EssentialPages(w, f)
       /\ \A q \in Procs : q # w => table'[q] = z[q]
       /\ Tables(table')
  <2>1. table'[w] = EssentialPages(w, f) /\ DOMAIN table' = Procs
        BY <1>4, <1>6, <1>7 DEF Tables
  <2>2. \A q \in Procs : q # w => table'[q] = z[q]
        BY <1>4, <1>6 DEF Tables
  <2> QED BY <1>4, <1>11, <2>1, <2>2 DEF Tables
<1>14. Types'
  <2>1. Tables(table)'
        BY <1>13 DEF Tables
  <2>2. failed' = FALSE /\ version' \in {"student", "solution"}
        BY <1>2, <1>3, <1>6 DEF Types
  <2> QED BY <1>2, <1>7, <1>9, <1>12, <2>1, <2>2 DEF Types, InRange
<1>15. Line'
  <2>1. \A q \in Procs : In(ready', q) => ~In(swapped', q)
        BY <1>3, <1>7, <1>9 DEF Line
  <2>2. \A q \in Procs : count'[q] = m <=> ~In(ready', q) /\ ~In(swapped', q) /\ ~Runs(q)'
    <3> SUFFICES ASSUME NEW q \in Procs
                 PROVE  count'[q] = m <=> ~In(ready', q) /\ ~In(swapped', q)
        BY <1>2
    <3>1. CASE q = p
          BY <1>2, <1>6, <1>7, <1>8, <1>9, <3>1
    <3>2. CASE q # p
          BY <1>2, <1>3, <1>7, <1>9, <3>2 DEF Line
    <3> QED BY <3>1, <3>2
  <2> QED BY <1>2, <1>7, <1>9, <2>1, <2>2 DEF Line
<1>16. Counts'
      BY <1>2, <1>3, <1>6, <1>9, LenProperties DEF Counts, Types
<1>17. Keeps'
  <2>1. \A q \in Here \ {p} : q # w /\ q # p /\ q \in Procs
        BY <1>8 DEF Here
  <2>2. \A q \in Here \ {p} : 0..Essential - 1 \subseteq Loaded(table'[q])
        BY <1>4, <1>13, <2>1 DEF Inv, Keeps
  <2>3. 0..Essential - 1 \subseteq Loaded(table'[w])
        BY <1>11, <1>13
  <2> QED BY <1>10, <2>2, <2>3 DEF Keeps
<1>18. Total'
  <2> DEFINE O == Owned(Here \ {p}, table')
  <2>1. O = Owned(Here \ {p}, table)
    <3>1. \A q \in Here \ {p} : table'[q] = z[q]
          BY <1>8, <1>13 DEF Here
    <3> QED BY <1>4, <3>1, OwnedSame
  <2>2. IsFiniteSet(O) /\ Cardinality(O) \in Nat
        BY <1>13, OwnedFinite DEF Here
  <2>3. IsFiniteSet(Loaded(table'[w])) /\ Loaded(table'[w]) \subseteq Int
        /\ Cardinality(Loaded(table'[w])) = Essential
        BY <1>7, <1>11, <1>13, LoadedFinite
  <2>4. Cardinality(Owned((Here \ {p}) \cup {w}, table')) = Cardinality(O) + Essential
    <3>1. w \notin Here \ {p}
          BY <1>8
    <3> QED BY <2>2, <2>3, <3>1, OwnedJoin
  <2> HIDE DEF O
  <2>5. Cardinality(O) + Len(Released(p)) + Len(free) = NFRAMES
        BY <1>4, <2>1
  <2>6. Essential \in Nat
        BY SearchAssumption DEF SearchAssumption
  <2> QED BY <1>4, <1>5, <1>10, <1>12, <2>2, <2>4, <2>5, <2>6 DEF Total
<1>19. Cover'
  <2>1. Student' <=> Student
        BY <1>2 DEF Student
  <2> SUFFICES ASSUME Student, NEW x \in Frames
               PROVE  \/ In(free', x)
                      \/ \E q \in Here' : \E i \in Loaded(table'[q]) : table'[q][i] = x
      BY <2>1 DEF Cover, Covered, In
  <2>2. In(f, x) \/ \E q \in Here \ {p} : \E i \in Loaded(z[q]) : z[q][i] = x
        BY <1>4 DEF Covered
  <2>3. CASE \E q \in Here \ {p} : \E i \in Loaded(z[q]) : z[q][i] = x
    <3>1. \A q \in Here \ {p} : q \in Here' /\ table'[q] = z[q]
          BY <1>8, <1>10, <1>13 DEF Here
    <3> QED BY <2>3, <3>1
  <2>4. CASE In(f, x)
    <3>1. PICK c, e : c = Len(f) /\ e = Essential /\ c \in Nat /\ e \in Nat /\ e <= c
      <4>1. Essential \in Nat /\ Len(f) \in Nat
            BY <1>5, SearchAssumption, LenProperties DEF SearchAssumption
      <4> QED BY <1>5, <4>1
    <3>2. PICK i \in 1..c : f[i] = x
          BY <2>4, <3>1 DEF In
    <3>3. CASE i <= c - e
      <4>1. i \in 1..c - e
            BY <3>1, <3>3
      <4> QED BY <1>12, <3>1, <3>2, <4>1 DEF In
    <3>4. CASE ~(i <= c - e)
      <4>1. c - i \in 0..e - 1 /\ c - (c - i) = i
            BY <3>1, <3>4
      <4>2. table'[w][c - i] = x /\ c - i \in Loaded(table'[w])
            BY <1>11, <1>13, <3>1, <3>2, <4>1
      <4> QED BY <1>10, <4>2
    <3> QED BY <3>3, <3>4
  <2> QED BY <2>2, <2>3, <2>4
<1> QED BY <1>14, <1>15, <1>16, <1>17, <1>18, <1>19 DEF Inv

-----------------------------------------------------------------------------
(* What follows for DemandPaging *)

LEMMA Step == Inv /\ [Next]_vars => Inv'
<1> SUFFICES ASSUME Inv, [Next]_vars PROVE Inv'
    OBVIOUS
<1>1. CASE Begin
      BY <1>1, BeginStep
<1>2. CASE Hit
      BY <1>2, HitStep
<1>3. CASE LoadPage
      BY <1>3, LoadPageStep
<1>4. CASE SwapOut
      BY <1>4, SwapOutStep
<1>5. ASSUME NEW p \in Procs, FinishSearch(p) PROVE Inv'
      BY <1>5, FinishSearchStep
<1>6. ASSUME NEW p \in Procs, FinishLast(p) PROVE Inv'
      BY <1>6, FinishLastStep
<1>7. ASSUME NEW p \in Procs, FinishSwapIn(p) PROVE Inv'
      BY <1>7, FinishSwapInStep
<1>8. CASE UNCHANGED vars
  <2> USE <1>8 DEF vars, Inv
  <2>1. Here' = Here /\ \A q : Runs(q)' <=> Runs(q)
        BY DEF Here, Runs, In
  <2>2. Types'
        BY DEF Types, InRange, Tables
  <2>3. Line'
        BY <2>1, LineKept
  <2>4. Counts'
        BY DEF Counts
  <2>5. Keeps' /\ Total'
        BY <2>1 DEF Keeps, Total
  <2>6. Cover'
        BY <2>1 DEF Cover, Covered, Student, In
  <2> QED BY <2>2, <2>3, <2>4, <2>5, <2>6
<1> QED BY <1>1, <1>2, <1>3, <1>4, <1>5, <1>6, <1>7, <1>8 DEF Next

LEMMA Accounted == Inv => EveryoneAccounted
<1> SUFFICES ASSUME Inv PROVE EveryoneAccounted
    OBVIOUS
<1> DEFINE last == IF search = NoSearch THEN <<>> ELSE <<search.pid>>
           out == swapped \o last
           waiting == ready \o out
<1>1. Types /\ Line /\ Counts
      BY DEF Inv
<1>2. ToSet(ready) = {p \in Procs : In(ready, p)} /\ ToSet(free) = {x \in Frames : In(free, x)}
  <2>1. ready \in Seq(Procs) /\ free \in Seq(Frames)
        BY <1>1 DEF Types
  <2>2. DOMAIN ready = 1..Len(ready) /\ DOMAIN free = 1..Len(free)
        BY <2>1
  <2>3. \A x : x \in ToSet(ready) <=> In(ready, x)
        BY <2>2 DEF ToSet, In
  <2>4. \A x : x \in ToSet(free) <=> In(free, x)
        BY <2>2 DEF ToSet, In
  <2> QED BY <2>1, <2>3, <2>4, InQueue
<1>3. ReadyOrSearching = Here
  <2>1. search # NoSearch => search.pid \in Procs
        BY <1>1 DEF Types, InRange
  <2> QED BY <1>2, <2>1 DEF ReadyOrSearching, Here, Runs
<1>4. Tables(table) /\ Here \in SUBSET Procs
      BY <1>1 DEF Types, Here
<1>5. InUse = Owned(Here, table)
  <2>1. \A p \in Here : Loaded(table[p]) \subseteq Int
        BY <1>4, LoadedFinite
  <2>2. InUse = {x \in Here \X Int : x[2] \in Loaded(table[x[1]])}
        BY <1>3, <2>1 DEF InUse
  <2> QED BY <2>2 DEF Owned
<1>6. TypeOK
  <2>1. \A p \in Procs : table[p] \in [Pages(p) -> Frames \cup {NoFrame}]
        BY <1>4 DEF Tables
  <2> QED BY <1>1, <2>1 DEF TypeOK, Types, Counts
<1>7. FramesAddUp
  <2>1. Cardinality(InUse) + Len(free) = NFRAMES
        BY <1>5 DEF Inv, Total
  <2>2. ASSUME Student
        PROVE  {table[x[1]][x[2]] : x \in InUse} \cup ToSet(free) = Frames
    <3>1. ASSUME NEW x \in InUse PROVE table[x[1]][x[2]] \in Frames
      <4>1. x[1] \in Procs /\ x[2] \in Loaded(table[x[1]])
            BY <1>4, <1>5 DEF Owned
      <4>2. x[2] \in Pages(x[1]) /\ table[x[1]][x[2]] # NoFrame
            BY <1>4, <4>1, LoadedFinite
      <4> QED BY <1>4, <4>1, <4>2 DEF Tables
    <3>2. ASSUME NEW f \in Frames
          PROVE  f \in ToSet(free) \/ \E x \in InUse : table[x[1]][x[2]] = f
      <4>1. In(free, f) \/ \E p \in Here : \E j \in Loaded(table[p]) : table[p][j] = f
            BY <2>2 DEF Inv, Cover, Covered
      <4>2. ASSUME NEW p \in Here, NEW j \in Loaded(table[p]), table[p][j] = f
            PROVE  \E x \in InUse : table[x[1]][x[2]] = f
        <5>1. <<p, j>> \in InUse
              BY <1>4, <1>5, LoadedFinite DEF Owned
        <5> QED BY <4>2, <5>1
      <4> QED BY <1>2, <4>1, <4>2
    <3>3. ToSet(free) \subseteq Frames
          BY <1>2
    <3> QED BY <3>1, <3>2, <3>3
  <2> QED BY <2>1, <2>2 DEF FramesAddUp
<1>8. /\ last \in Seq(Procs) /\ Distinct(last) /\ Len(last) \in Nat
      /\ \A x : In(last, x) <=> Runs(x)
      /\ active = Len(ready) + Len(last)
  <2>1. CASE search = NoSearch
    <3>1. last = <<>>
          BY <2>1
    <3> HIDE DEF last
    <3> QED BY <1>1, <2>1, <3>1, EmptySeq DEF Distinct, In, Runs, Counts
  <2>2. CASE search # NoSearch
    <3>1. search.pid \in Procs
          BY <1>1, <2>2 DEF Types, InRange
    <3>2. last = <<search.pid>>
          BY <2>2
    <3> HIDE DEF last
    <3>3. last \in Seq(Procs) /\ Len(last) = 1 /\ last[1] = search.pid
          BY <3>1, <3>2
    <3>4. 1..Len(last) = {1}
          BY <3>3
    <3>5. Distinct(last) /\ \A x : In(last, x) <=> Runs(x)
          BY <2>2, <3>3, <3>4 DEF Distinct, In, Runs
    <3> QED BY <1>1, <2>2, <3>3, <3>5 DEF Counts
  <2> QED BY <2>1, <2>2
<1> HIDE DEF last
<1>9. ready \in Seq(Procs) /\ swapped \in Seq(Procs) /\ Distinct(ready) /\ Distinct(swapped)
      BY <1>1 DEF Types, Line
<1>10. \A x : (In(ready, x) => x \in Procs) /\ (In(swapped, x) => x \in Procs)
      BY <1>9, InQueue
<1>11. /\ out \in Seq(Procs) /\ Len(out) = Len(swapped) + Len(last) /\ Distinct(out)
       /\ \A x : In(out, x) <=> (In(swapped, x) \/ In(last, x))
  <2>1. \A x : In(swapped, x) => ~In(last, x)
        BY <1>1, <1>8, <1>10 DEF Line
  <2> QED BY <1>8, <1>9, <2>1, Joined
<1> HIDE DEF out
<1>12. /\ waiting \in Seq(Procs) /\ Len(waiting) = Len(ready) + Len(out) /\ Distinct(waiting)
       /\ \A x : In(waiting, x) <=> (In(ready, x) \/ In(out, x))
  <2>1. \A x : In(ready, x) => ~In(out, x)
        BY <1>1, <1>8, <1>10, <1>11 DEF Line
  <2> QED BY <1>9, <1>11, <2>1, Joined
<1> HIDE DEF waiting
<1>13. DOMAIN waiting = 1..Len(waiting)
      BY <1>12
<1>14. IsInjective(waiting)
      BY <1>12, <1>13 DEF IsInjective, Distinct
<1>15. ToSet(waiting) = Procs \ Ended
  <2>1. \A x : x \in ToSet(waiting) <=> In(waiting, x)
        BY <1>13 DEF ToSet, In
  <2>2. \A x : In(waiting, x) => x \in Procs
        BY <1>12, InQueue
  <2>3. \A p \in Procs : In(waiting, p) <=> p \notin Ended
        BY <1>1, <1>8, <1>11, <1>12 DEF Line, Ended
  <2> QED BY <2>1, <2>2, <2>3
<1>16. active = Len(waiting) - Len(swapped)
      BY <1>8, <1>9, <1>11, <1>12, LenProperties
<1>17. waiting = ready \o swapped \o last
  <2>1. ready \o (swapped \o last) = (ready \o swapped) \o last
        BY <1>8, <1>9, ConcatAssociative
  <2> QED BY <2>1 DEF waiting, out
<1> QED BY <1>6, <1>7, <1>14, <1>15, <1>16, <1>17 DEF EveryoneAccounted, last

(* A process is in one place until it ends, and every frame is free or     *)
(* loaded by a process in memory.                                          *)
THEOREM EveryoneIsAccounted == Spec => []EveryoneAccounted
<1>1. Init => Inv
      BY InitInv
<1>2. Inv /\ [Next]_vars => Inv'
      BY Step
<1> QED BY <1>1, <1>2, Accounted, PTL DEF Spec

(* When a process ends there are frames for the essential pages of the one *)
(* that is swapped in: initializeSimulation is the only one to fail.       *)
THEOREM SwapInNeverFails == Spec => []~failed
<1>1. Init => Inv
      BY InitInv
<1>2. Inv /\ [Next]_vars => Inv'
      BY Step
<1>3. Inv => ~failed
      BY DEF Inv, Types
<1> QED BY <1>1, <1>2, <1>3, PTL DEF Spec
-----------------------------------------------------------------------------
(* The bits of a history *)

(* The recursive definition of Bit has a solution.                         *)
Doubles(g, k) == g = [i \in 0..k |-> IF i = 0 THEN 1 ELSE 2 * g[i - 1]]

LEMMA DoublesExist == \A k \in Nat : \E g : Doubles(g, k)
<1> DEFINE I == {k \in Nat : \E g : Doubles(g, k)}
<1>1. 0 \in I
  <2> DEFINE g == [i \in 0..0 |-> 1]
  <2>1. Doubles(g, 0)
        BY DEF Doubles
  <2> QED BY <2>1
<1>2. ASSUME NEW k \in I \cap Nat PROVE k + 1 \in I
  <2>1. PICK g : Doubles(g, k)
        OBVIOUS
  <2>2. PICK h : h = [i \in 0..k + 1 |-> IF i = k + 1 THEN 2 * g[k] ELSE g[i]]
        OBVIOUS
  <2>3. ASSUME NEW i \in 0..k + 1
        PROVE  h[i] = IF i = 0 THEN 1 ELSE 2 * h[i - 1]
    <3>1. CASE i = k + 1
      <4>1. i # 0 /\ i - 1 = k /\ k \in 0..k + 1 /\ k # k + 1
            BY <3>1
      <4> QED BY <2>2, <3>1, <4>1
    <3>2. CASE i # k + 1
      <4>1. i \in 0..k
            BY <3>2
      <4>2. g[i] = IF i = 0 THEN 1 ELSE 2 * g[i - 1]
            BY <2>1, <4>1 DEF Doubles
      <4>3. i # 0 => i - 1 \in 0..k + 1 /\ i - 1 # k + 1
            BY <4>1
      <4> QED BY <2>2, <3>2, <4>2, <4>3
    <3> QED BY <3>1, <3>2
  <2>4. DOMAIN h = 0..k + 1 /\ h = [i \in 0..k + 1 |-> h[i]]
        BY <2>2
  <2>5. Doubles(h, k + 1)
        BY <2>3, <2>4 DEF Doubles
  <2> QED BY <2>5
<1> HIDE DEF I
<1>3. Nat \subseteq I
      BY <1>1, <1>2, NumberInduction
<1> QED BY <1>3 DEF I

LEMMA Bits ==
    /\ HistoryBits \in Nat \ {0}
    /\ Bit[0] = 1 /\ \A i \in 0..HistoryBits : Bit[i] \in Nat \ {0}
    /\ \A i \in 1..HistoryBits : Bit[i] = 2 * Bit[i - 1]
    /\ \A i, k \in 0..HistoryBits : i <= k => Bit[i] <= Bit[k]
<1>0. HistoryBits \in Nat \ {0}
      BY ReplacementAssumption DEF ReplacementAssumption
<1>1. Doubles(Bit, HistoryBits)
  <2>1. \E g : Doubles(g, HistoryBits)
        BY <1>0, DoublesExist
  <2>2. Bit = CHOOSE g : Doubles(g, HistoryBits)
        BY DEF Bit, Doubles
  <2> QED BY <2>1, <2>2
<1> HIDE DEF Bit
<1>2. /\ Bit[0] = 1
      /\ \A i \in 1..HistoryBits : Bit[i] = 2 * Bit[i - 1]
  <2>1. \A i \in 0..HistoryBits : Bit[i] = IF i = 0 THEN 1 ELSE 2 * Bit[i - 1]
        BY <1>1 DEF Doubles
  <2>2. 0 \in 0..HistoryBits /\ \A i \in 1..HistoryBits : i \in 0..HistoryBits /\ i # 0
        BY <1>0
  <2> QED BY <2>1, <2>2
<1>3. \A i \in 0..HistoryBits : Bit[i] \in Nat \ {0}
  <2> DEFINE I == {k \in Nat : k <= HistoryBits => Bit[k] \in Nat \ {0}}
  <2>1. 0 \in I
        BY <1>2
  <2>2. ASSUME NEW k \in I \cap Nat PROVE k + 1 \in I
    <3>1. k + 1 <= HistoryBits => /\ k <= HistoryBits /\ k + 1 \in 1..HistoryBits
                                  /\ (k + 1) - 1 = k
          BY <1>0
    <3>2. k + 1 <= HistoryBits => Bit[k] \in Nat \ {0} /\ Bit[k + 1] = 2 * Bit[k]
          BY <1>2, <3>1
    <3> QED BY <3>2
  <2> HIDE DEF I
  <2>3. Nat \subseteq I
        BY <2>1, <2>2, NumberInduction
  <2> QED BY <1>0, <2>3 DEF I
<1>4. ASSUME NEW i \in 0..HistoryBits, NEW k \in 0..HistoryBits, i <= k
      PROVE  Bit[i] <= Bit[k]
  <2> DEFINE I == {d \in Nat : i + d <= HistoryBits => Bit[i] <= Bit[i + d]}
  <2>1. 0 \in I
        BY <1>3
  <2>2. ASSUME NEW d \in I \cap Nat PROVE d + 1 \in I
    <3> SUFFICES ASSUME i + (d + 1) <= HistoryBits PROVE Bit[i] <= Bit[i + (d + 1)]
        OBVIOUS
    <3>1. /\ i + d \in 0..HistoryBits /\ i + (d + 1) \in 1..HistoryBits
          /\ (i + (d + 1)) - 1 = i + d /\ i + d <= HistoryBits
          BY <1>0
    <3>2. Bit[i] <= Bit[i + d] /\ Bit[i + (d + 1)] = 2 * Bit[i + d]
          BY <1>2, <3>1
    <3>3. Bit[i] \in Nat /\ Bit[i + d] \in Nat
          BY <1>3, <3>1
    <3> QED BY <3>2, <3>3
  <2> HIDE DEF I
  <2>3. Nat \subseteq I
        BY <2>1, <2>2, NumberInduction
  <2>4. k - i \in Nat /\ i + (k - i) = k
        BY <1>4
  <2> QED BY <2>3, <2>4 DEF I
<1> QED BY <1>0, <1>2, <1>3, <1>4

(* A history of a page that was last used a searches ago.                  *)
Fits(h, a) == IF a < HistoryBits
              THEN Bit[HistoryBits - 1 - a] <= h /\ h < Bit[HistoryBits - a]
              ELSE h = 0

LEMMA FullFits == Full \in Nat /\ Fits(Full, 0) /\ Bit[HistoryBits - 1] <= Full
<1>1. /\ HistoryBits \in Nat \ {0} /\ HistoryBits - 1 \in 0..HistoryBits
      /\ HistoryBits \in 1..HistoryBits /\ HistoryBits - 1 - 0 = HistoryBits - 1
      /\ HistoryBits - 0 = HistoryBits /\ HistoryBits \in 0..HistoryBits
      /\ 0 < HistoryBits
      BY Bits
<1>2. /\ Bit[HistoryBits] = 2 * Bit[HistoryBits - 1] /\ Bit[HistoryBits - 1] \in Nat \ {0}
      /\ Bit[HistoryBits] \in Nat
      BY <1>1, Bits
<1>3. /\ Full \in Nat /\ Bit[HistoryBits - 1] <= Full /\ Full < Bit[HistoryBits]
      BY <1>2 DEF Full
<1> QED BY <1>1, <1>3 DEF Fits

(* A bit is shifted in from above.                                         *)
LEMMA ShiftFits ==
    ASSUME NEW h \in 0..Full, NEW a \in Nat, Fits(h, a)
    PROVE  /\ h \div 2 \in 0..Full /\ Fits(h \div 2, a + 1)
           /\ h \div 2 + Bit[HistoryBits - 1] \in 0..Full
           /\ Fits(h \div 2 + Bit[HistoryBits - 1], 0)
<1>1. PICK H \in Nat \ {0} : H = HistoryBits
      BY Bits
<1>2. H - 1 \in 0..H /\ H \in 1..H /\ H \in 0..H /\ 0 < H /\ H - 1 - 0 = H - 1 /\ H - 0 = H
      BY <1>1
<1>3. PICK b \in Nat \ {0} : b = Bit[H - 1] /\ Bit[H] = 2 * b
      BY <1>1, <1>2, Bits
<1>4. Full = 2 * b - 1
      BY <1>1, <1>3 DEF Full
<1>5. PICK q : q = h \div 2
      OBVIOUS
<1>6. q \in Nat /\ 2 * q <= h /\ h <= 2 * q + 1 /\ h <= 2 * b - 1 /\ h \in Nat
      BY <1>4, <1>5
<1>7. q \in 0..Full /\ q + b \in 0..Full /\ b <= q + b /\ q + b < 2 * b
      BY <1>4, <1>6
<1>8. Fits(q + b, 0)
      BY <1>1, <1>2, <1>3, <1>7 DEF Fits
<1>9. Fits(q, a + 1)
  <2>1. CASE a + 1 < H
    <3>1. /\ H - 1 - a \in 1..H /\ H - a \in 1..H /\ (H - 1 - a) - 1 = H - 1 - (a + 1)
          /\ (H - a) - 1 = H - (a + 1) /\ a < H
          /\ H - 1 - (a + 1) \in 0..H /\ H - (a + 1) \in 0..H
          BY <2>1
    <3>2. PICK c \in Nat, d \in Nat : c = Bit[H - 1 - (a + 1)] /\ d = Bit[H - (a + 1)]
          BY <1>1, <3>1, Bits
    <3>3. Bit[H - 1 - a] = 2 * c /\ Bit[H - a] = 2 * d
          BY <1>1, <3>1, <3>2, Bits
    <3>4. 2 * c <= h /\ h < 2 * d
          BY <1>1, <3>1, <3>3 DEF Fits
    <3>5. c <= q /\ q < d
          BY <1>6, <3>2, <3>4
    <3> QED BY <1>1, <2>1, <3>2, <3>5 DEF Fits
  <2>2. CASE a + 1 = H
    <3>1. a < H /\ H - a = 1 /\ 1 \in 1..H /\ 1 - 1 = 0 /\ ~(a + 1 < H)
          BY <2>2
    <3>2. Bit[1] = 2
          BY <1>1, <3>1, Bits
    <3>3. h < 2
          BY <1>1, <3>1, <3>2 DEF Fits
    <3>4. q = 0
          BY <1>6, <3>3
    <3> QED BY <1>1, <3>1, <3>4 DEF Fits
  <2>3. CASE a + 1 > H
    <3>1. ~(a < H) /\ ~(a + 1 < H)
          BY <2>3
    <3>2. h = 0
          BY <1>1, <3>1 DEF Fits
    <3>3. q = 0
          BY <1>6, <3>2
    <3> QED BY <1>1, <3>1, <3>3 DEF Fits
  <2> QED BY <2>1, <2>2, <2>3
<1> QED BY <1>1, <1>3, <1>5, <1>7, <1>8, <1>9

(* Who has the smaller history has not been used for as long or longer.    *)
LEMMA SmallerIsOlder ==
    ASSUME NEW h \in 0..Full, NEW g \in 0..Full, NEW a \in Nat, NEW b \in Nat,
           Fits(h, a), Fits(g, b), h <= g
    PROVE  (IF b < HistoryBits THEN b ELSE HistoryBits)
              <= (IF a < HistoryBits THEN a ELSE HistoryBits)
<1>1. PICK H \in Nat \ {0} : H = HistoryBits
      BY Bits
<1>2. CASE a >= H
      BY <1>1, <1>2
<1>3. CASE a < H /\ b <= a
      BY <1>1, <1>3
<1>4. CASE a < H /\ b > a
  <2>1. H - 1 - a \in 0..H /\ Bit[H - 1 - a] \in Nat \ {0} /\ Bit[H - 1 - a] <= h
        BY <1>1, <1>4, Bits DEF Fits
  <2>2. CASE b < H
    <3>1. H - b \in 0..H /\ H - b <= H - 1 - a
          BY <1>4, <2>2
    <3>2. Bit[H - b] <= Bit[H - 1 - a] /\ Bit[H - b] \in Nat
          BY <1>1, <2>1, <3>1, Bits
    <3>3. g < Bit[H - b]
          BY <1>1, <2>2 DEF Fits
    <3>4. FALSE
          BY <2>1, <3>2, <3>3
    <3> QED BY <3>4
  <2>3. CASE ~(b < H)
    <3>1. g = 0
          BY <1>1, <2>3 DEF Fits
    <3>2. FALSE
          BY <2>1, <3>1
    <3> QED BY <3>2
  <2> QED BY <2>2, <2>3
<1>5. a >= H \/ (a < H /\ b <= a) \/ (a < H /\ b > a)
      OBVIOUS
<1> QED BY <1>2, <1>3, <1>4, <1>5

-----------------------------------------------------------------------------
(* The inductive invariant of PageReplacement *)

Entries == [frame : Frames, owner : Procs \cup {-1}, page : Nat \cup {-1}]

(* Whose frames are not yet released. *)
Present == {p \in Procs : count[p] < m}

RTypes ==
    /\ version \in {"student", "solution"}
    /\ ready \in Seq(Procs) /\ stopped \subseteq Procs
    /\ InRange
    /\ count \in [Procs -> 0..m]
    /\ Tables(table) /\ free \in Seq(Entries)
    /\ DOMAIN ref = Procs /\ \A p \in Procs : ref[p] \subseteq Pages(p)
    /\ DOMAIN holds = Frames

(* Nobody is in two places, and who has ended is in none. *)
RLine ==
    /\ Distinct(ready)
    /\ \A p \in Procs : In(ready, p) => ~Runs(p) /\ p \in Present
    /\ \A p \in Procs : Runs(p) => p \in Present

(* Each frame is free or loaded by somebody who has not ended, ... *)
RTotal == Cardinality(Owned(Present, table)) + Len(free) = NFRAMES
RCover ==
    \A x \in Frames : \/ \E i \in 1..Len(free) : free[i].frame = x
                      \/ \E p \in Present : \E j \in Loaded(table[p]) : table[p][j] = x

(* ... and it holds what it is said to hold. *)
Labels ==
    /\ \A i \in 1..Len(free) :
          free[i].page # -1 => holds[free[i].frame] = <<free[i].owner, free[i].page>>
    /\ \A p \in Present : \A j \in Loaded(table[p]) :
          j >= Essential => holds[table[p][j]] = <<p, j>>

(* A history tells when its page was last used. *)
Aged ==
    /\ DOMAIN hist = Procs /\ DOMAIN used = Procs
    /\ \A p \in Procs :
          /\ hist[p] \in [DataPages(p) -> 0..Full]
          /\ used[p] \in [DataPages(p) -> Nat]
          /\ \A j \in DataPages(p) : used[p][j] <= count[p]
          /\ \A j \in DataPages(p) :
                table[p][j] # NoFrame => Fits(hist[p][j], count[p] - used[p][j])

RInv == RTypes /\ RLine /\ RTotal /\ RCover /\ Labels /\ Aged

LEMMA RInitInv == RInit => RInv
<1> SUFFICES ASSUME RInit PROVE RInv
    OBVIOUS
<1> DEFINE E == Essential
<1>0. /\ n \in Nat \ {0} /\ m \in Nat \ {0} /\ E \in Nat \ {0} /\ NFRAMES \in Nat
      BY SearchAssumption DEF SearchAssumption
<1>1. PICK a \in Nat : a = n * E /\ a <= NFRAMES
      BY RoomForAll
<1>2. \A i \in 1..NFRAMES : /\ Initially[i] = IF Student THEN i - 1 ELSE NFRAMES - i
                            /\ Initially[i] \in Frames
      BY <1>0 DEF Initially, Frames
<1>3. ASSUME NEW p \in Procs, NEW j \in 0..E - 1
      PROVE  /\ NFRAMES - p * E - j \in 1..NFRAMES
             /\ FirstFrame(p, j) = Initially[NFRAMES - p * E - j]
             /\ FirstFrame(p, j) \in Frames
  <2>1. PICK k \in Nat : k = p * E /\ k + E <= a
        BY <1>1, RoomForAll
  <2>2. NFRAMES - k - j \in 1..NFRAMES
        BY <1>0, <1>1, <2>1
  <2> QED BY <1>2, <2>1, <2>2 DEF FirstFrame
<1>4. NoFrame \notin Frames
      BY DEF NoFrame, Frames
<1>5. ASSUME NEW p \in Procs
      PROVE  /\ table[p] \in [Pages(p) -> Frames \cup {NoFrame}]
             /\ Loaded(table[p]) = 0..E - 1
             /\ \A j \in 0..E - 1 : table[p][j] = FirstFrame(p, j)
             /\ \A j \in DataPages(p) : table[p][j] = NoFrame
  <2>1. table[p] = [j \in Pages(p) |-> IF j < E THEN FirstFrame(p, j) ELSE NoFrame]
        BY DEF RInit
  <2>2. Pages(p) \subseteq Nat /\ 0..E - 1 \subseteq Pages(p)
        BY PagesFinite
  <2>3. \A j \in Pages(p) : j < E => j \in 0..E - 1
        BY <1>0, <2>2
  <2>4. \A j \in Pages(p) : table[p][j] \in Frames \cup {NoFrame}
        BY <1>3, <2>1, <2>3
  <2>5. \A j \in 0..E - 1 : j \in Pages(p) /\ j < E
        BY <1>0, <2>2
  <2>6. \A j \in 0..E - 1 : table[p][j] = FirstFrame(p, j)
        BY <2>1, <2>5
  <2>7. Loaded(table[p]) = 0..E - 1
    <3>1. DOMAIN table[p] = Pages(p)
          BY <2>1
    <3>2. \A j \in Pages(p) : table[p][j] # NoFrame => j \in 0..E - 1
          BY <2>1, <2>3
    <3>3. \A j \in 0..E - 1 : table[p][j] # NoFrame
          BY <1>3, <1>4, <2>6
    <3> QED BY <2>5, <3>1, <3>2, <3>3 DEF Loaded
  <2>8. \A j \in DataPages(p) : j \in Pages(p) /\ ~(j < E)
        BY PagesFinite DEF DataPages, Pages
  <2>9. \A j \in DataPages(p) : table[p][j] = NoFrame
        BY <2>1, <2>8
  <2> QED BY <2>1, <2>4, <2>6, <2>7, <2>9
<1>6. Tables(table)
      BY <1>5 DEF Tables, RInit
<1>7. /\ free \in Seq(Entries) /\ Len(free) = NFRAMES - a
      /\ \A i \in 1..NFRAMES - a : i \in 1..NFRAMES /\ free[i] = NoOwner(Initially[i])
  <2>1. free = [i \in 1..NFRAMES - a |-> NoOwner(Initially[i])]
        BY <1>1 DEF RInit
  <2>2. NFRAMES - a \in Nat /\ \A i \in 1..NFRAMES - a : i \in 1..NFRAMES
        BY <1>0, <1>1
  <2>3. \A i \in 1..NFRAMES - a : NoOwner(Initially[i]) \in Entries
        BY <1>2, <2>2 DEF NoOwner, Entries
  <2> QED BY <2>1, <2>2, <2>3
<1>8. /\ ready \in Seq(Procs) /\ Len(ready) = n /\ \A i \in 1..n : ready[i] = i - 1
      /\ search = NoSearch
      BY <1>0 DEF RInit, Procs
<1>9. \A p \in Procs : ~Runs(p)
      BY <1>8 DEF Runs
<1>10. Present = Procs
      BY <1>0 DEF Present, RInit
<1>11. RTypes
  <2>1. count \in [Procs -> 0..m]
        BY <1>0 DEF RInit
  <2> QED BY <1>6, <1>7, <1>8, <2>1 DEF RTypes, RInit, InRange
<1>12. RLine
  <2>1. Distinct(ready)
        BY <1>0, <1>8 DEF Distinct
  <2> QED BY <1>9, <1>10, <2>1 DEF RLine
<1>13. RTotal
  <2>1. Owned(Present, table) = Procs \X (0..E - 1)
    <3>1. \A j \in 0..E - 1 : j \in Int
          OBVIOUS
    <3> QED BY <1>5, <1>10, <3>1 DEF Owned
  <2>2. IsFiniteSet(Procs) /\ Cardinality(Procs) = n
    <3>1. 0 \in Int /\ n - 1 \in Int /\ ~(0 > n - 1) /\ (n - 1) - 0 + 1 = n
          BY <1>0
    <3> QED BY <3>1, FS_Interval DEF Procs
  <2>3. IsFiniteSet(0..E - 1) /\ Cardinality(0..E - 1) = E
    <3>1. 0 \in Int /\ E - 1 \in Int /\ ~(0 > E - 1) /\ (E - 1) - 0 + 1 = E
          BY <1>0
    <3> QED BY <3>1, FS_Interval
  <2>4. Cardinality(Procs \X (0..E - 1)) = a
        BY <1>1, <2>2, <2>3, FS_Product
  <2> QED BY <1>0, <1>1, <1>7, <2>1, <2>4 DEF RTotal
<1>14. RCover
  <2> SUFFICES ASSUME NEW x \in Frames
               PROVE  \/ \E i \in 1..Len(free) : free[i].frame = x
                      \/ \E p \in Procs : \E j \in Loaded(table[p]) : table[p][j] = x
      BY <1>10 DEF RCover
  <2>1. PICK i \in 1..NFRAMES : Initially[i] = x
    <3>0. x \in Nat /\ x < NFRAMES
          BY <1>0 DEF Frames
    <3>1. CASE Student
      <4>1. x + 1 \in 1..NFRAMES /\ (x + 1) - 1 = x
            BY <1>0, <3>0
      <4> QED BY <1>2, <3>1, <4>1
    <3>2. CASE ~Student
      <4>1. NFRAMES - x \in 1..NFRAMES /\ NFRAMES - (NFRAMES - x) = x
            BY <1>0, <3>0
      <4> QED BY <1>2, <3>2, <4>1
    <3> QED BY <3>1, <3>2
  <2>2. CASE i <= NFRAMES - a
    <3>1. i \in 1..NFRAMES - a
          BY <2>2
    <3>2. free[i].frame = x
          BY <1>7, <2>1, <3>1 DEF NoOwner
    <3> QED BY <1>7, <3>1, <3>2
  <2>3. CASE ~(i <= NFRAMES - a)
    <3>1. PICK b \in Nat : b = NFRAMES - i /\ b < a
      <4>1. NFRAMES - i \in Nat /\ NFRAMES - i < a
            BY <1>0, <1>1, <2>3
      <4> QED BY <4>1
    <3>2. PICK q \in 0..n - 1, r \in 0..E - 1 : b = q * E + r
      <4>1. n \in Nat /\ E \in Nat \ {0} /\ b < n * E
            BY <1>0, <1>1, <3>1
      <4> QED BY ONLY b \in Nat, <4>1, DividedInto
    <3>3. q \in Procs
          BY <3>2 DEF Procs
    <3>4. NFRAMES - q * E - r = i
      <4>1. q * E \in Nat
            BY <3>3, RoomForAll
      <4>2. PICK k \in Nat : k = q * E
            BY <4>1
      <4> QED BY <1>0, <3>1, <3>2, <4>2
    <3>5. table[q][r] = x /\ r \in Loaded(table[q])
          BY <1>3, <1>5, <2>1, <3>2, <3>3, <3>4
    <3> QED BY <3>3, <3>5
  <2> QED BY <2>2, <2>3
<1>15. Labels
  <2>1. \A i \in 1..Len(free) : free[i].page = -1
        BY <1>7 DEF NoOwner
  <2>2. \A p \in Present : \A j \in Loaded(table[p]) : ~(j >= E)
        BY <1>0, <1>5, <1>10
  <2> QED BY <2>1, <2>2 DEF Labels
<1>16. Aged
  <2>1. 0 \in 0..Full
        BY FullFits
  <2>2. /\ DOMAIN hist = Procs /\ DOMAIN used = Procs
        /\ \A p \in Procs : /\ hist[p] \in [DataPages(p) -> 0..Full]
                             /\ used[p] \in [DataPages(p) -> Nat]
                             /\ \A j \in DataPages(p) : used[p][j] = 0 /\ count[p] = 0
        BY <2>1 DEF RInit
  <2> QED BY <1>5, <2>2 DEF Aged
<1> QED BY <1>11, <1>12, <1>13, <1>14, <1>15, <1>16 DEF RInv

-----------------------------------------------------------------------------
(* Parts of the steps of PageReplacement *)

(* As there are as many places as frames, no frame is in two of them.      *)
Places == Owned(Present, table) \cup {<<-1, i>> : i \in 1..Len(free)}
At(x) == IF x[1] = -1 THEN free[x[2]].frame ELSE table[x[1]][x[2]]

LEMMA InOnePlace ==
    ASSUME RTypes, RTotal, RCover
    PROVE  /\ \A i, k \in 1..Len(free) : free[i].frame = free[k].frame => i = k
           /\ \A i \in 1..Len(free) : \A p \in Present : \A j \in Loaded(table[p]) :
                 free[i].frame # table[p][j]
           /\ \A p, q \in Present : \A j \in Loaded(table[p]), k \in Loaded(table[q]) :
                 table[p][j] = table[q][k] => p = q /\ j = k
<1> DEFINE O == Owned(Present, table)
           I == {<<-1, i>> : i \in 1..Len(free)}
           g == [x \in Places |-> At(x)]
<1>0. Tables(table) /\ free \in Seq(Entries) /\ Present \in SUBSET Procs /\ NFRAMES \in Nat
      BY SearchAssumption DEF RTypes, Present, SearchAssumption
<1>1. PICK c \in Nat : c = Len(free)
      BY <1>0, LenProperties
<1>2. IsFiniteSet(O) /\ Cardinality(O) \in Nat /\ Cardinality(O) + c = NFRAMES
      BY <1>0, <1>1, OwnedFinite DEF RTotal
<1>3. \A x \in O : x[1] \in Present /\ x[1] # -1 /\ x[2] \in Loaded(table[x[1]]) /\ x = <<x[1], x[2]>>
  <2>1. \A p \in Procs : p # -1
        BY DEF Procs
  <2> QED BY <1>0, <2>1 DEF Owned
<1>4. IsFiniteSet(I) /\ Cardinality(I) = c
  <2>1. [i \in 1..c |-> <<-1, i>>] \in Bijection(1..c, I)
    <3>1. [i \in 1..c |-> <<-1, i>>] \in Injection(1..c, I)
          BY <1>1 DEF Injection, IsInjective
    <3>2. [i \in 1..c |-> <<-1, i>>] \in Surjection(1..c, I)
          BY <1>1 DEF Surjection
    <3> QED BY <3>1, <3>2 DEF Bijection
  <2>2. IsFiniteSet(1..c) /\ Cardinality(1..c) = c
        BY FS_Interval
  <2> HIDE DEF I
  <2>3. ExistsBijection(1..c, I)
        BY <2>1 DEF ExistsBijection
  <2> QED BY <2>2, <2>3, FS_Bijection
<1>5. O \cap I = {}
      BY <1>3
<1> HIDE DEF O, I
<1>6. IsFiniteSet(Places) /\ Cardinality(Places) = NFRAMES
  <2>1. Places = O \cup I
        BY DEF Places, O, I
  <2>2. Cardinality(O \cap I) = 0
        BY <1>5, FS_EmptySet
  <2>3. IsFiniteSet(O \cup I)
        /\ Cardinality(O \cup I) = Cardinality(O) + Cardinality(I) - Cardinality(O \cap I)
        BY <1>2, <1>4, FS_Union
  <2> QED BY <1>0, <1>2, <1>4, <2>1, <2>2, <2>3
<1>7. Cardinality(Frames) = NFRAMES
  <2>1. CASE NFRAMES = 0
    <3>1. Frames = {}
          BY <2>1 DEF Frames
    <3> QED BY <2>1, <3>1, FS_EmptySet
  <2>2. CASE NFRAMES # 0
    <3>1. 0 \in Int /\ NFRAMES - 1 \in Int /\ ~(0 > NFRAMES - 1)
          /\ (NFRAMES - 1) - 0 + 1 = NFRAMES
          BY <1>0, <2>2
    <3> QED BY <3>1, FS_Interval DEF Frames
  <2> QED BY <2>1, <2>2
<1>8. ASSUME NEW i \in 1..Len(free)
      PROVE  <<-1, i>> \in Places /\ At(<<-1, i>>) = free[i].frame /\ free[i].frame \in Frames
  <2>1. free[i] \in Entries
        BY <1>0, ElementOfSeq
  <2> QED BY <2>1 DEF Places, At, Entries
<1>9. ASSUME NEW p \in Present, NEW j \in Loaded(table[p])
      PROVE  <<p, j>> \in Places /\ At(<<p, j>>) = table[p][j] /\ table[p][j] \in Frames /\ p # -1
  <2>1. j \in Pages(p) /\ table[p][j] # NoFrame /\ j \in Int /\ p \in Procs
    <3>1. p \in Procs
          BY <1>0
    <3>2. Loaded(table[p]) = {k \in Pages(p) : table[p][k] # NoFrame}
          BY <1>0, <3>1, LoadedFinite
    <3>3. Loaded(table[p]) \subseteq Nat
          BY <1>0, <3>1, LoadedFinite
    <3> QED BY <3>1, <3>2, <3>3
  <2>2. table[p][j] \in Frames /\ p # -1
        BY <1>0, <2>1 DEF Tables, Procs
  <2> QED BY <2>1, <2>2 DEF Places, Owned, At
<1>10. g \in Surjection(Places, Frames)
  <2>1. ASSUME NEW x \in Places PROVE At(x) \in Frames
    <3>1. CASE x \in O
          BY <1>3, <1>9, <3>1
    <3>2. CASE x \in I
          BY <1>8, <3>2 DEF I
    <3> QED BY <3>1, <3>2 DEF Places, O, I
  <2>2. ASSUME NEW f \in Frames PROVE \E x \in Places : At(x) = f
    <3>1. CASE \E i \in 1..Len(free) : free[i].frame = f
      <4>1. PICK i \in 1..Len(free) : free[i].frame = f
            BY <3>1
      <4>2. PICK x : x = <<-1, i>>
            OBVIOUS
      <4>3. x \in Places /\ At(x) = f
            BY <1>8, <4>1, <4>2
      <4> QED BY <4>3
    <3>2. CASE \E p \in Present : \E j \in Loaded(table[p]) : table[p][j] = f
      <4>1. PICK p \in Present : \E j \in Loaded(table[p]) : table[p][j] = f
            BY <3>2
      <4>2. PICK j \in Loaded(table[p]) : table[p][j] = f
            BY <4>1
      <4>3. PICK x : x = <<p, j>>
            OBVIOUS
      <4>4. x \in Places /\ At(x) = f
            BY <1>9, <4>2, <4>3
      <4> QED BY <4>4
    <3> QED BY <3>1, <3>2 DEF RCover
  <2> QED BY <2>1, <2>2 DEF Surjection
<1>11. g \in Injection(Places, Frames)
  <2> HIDE DEF g
  <2> QED BY <1>6, <1>7, <1>10, FS_SurjSameCardinalityImpliesInj
<1>12. \A x, y \in Places : At(x) = At(y) => x = y
      BY <1>11 DEF Injection, IsInjective
<1>13. \A i, k \in 1..Len(free) : free[i].frame = free[k].frame => i = k
  <2> SUFFICES ASSUME NEW i \in 1..Len(free), NEW k \in 1..Len(free),
                      free[i].frame = free[k].frame
               PROVE  i = k
      OBVIOUS
  <2>1. <<-1, i>> = <<-1, k>>
        BY <1>8, <1>12
  <2> QED BY <2>1
<1>14. ASSUME NEW i \in 1..Len(free), NEW p \in Present, NEW j \in Loaded(table[p])
       PROVE  free[i].frame # table[p][j]
  <2>1. PICK x, y : x = <<-1, i>> /\ y = <<p, j>>
        OBVIOUS
  <2>2. x \in Places /\ y \in Places /\ x # y
        /\ At(x) = free[i].frame /\ At(y) = table[p][j]
        BY <1>8, <1>9, <2>1
  <2> QED BY <1>12, <2>2
<1>15. ASSUME NEW p \in Present, NEW q \in Present,
              NEW j \in Loaded(table[p]), NEW k \in Loaded(table[q]),
              table[p][j] = table[q][k]
       PROVE  p = q /\ j = k
  <2>1. PICK x, y : x = <<p, j>> /\ y = <<q, k>>
        OBVIOUS
  <2>2. x \in Places /\ y \in Places
        /\ At(x) = table[p][j] /\ At(y) = table[q][k]
    <3>1. x \in Places /\ At(x) = table[p][j]
          BY <1>9, <2>1
    <3>2. y \in Places /\ At(y) = table[q][k]
          BY <1>9, <2>1
    <3> QED BY <3>1, <3>2
  <2>3. x = y
        BY <1>12, <1>15, <2>2
  <2> QED BY <2>1, <2>3
<1> QED BY <1>13, <1>14, <1>15

(* The data pages of a process.                                            *)
LEMMA DataPagesOfIts ==
    ASSUME NEW p \in Procs
    PROVE  DataPages(p) = {j \in Pages(p) : j >= Essential} /\ DataPages(p) \subseteq Nat
<1>1. PICK q \in Int : q = PageOf(size[p] - 1)
      BY PagesFinite
<1>2. Essential \in Nat /\ DataPages(p) = Essential..q /\ Pages(p) = 0..q
      BY <1>1, SearchAssumption DEF SearchAssumption, DataPages, Pages
<1> QED BY <1>2

(* The process whose search is under way.                                  *)
LEMMA RSearcher ==
    ASSUME RInv, search # NoSearch
    PROVE  /\ search.pid \in Procs /\ Runs(search.pid) /\ search.pid \in Present
           /\ ~In(ready, search.pid)
           /\ \A q : Runs(q) <=> q = search.pid
<1>1. search \in [pid : Procs, key : Nat, left : Nat, right : Nat]
      BY DEF RInv, RTypes, InRange
<1>2. PICK p \in Procs : p = search.pid
      BY <1>1
<1>3. \A q : Runs(q) <=> q = p
      BY <1>2 DEF Runs
<1>4. ~In(ready, p) /\ p \in Present
      BY <1>3 DEF RInv, RLine
<1> QED BY <1>2, <1>3, <1>4

(* A victim has the least history of all candidates.                       *)
LEMMA VictimLeast ==
    ASSUME RInv, NEW p \in Procs, Candidates(p) # {}
    PROVE  /\ Victim(p) \in Candidates(p)
           /\ \A j \in Candidates(p) : hist[p][Victim(p)] <= hist[p][j]
<1> DEFINE C == Candidates(p)
           I == {hist[p][j] : j \in C}
<1>1. \A j \in C : j \in Nat /\ hist[p][j] \in Nat
  <2>1. \A j \in C : j \in DataPages(p)
        BY DEF Candidates
  <2>2. hist[p] \in [DataPages(p) -> 0..Full]
        BY DEF RInv, Aged
  <2> QED BY <2>1, <2>2, DataPagesOfIts
<1> HIDE DEF C
<1>2. I \subseteq Nat /\ I # {}
      BY <1>1 DEF C
<1>3. PICK h \in I : \A b \in I : h <= b
  <2> HIDE DEF I
  <2> QED BY <1>2, LeastNumber
<1> DEFINE J == {j \in C : hist[p][j] = h}
<1>4. J \subseteq Nat /\ J # {}
      BY <1>1, <1>3
<1>5. PICK q \in J : \A b \in J : q <= b
  <2> HIDE DEF J
  <2> QED BY <1>4, LeastNumber
<1>6. \A j \in C : h <= hist[p][j]
      BY <1>3
<1>7. q \in C /\ hist[p][q] = h
      BY <1>5
<1>8. \A j \in C : hist[p][q] < hist[p][j] \/ (hist[p][q] = hist[p][j] /\ q <= j)
  <2> SUFFICES ASSUME NEW j \in C
               PROVE  hist[p][q] < hist[p][j] \/ (hist[p][q] = hist[p][j] /\ q <= j)
      OBVIOUS
  <2>1. hist[p][j] \in Nat /\ h \in Nat /\ h <= hist[p][j]
        BY <1>1, <1>2, <1>6
  <2>2. hist[p][j] = h => q <= j
        BY <1>5
  <2> QED BY <1>7, <2>1, <2>2
<1> HIDE DEF I, J
<1>9. /\ Victim(p) \in C
      /\ \A j \in C : \/ hist[p][Victim(p)] < hist[p][j]
                      \/ hist[p][Victim(p)] = hist[p][j] /\ Victim(p) <= j
  <2>1. Victim(p) = CHOOSE v \in C :
           \A j \in C : hist[p][v] < hist[p][j] \/ (hist[p][v] = hist[p][j] /\ v <= j)
        BY DEF Victim, C
  <2> QED BY <1>7, <1>8, <2>1
<1>10. \A j \in C : hist[p][Victim(p)] <= hist[p][j]
      BY <1>1, <1>9
<1> QED BY <1>9, <1>10 DEF C

(* An entry that is used is one of the list.                               *)
LEMMA ReusableListed ==
    ASSUME NEW p, free \in Seq(Entries)
    PROVE  Reusable(p) \subseteq 1..Len(free)
<1>1. PICK c \in Nat : c = Len(free) /\ DOMAIN free = 1..c
      BY LenProperties
<1>2. ASSUME NEW S \in SUBSET (1..c), S # {}
      PROVE  First(S) \subseteq 1..c
  <2>1. PICK i \in S : \A j \in S : i <= j
    <3>1. S \subseteq Nat
          BY <1>2
    <3> QED BY <1>2, <3>1, LeastNumber
  <2>2. (CHOOSE k \in S : \A j \in S : k <= j) \in S
        BY <2>1
  <2> QED BY <2>2 DEF First
<1> DEFINE same == {i \in DOMAIN free : free[i].owner = p /\ free[i].page = Page}
           none == {i \in DOMAIN free : free[i].owner = -1}
           own  == {i \in DOMAIN free : free[i].owner = p}
<1>3. same \in SUBSET (1..c) /\ none \in SUBSET (1..c) /\ own \in SUBSET (1..c)
      BY <1>1
<1>4. Reusable(p) = IF same # {} THEN First(same)
                    ELSE IF none # {} THEN First(none)
                    ELSE IF own # {} THEN First(own) ELSE DOMAIN free
      BY DEF Reusable
<1> HIDE DEF same, none, own
<1> QED BY <1>1, <1>2, <1>3, <1>4

(* In the exchange the entry that is used gives way to one for the victim. *)
GivesWay(i, e, z) ==
    /\ z \in Seq(Entries) /\ Len(z) = Len(free)
    /\ \A k \in 1..Len(free) : z[k] = e \/ \E l \in 1..Len(free) : l # i /\ z[k] = free[l]
    /\ \A l \in 1..Len(free) : l # i => \E k \in 1..Len(free) : z[k] = free[l]
    /\ \E k \in 1..Len(free) : z[k] = e

LEMMA Exchanged ==
    ASSUME free \in Seq(Entries), NEW i \in 1..Len(free), NEW q \in Nat,
           search.pid \in Procs, table[search.pid][q] \in Frames
    PROVE  GivesWay(i, [frame |-> table[search.pid][q], owner |-> search.pid, page |-> q],
                    Exchange(i, q))
<1>0. PICK e, z : /\ e = [frame |-> table[search.pid][q], owner |-> search.pid, page |-> q]
                  /\ z = Exchange(i, q)
      OBVIOUS
<1>1. PICK c \in Nat : c = Len(free)
      BY LenProperties
<1>2. free \in [1..c -> Entries]
      BY <1>1, LenProperties
<1>3. e \in Entries
      BY <1>0 DEF Entries
<1>4. i \in 1..c /\ c \in 1..c
      BY <1>1
<1>5. /\ z \in [1..c -> Entries]
      /\ \A k \in 1..c : z[k] = e \/ \E l \in 1..c : l # i /\ z[k] = free[l]
      /\ \A l \in 1..c : l # i => \E k \in 1..c : z[k] = free[l]
      /\ \E k \in 1..c : z[k] = e
  <2>1. CASE Student
    <3>1. z = [free EXCEPT ![i] = free[c], ![c] = e]
          BY <1>0, <1>1, <2>1 DEF Exchange, Last
    <3>2. \A k \in 1..c : z[k] = IF k = c THEN e ELSE IF k = i THEN free[c] ELSE free[k]
          BY <1>2, <1>4, <3>1
    <3>3. z \in [1..c -> Entries]
          BY <1>2, <1>3, <1>4, <3>1
    <3>4. \A l \in 1..c : l # i => \E k \in 1..c : z[k] = free[l]
      <4> SUFFICES ASSUME NEW l \in 1..c, l # i PROVE \E k \in 1..c : z[k] = free[l]
          OBVIOUS
      <4>1. CASE l = c
        <5>1. z[i] = free[c]
              BY <1>4, <3>2, <4>1
        <5> QED BY <1>4, <4>1, <5>1
      <4>2. CASE l # c
            BY <3>2, <4>2
      <4> QED BY <4>1, <4>2
    <3>5. \A k \in 1..c : z[k] = e \/ \E l \in 1..c : l # i /\ z[k] = free[l]
      <4> SUFFICES ASSUME NEW k \in 1..c PROVE z[k] = e \/ \E l \in 1..c : l # i /\ z[k] = free[l]
          OBVIOUS
      <4>1. CASE k = c
            BY <3>2, <4>1
      <4>2. CASE k # c /\ k = i
        <5>1. z[k] = free[c] /\ c # i
              BY <3>2, <4>2
        <5> QED BY <1>4, <5>1
      <4>3. CASE k # c /\ k # i
            BY <3>2, <4>3
      <4> QED BY <4>1, <4>2, <4>3
    <3>6. z[c] = e
          BY <1>4, <3>2
    <3> QED BY <1>4, <3>3, <3>4, <3>5, <3>6
  <2>2. CASE ~Student
    <3>1. z = [free EXCEPT ![i] = e]
          BY <1>0, <2>2 DEF Exchange
    <3>2. \A k \in 1..c : z[k] = IF k = i THEN e ELSE free[k]
          BY <1>2, <1>4, <3>1
    <3>3. z \in [1..c -> Entries]
          BY <1>2, <1>3, <1>4, <3>1
    <3> QED BY <1>4, <3>2, <3>3
  <2> QED BY <2>1, <2>2
<1>6. z \in Seq(Entries) /\ Len(z) = c
      BY <1>5
<1>7. GivesWay(i, e, z)
      BY <1>1, <1>5, <1>6 DEF GivesWay
<1> QED BY <1>0, <1>7

(* A page is put into a frame.                                             *)
LEMMA Mapped ==
    ASSUME RInv, NEW p \in Procs, RFaults(p), NEW f \in Frames,
           NEW t \in [Pages(p) -> Frames \cup {NoFrame}],
           \A j \in Pages(p) : t[j] = table[p][j] \/ t[j] = NoFrame,
           Map(p, f, t), NEW g, g = Page
    PROVE  /\ p = search.pid /\ p \in Present
           /\ g \in Pages(p) /\ g >= Essential /\ table[p][g] = NoFrame
           /\ InRange' /\ Tables(table') /\ Present' = Present
           /\ table'[p][g] = f /\ \A j \in Pages(p) : j # g => table'[p][j] = t[j]
           /\ \A q \in Procs : q # p => table'[q] = table[q]
           /\ DOMAIN holds' = Frames /\ holds'[f] = <<p, g>>
           /\ \A x \in Frames : x # f => holds'[x] = holds[x]
           /\ \A q : Runs(q)' <=> Runs(q)
           /\ Aged' /\ UNCHANGED <<version, ready, count, stopped>>
<1>1. /\ search # NoSearch /\ ~Found(search) /\ p = search.pid /\ table[p][g] = NoFrame
      BY DEF RFaults, Reads
<1>2. /\ table' = [table EXCEPT ![p] = [t EXCEPT ![g] = f]]
      /\ hist' = [hist EXCEPT ![p][g] = Full]
      /\ holds' = [holds EXCEPT ![f] = <<p, g>>]
      /\ used' = [used EXCEPT ![p][g] = count[p]]
      /\ search' = Narrow(search)
      /\ UNCHANGED <<version, ready, count, stopped>>
      BY DEF Map
<1>3. RTypes /\ Aged
      BY DEF RInv
<1>4. /\ InRange' /\ search' # NoSearch /\ search'.pid = search.pid
      /\ \A q : Runs(q)' <=> Runs(q)
      /\ g \in Pages(p) /\ g >= Essential
      BY <1>1, <1>2, <1>3, GoesOn DEF RTypes
<1>5. p \in Present
      BY <1>1, RSearcher
<1>6. Present' = Present
      BY <1>2 DEF Present
<1>7. /\ DOMAIN table' = Procs /\ table'[p] = [t EXCEPT ![g] = f]
      /\ \A q \in Procs : q # p => table'[q] = table[q]
      BY <1>2, <1>3 DEF RTypes, Tables
<1>8. /\ table'[p] \in [Pages(p) -> Frames \cup {NoFrame}]
      /\ table'[p][g] = f /\ \A j \in Pages(p) : j # g => table'[p][j] = t[j]
      BY <1>4, <1>7
<1>9. Tables(table')
      BY <1>3, <1>7, <1>8 DEF RTypes, Tables
<1>10. /\ DOMAIN holds' = Frames /\ holds'[f] = <<p, g>>
       /\ \A x \in Frames : x # f => holds'[x] = holds[x]
      BY <1>2, <1>3 DEF RTypes
<1>11. Aged'
  <2>1. g \in DataPages(p) /\ DataPages(p) \subseteq Pages(p)
        BY <1>4, DataPagesOfIts
  <2>2. Full \in 0..Full /\ Fits(Full, 0)
        BY FullFits
  <2>3. count[p] \in Nat
        BY <1>3 DEF RTypes
  <2>4. DOMAIN hist' = Procs /\ DOMAIN used' = Procs
        BY <1>2, <1>3 DEF Aged
  <2>5. hist'[p] = [hist[p] EXCEPT ![g] = Full] /\ used'[p] = [used[p] EXCEPT ![g] = count[p]]
        BY <1>2, <1>3 DEF Aged
  <2>6. hist[p] \in [DataPages(p) -> 0..Full] /\ used[p] \in [DataPages(p) -> Nat]
        BY <1>3 DEF Aged
  <2>7. /\ hist'[p] \in [DataPages(p) -> 0..Full] /\ used'[p] \in [DataPages(p) -> Nat]
        /\ hist'[p][g] = Full /\ used'[p][g] = count[p]
        /\ \A j \in DataPages(p) : j # g => hist'[p][j] = hist[p][j] /\ used'[p][j] = used[p][j]
        BY <2>1, <2>2, <2>3, <2>5, <2>6
  <2>8. ASSUME NEW j \in DataPages(p)
        PROVE  /\ used'[p][j] <= count'[p]
               /\ table'[p][j] # NoFrame => Fits(hist'[p][j], count'[p] - used'[p][j])
    <3>1. CASE j = g
      <4>1. count[p] - count[p] = 0 /\ count[p] <= count[p]
            BY <2>3
      <4> QED BY <1>2, <2>2, <2>7, <3>1, <4>1
    <3>2. CASE j # g
      <4>1. j \in Pages(p) /\ (table'[p][j] # NoFrame => table[p][j] # NoFrame)
            BY <1>8, <2>1, <3>2
      <4> QED BY <1>2, <1>3, <2>7, <3>2, <4>1 DEF Aged
    <3> QED BY <3>1, <3>2
  <2>9. ASSUME NEW q \in Procs, q # p
        PROVE  hist'[q] = hist[q] /\ used'[q] = used[q] /\ table'[q] = table[q] /\ count'[q] = count[q]
        BY <1>2, <1>3, <1>7, <2>9 DEF Aged
  <2>10. ASSUME NEW q \in Procs
         PROVE  /\ hist'[q] \in [DataPages(q) -> 0..Full]
                /\ used'[q] \in [DataPages(q) -> Nat]
                /\ \A j \in DataPages(q) : used'[q][j] <= count'[q]
                /\ \A j \in DataPages(q) :
                     table'[q][j] # NoFrame => Fits(hist'[q][j], count'[q] - used'[q][j])
    <3>1. CASE q = p
          BY <2>7, <2>8, <3>1
    <3>2. CASE q # p
          BY <1>3, <2>9, <3>2 DEF Aged
    <3> QED BY <3>1, <3>2
  <2> QED BY <2>4, <2>10 DEF Aged
<1> QED BY <1>1, <1>2, <1>4, <1>5, <1>6, <1>7, <1>8, <1>9, <1>10, <1>11

-----------------------------------------------------------------------------
(* The steps *)

LEMMA RBeginStep ==
    ASSUME RInv, RBegin
    PROVE  RInv'
<1>1. PICK p : p = Head(ready)
      OBVIOUS
<1>2. PICK k \in {i \in Keys : i < size[p]} : search' = NewSearch(p, k)
      BY <1>1 DEF RBegin
<1>3. /\ search = NoSearch /\ ready # <<>> /\ ready' = Tail(ready)
      /\ UNCHANGED <<version, count, table, free, ref, hist, stopped, holds, used>>
      BY DEF RBegin
<1>4. RTypes /\ RLine
      BY DEF RInv
<1>5. /\ p \in Procs /\ ready' \in Seq(Procs)
      /\ \A x : In(ready, x) <=> (In(ready', x) \/ x = p)
      /\ Distinct(ready') /\ ~In(ready', p)
      BY <1>1, <1>3, <1>4, FromTheFront DEF RTypes, RLine
<1>6. InRange' /\ search' # NoSearch /\ search'.pid = p
      BY <1>2, <1>5, Begun
<1>7. Present' = Present
      BY <1>3 DEF Present
<1>8. RTypes'
  <2>1. Tables(table)'
        BY <1>3, <1>4 DEF RTypes, Tables
  <2> QED BY <1>3, <1>4, <1>5, <1>6, <2>1 DEF RTypes
<1>9. RLine'
  <2>1. \A q : Runs(q)' <=> q = p
        BY <1>6 DEF Runs
  <2>2. \A q \in Procs : In(ready', q) => ~Runs(q)' /\ q \in Present
        BY <1>4, <1>5, <2>1 DEF RLine
  <2>3. p \in Present
        BY <1>4, <1>5 DEF RLine
  <2> QED BY <1>5, <1>7, <2>1, <2>2, <2>3 DEF RLine, In, Distinct
<1>10. RTotal' /\ RCover' /\ Labels'
  <2>1. RTotal'
        BY <1>3, <1>7 DEF RInv, RTotal
  <2>2. RCover'
        BY <1>3, <1>7 DEF RInv, RCover
  <2>3. Labels'
        BY <1>3, <1>7 DEF RInv, Labels
  <2> QED BY <2>1, <2>2, <2>3
<1>11. Aged'
      BY <1>3 DEF RInv, Aged
<1> QED BY <1>8, <1>9, <1>10, <1>11 DEF RInv

LEMMA RHitStep ==
    ASSUME RInv, NEW p \in Procs, RHit(p)
    PROVE  RInv'
<1>1. /\ search # NoSearch /\ ~Found(search) /\ p = search.pid
      /\ ref' = [ref EXCEPT ![p] = @ \cup {Page}]
      /\ search' = Narrow(search)
      /\ UNCHANGED <<version, ready, count, table, free, hist, stopped, holds, used>>
      BY DEF RHit, Reads
<1>2. RTypes /\ RLine
      BY DEF RInv
<1>3. /\ InRange' /\ search' # NoSearch /\ search'.pid = search.pid
      /\ \A q : Runs(q)' <=> Runs(q)
      /\ Page \in Pages(search.pid)
      BY <1>1, <1>2, GoesOn DEF RTypes
<1>4. Present' = Present
      BY <1>1 DEF Present
<1>5. RTypes'
  <2>1. Tables(table)'
        BY <1>1, <1>2 DEF RTypes, Tables
  <2>2. DOMAIN ref' = Procs /\ \A q \in Procs : ref'[q] \subseteq Pages(q)
        BY <1>1, <1>2, <1>3 DEF RTypes
  <2> QED BY <1>1, <1>2, <1>3, <2>1, <2>2 DEF RTypes
<1>6. RLine'
      BY <1>1, <1>2, <1>3, <1>4 DEF RLine, In, Distinct
<1>7. RTotal' /\ RCover' /\ Labels'
  <2>1. RTotal'
        BY <1>1, <1>4 DEF RInv, RTotal
  <2>2. RCover'
        BY <1>1, <1>4 DEF RInv, RCover
  <2>3. Labels'
        BY <1>1, <1>4 DEF RInv, Labels
  <2> QED BY <2>1, <2>2, <2>3
<1>8. Aged'
      BY <1>1 DEF RInv, Aged
<1> QED BY <1>5, <1>6, <1>7, <1>8 DEF RInv

LEMMA RLoadPageStep ==
    ASSUME RInv, NEW p \in Procs, RLoadPage(p)
    PROVE  RInv'
<1>1. PICK g, f, t : g = Page /\ f = Last(free).frame /\ t = table[p]
      OBVIOUS
<1>2. /\ RFaults(p) /\ Map(p, f, t) /\ Len(free) > NFFMIN
      /\ free' = Front(free) /\ ref' = [ref EXCEPT ![p] = @ \cup {g}]
      BY <1>1 DEF RLoadPage
<1>3. RTypes /\ RLine
      BY DEF RInv
<1>4. PICK c \in Nat : c = Len(free) /\ c >= 1
  <2>1. Len(free) \in Nat /\ NFFMIN \in Nat
        BY <1>3, ReplacementAssumption, LenProperties DEF RTypes, ReplacementAssumption
  <2> QED BY <1>2, <2>1
<1>5. c \in 1..c /\ \A i \in 1..c : free[i] \in Entries
      BY <1>3, <1>4, ElementOfSeq DEF RTypes
<1>6. /\ free' \in Seq(Entries) /\ Len(free') = c - 1
      /\ \A i \in 1..c - 1 : free'[i] = free[i]
  <2>1. free' = SubSeq(free, 1, c - 1)
        BY <1>2, <1>4 DEF Front
  <2>2. SubSeq(free, 1, c - 1) = [i \in 1..c - 1 |-> free[i]]
        BY <1>4
  <2>3. [i \in 1..c - 1 |-> free[i]] \in [1..c - 1 -> Entries] /\ c - 1 \in Nat
        BY <1>4, <1>5
  <2> QED BY <2>1, <2>2, <2>3
<1>7. f = free[c].frame /\ f \in Frames
      BY <1>1, <1>4, <1>5 DEF Last, Entries
<1>8. t \in [Pages(p) -> Frames \cup {NoFrame}]
      BY <1>1, <1>3 DEF RTypes, Tables
<1>9. /\ p = search.pid /\ p \in Present
      /\ g \in Pages(p) /\ g >= Essential /\ table[p][g] = NoFrame
      /\ InRange' /\ Tables(table') /\ Present' = Present
      /\ table'[p][g] = f /\ \A j \in Pages(p) : j # g => table'[p][j] = t[j]
      /\ \A q \in Procs : q # p => table'[q] = table[q]
      /\ DOMAIN holds' = Frames /\ holds'[f] = <<p, g>>
      /\ \A x \in Frames : x # f => holds'[x] = holds[x]
      /\ \A q : Runs(q)' <=> Runs(q)
      /\ Aged' /\ UNCHANGED <<version, ready, count, stopped>>
      BY <1>1, <1>2, <1>7, <1>8, Mapped
<1>10. f # NoFrame /\ Tables(table) /\ Present \in SUBSET Procs
      BY <1>3, <1>7 DEF Frames, NoFrame, RTypes, Present
<1>11. RTypes'
  <2>1. Tables(table)'
        BY <1>9 DEF Tables
  <2>2. DOMAIN ref' = Procs /\ \A q \in Procs : ref'[q] \subseteq Pages(q)
        BY <1>2, <1>3, <1>9 DEF RTypes
  <2> QED BY <1>3, <1>6, <1>9, <2>1, <2>2 DEF RTypes
<1>12. RLine'
      BY <1>3, <1>9 DEF RLine, In, Distinct
(* What was loaded still is, and the page besides.                         *)
<1>13. ASSUME NEW q \in Procs, NEW j \in Loaded(table[q])
       PROVE  j \in Loaded(table'[q]) /\ table'[q][j] = table[q][j]
  <2>1. j \in Pages(q) /\ table[q][j] # NoFrame
        BY <1>10, LoadedFinite
  <2>2. table'[q][j] = table[q][j]
        BY <1>1, <1>9, <2>1
  <2>3. Loaded(table'[q]) = {i \in Pages(q) : table'[q][i] # NoFrame}
        BY <1>9, LoadedFinite
  <2> QED BY <2>1, <2>2, <2>3
<1>14. ASSUME NEW q \in Procs, NEW j \in Loaded(table'[q])
       PROVE  (q = p /\ j = g) \/ (j \in Loaded(table[q]) /\ table'[q][j] = table[q][j])
  <2>1. j \in Pages(q) /\ table'[q][j] # NoFrame
        BY <1>9, LoadedFinite
  <2>2. Loaded(table[q]) = {i \in Pages(q) : table[q][i] # NoFrame}
        BY <1>10, LoadedFinite
  <2> QED BY <1>1, <1>9, <2>1, <2>2
<1>15. g \in Loaded(table'[p])
  <2>1. Loaded(table'[p]) = {i \in Pages(p) : table'[p][i] # NoFrame}
        BY <1>9, LoadedFinite
  <2> QED BY <1>9, <1>10, <2>1
<1>16. RTotal'
  <2>1. Cardinality(Owned(Present, table')) = Cardinality(Owned(Present, table)) + 1
    <3>1. \A i \in Pages(p) : i # g => table'[p][i] = table[p][i]
          BY <1>1, <1>9
    <3>2. table'[p][g] # NoFrame
          BY <1>9, <1>10
    <3> QED BY <1>9, <1>10, <3>1, <3>2, OwnedLoad
  <2>2. Cardinality(Owned(Present, table)) \in Nat
        BY <1>10, OwnedFinite
  <2>3. Cardinality(Owned(Present, table)) + c = NFRAMES
        BY <1>4 DEF RInv, RTotal
  <2>4. Present' = Present /\ Len(free') = c - 1
        BY <1>6, <1>9
  <2>5. Cardinality(Owned(Present, table')) + (c - 1) = NFRAMES
        BY <2>1, <2>2, <2>3
  <2> QED BY <2>4, <2>5 DEF RTotal
<1>17. RCover'
  <2> SUFFICES ASSUME NEW x \in Frames
               PROVE  \/ \E i \in 1..Len(free') : free'[i].frame = x
                      \/ \E q \in Present : \E j \in Loaded(table'[q]) : table'[q][j] = x
      BY <1>9 DEF RCover
  <2>1. CASE \E i \in 1..c : free[i].frame = x
    <3>1. PICK i \in 1..c : free[i].frame = x
          BY <2>1
    <3>2. CASE i = c
          BY <1>7, <1>9, <1>15, <3>1, <3>2
    <3>3. CASE i # c
      <4>1. i \in 1..c - 1
            BY <3>3
      <4> QED BY <1>6, <3>1, <4>1
    <3> QED BY <3>2, <3>3
  <2>2. CASE \E q \in Present : \E j \in Loaded(table[q]) : table[q][j] = x
        BY <1>10, <1>13, <2>2
  <2> QED BY <1>4, <2>1, <2>2 DEF RInv, RCover
<1>18. Labels'
  <2>0. RTotal /\ RCover /\ Labels
        BY DEF RInv
  <2>1. ASSUME NEW i \in 1..c - 1, free[i].page # -1
        PROVE  holds'[free[i].frame] = <<free[i].owner, free[i].page>>
    <3>1. i \in 1..c /\ i # c
          BY <1>4
    <3>2. free[i].frame # f
          BY <1>3, <1>4, <1>5, <1>7, <2>0, <3>1, InOnePlace
    <3>3. free[i].frame \in Frames
          BY <1>5, <3>1 DEF Entries
    <3>4. holds[free[i].frame] = <<free[i].owner, free[i].page>>
          BY <1>4, <2>0, <2>1, <3>1 DEF Labels
    <3> QED BY <1>9, <3>2, <3>3, <3>4
  <2>2. ASSUME NEW q \in Present, NEW j \in Loaded(table'[q]), j >= Essential
        PROVE  holds'[table'[q][j]] = <<q, j>>
    <3>1. CASE q = p /\ j = g
          BY <1>9, <3>1
    <3>2. CASE j \in Loaded(table[q]) /\ table'[q][j] = table[q][j]
      <4>1. f # table[q][j]
            BY <1>3, <1>4, <1>5, <1>7, <2>0, <3>2, InOnePlace
      <4>2. table[q][j] \in Frames
        <5>1. j \in Pages(q) /\ table[q][j] # NoFrame /\ q \in Procs
              BY <1>10, <3>2, LoadedFinite
        <5> QED BY <1>10, <5>1 DEF Tables
      <4>3. holds[table[q][j]] = <<q, j>>
            BY <2>0, <2>2, <3>2 DEF Labels
      <4> QED BY <1>9, <3>2, <4>1, <4>2, <4>3
    <3> QED BY <1>10, <1>14, <3>1, <3>2
  <2>3. \A i \in 1..Len(free') : free'[i].page # -1 =>
           holds'[free'[i].frame] = <<free'[i].owner, free'[i].page>>
        BY <1>6, <2>1
  <2> QED BY <1>9, <2>2, <2>3 DEF Labels
<1> QED BY <1>9, <1>11, <1>12, <1>16, <1>17, <1>18 DEF RInv

(* What Replace does: page g of p takes the place of page q.               *)
LEMMA Replaced ==
    ASSUME RInv, NEW p \in Procs, Replace(p)
    PROVE  \E g, q \in Pages(p) : \E i \in 1..Len(free) :
              /\ g = Page /\ q = Victim(p) /\ q \in Candidates(p)
              /\ q \in Loaded(table[p]) /\ q >= Essential /\ g # q
              /\ table[p][q] \in Frames
              /\ Map(p, free[i].frame, [table[p] EXCEPT ![q] = NoFrame])
              /\ RFaults(p) /\ p = search.pid /\ free' = Exchange(i, q)
<1>1. PICK g, q : g = Page /\ q = Victim(p)
      OBVIOUS
<1>2. /\ RFaults(p) /\ Candidates(p) # {} /\ p = search.pid /\ search # NoSearch
      /\ ~Found(search) /\ table[p][g] = NoFrame
      BY <1>1 DEF Replace, RFaults, Reads
<1>3. Tables(table) /\ free \in Seq(Entries)
      BY DEF RInv, RTypes
<1>4. PICK i \in Reusable(p) :
         /\ Map(p, free[i].frame, [table[p] EXCEPT ![q] = NoFrame])
         /\ free' = Exchange(i, q)
      BY <1>1 DEF Replace
<1>5. i \in 1..Len(free)
      BY <1>3, <1>4, ReusableListed
<1>6. q \in Candidates(p) /\ q \in Loaded(table[p]) /\ q \in DataPages(p)
  <2>1. q \in Candidates(p)
        BY <1>1, <1>2, VictimLeast
  <2> QED BY <2>1 DEF Candidates
<1>7. q \in Pages(p) /\ q >= Essential
      BY <1>6, DataPagesOfIts
<1>8. table[p][q] # NoFrame
      BY <1>6 DEF Loaded
<1>9. table[p][q] \in Frames
      BY <1>3, <1>7, <1>8 DEF Tables
<1>10. g \in Pages(p)
  <2>1. search' = Narrow(search)
        BY <1>4 DEF Map
  <2>2. InRange
        BY DEF RInv, RTypes
  <2> QED BY <1>1, <1>2, <2>1, <2>2, GoesOn
<1> QED BY <1>1, <1>2, <1>4, <1>5, <1>6, <1>7, <1>8, <1>9, <1>10

LEMMA ReplaceStep ==
    ASSUME RInv, NEW p \in Procs, Replace(p)
    PROVE  RInv'
<1>1. PICK g \in Pages(p), q \in Pages(p), i \in 1..Len(free) :
              /\ g = Page /\ q = Victim(p) /\ q \in Candidates(p)
              /\ q \in Loaded(table[p]) /\ q >= Essential /\ g # q
              /\ table[p][q] \in Frames
              /\ Map(p, free[i].frame, [table[p] EXCEPT ![q] = NoFrame])
              /\ RFaults(p) /\ p = search.pid /\ free' = Exchange(i, q)
      BY Replaced
<1>2. PICK f, t, e, x0 : /\ f = free[i].frame /\ t = [table[p] EXCEPT ![q] = NoFrame]
                         /\ x0 = table[p][q]
                         /\ e = [frame |-> x0, owner |-> p, page |-> q]
      OBVIOUS
<1>3. RTypes /\ RLine /\ RTotal /\ RCover /\ Labels
      BY DEF RInv
<1>4. Tables(table) /\ free \in Seq(Entries) /\ Present \in SUBSET Procs
      BY <1>3 DEF RTypes, Present
<1>5. PICK c \in Nat : c = Len(free)
      BY <1>4, LenProperties
<1>6. i \in 1..c /\ \A k \in 1..c : free[k] \in Entries
      BY <1>1, <1>4, <1>5, ElementOfSeq
<1>7. f \in Frames
      BY <1>2, <1>6 DEF Entries
<1>8. /\ t \in [Pages(p) -> Frames \cup {NoFrame}]
      /\ t[q] = NoFrame /\ \A j \in Pages(p) : j # q => t[j] = table[p][j]
  <2>1. table[p] \in [Pages(p) -> Frames \cup {NoFrame}]
        BY <1>4 DEF Tables
  <2> QED BY <1>1, <1>2, <2>1
<1>9. /\ p = search.pid /\ p \in Present
      /\ g \in Pages(p) /\ g >= Essential /\ table[p][g] = NoFrame
      /\ InRange' /\ Tables(table') /\ Present' = Present
      /\ table'[p][g] = f /\ \A j \in Pages(p) : j # g => table'[p][j] = t[j]
      /\ \A r \in Procs : r # p => table'[r] = table[r]
      /\ DOMAIN holds' = Frames /\ holds'[f] = <<p, g>>
      /\ \A x \in Frames : x # f => holds'[x] = holds[x]
      /\ \A r : Runs(r)' <=> Runs(r)
      /\ Aged' /\ UNCHANGED <<version, ready, count, stopped>>
  <2>1. \A j \in Pages(p) : t[j] = table[p][j] \/ t[j] = NoFrame
        BY <1>8
  <2>2. Map(p, f, t) /\ RFaults(p)
        BY <1>1, <1>2
  <2> QED BY <1>1, <1>7, <1>8, <2>1, <2>2, Mapped
<1>10. /\ free' \in Seq(Entries) /\ Len(free') = c
       /\ \A k \in 1..c : free'[k] = e \/ \E l \in 1..c : l # i /\ free'[k] = free[l]
       /\ \A l \in 1..c : l # i => \E k \in 1..c : free'[k] = free[l]
       /\ \E k \in 1..c : free'[k] = e
  <2>1. PICK z : z = free' /\ z = Exchange(i, q)
        BY <1>1
  <2>2. q \in Nat
        BY <1>1, PagesFinite
  <2>3. e = [frame |-> table[search.pid][q], owner |-> search.pid, page |-> q]
        /\ search.pid \in Procs /\ table[search.pid][q] \in Frames
        BY <1>1, <1>2
  <2>4. free \in Seq(Entries) /\ i \in 1..Len(free)
        BY <1>4, <1>5, <1>6
  <2>5. z = Exchange(i, q)
        BY <2>1
  <2>6. GivesWay(i, e, z)
        BY <2>2, <2>3, <2>4, <2>5, Exchanged
  <2>7. GivesWay(i, e, free')
        BY <2>1, <2>6
  <2> QED BY <1>5, <2>7 DEF GivesWay
<1>11. f # NoFrame /\ x0 # NoFrame /\ x0 \in Frames
      BY <1>1, <1>2, <1>7 DEF Frames, NoFrame
<1>12. \A r \in Procs : /\ Loaded(table[r]) = {j \in Pages(r) : table[r][j] # NoFrame}
                        /\ Loaded(table'[r]) = {j \in Pages(r) : table'[r][j] # NoFrame}
      BY <1>4, <1>9, LoadedFinite
<1>13. RTypes'
  <2>1. Tables(table)'
        BY <1>9 DEF Tables
  <2>2. DOMAIN ref' = Procs /\ \A r \in Procs : ref'[r] \subseteq Pages(r)
    <3>1. ref' = [ref EXCEPT ![p] = (@ \ {q}) \cup {g}]
          BY <1>1 DEF Replace
    <3> QED BY <1>1, <1>3, <3>1 DEF RTypes
  <2> QED BY <1>3, <1>9, <1>10, <2>1, <2>2 DEF RTypes
<1>14. RLine'
      BY <1>3, <1>9 DEF RLine, In, Distinct
(* The page that was loaded is loaded no more, all others still are.       *)
<1>15. ASSUME NEW r \in Procs, NEW j \in Loaded(table[r]), r # p \/ j # q
       PROVE  j \in Loaded(table'[r]) /\ table'[r][j] = table[r][j]
  <2>1. j \in Pages(r) /\ table[r][j] # NoFrame
        BY <1>12
  <2>2. table'[r][j] = table[r][j]
    <3>1. CASE r # p
          BY <1>9, <3>1
    <3>2. CASE r = p
          BY <1>8, <1>9, <1>15, <2>1, <3>2
    <3> QED BY <3>1, <3>2
  <2> QED BY <1>12, <2>1, <2>2
<1>16. ASSUME NEW r \in Procs, NEW j \in Loaded(table'[r])
       PROVE  (r = p /\ j = g) \/ (j \in Loaded(table[r]) /\ table'[r][j] = table[r][j])
  <2>1. j \in Pages(r) /\ table'[r][j] # NoFrame
        BY <1>12
  <2>2. CASE r # p
        BY <1>9, <1>12, <2>1, <2>2
  <2>3. CASE r = p /\ j # g
    <3>1. table'[p][j] = t[j]
          BY <1>9, <2>1, <2>3
    <3>2. t[j] = table[p][j]
          BY <1>8, <2>1, <2>3, <3>1
    <3> QED BY <1>12, <2>1, <2>3, <3>1, <3>2
  <2> QED BY <2>2, <2>3
<1>17. g \in Loaded(table'[p])
      BY <1>9, <1>11, <1>12
<1>18. RTotal'
  <2>1. PICK z : z = [table EXCEPT ![p] = t]
        OBVIOUS
  <2>2. DOMAIN z = Procs /\ z[p] = t /\ \A r \in Procs : r # p => z[r] = table[r]
        BY <1>4, <2>1 DEF Tables
  <2>3. Tables(z)
        BY <1>4, <1>8, <2>2 DEF Tables
  <2>4. Cardinality(Owned(Present, table)) = Cardinality(Owned(Present, z)) + 1
    <3>1. /\ z[p][q] = NoFrame /\ table[p][q] # NoFrame
          /\ \A j \in Pages(p) : j # q => table[p][j] = z[p][j]
          /\ \A r \in Procs : r # p => table[r] = z[r]
          BY <1>2, <1>8, <1>11, <2>2
    <3>2. Tables(table) /\ Present \in SUBSET Procs /\ p \in Present /\ q \in Pages(p)
          BY <1>4, <1>9
    <3> QED BY <2>3, <3>1, <3>2, OwnedLoad
  <2>5. Cardinality(Owned(Present, table')) = Cardinality(Owned(Present, z)) + 1
    <3>1. /\ z[p][g] = NoFrame /\ table'[p][g] # NoFrame
          /\ \A j \in Pages(p) : j # g => table'[p][j] = z[p][j]
          /\ \A r \in Procs : r # p => table'[r] = z[r]
      <4>1. z[p][g] = NoFrame
            BY <1>1, <1>8, <1>9, <2>2
      <4> QED BY <1>9, <1>11, <2>2, <4>1
    <3>2. Tables(table') /\ Present \in SUBSET Procs /\ p \in Present /\ g \in Pages(p)
          BY <1>4, <1>9
    <3> QED BY <2>3, <3>1, <3>2, OwnedLoad
  <2>6. Cardinality(Owned(Present, table')) = Cardinality(Owned(Present, table))
        BY <2>4, <2>5
  <2> QED BY <1>3, <1>5, <1>9, <1>10, <2>6 DEF RTotal
<1>19. RCover'
  <2> SUFFICES ASSUME NEW x \in Frames
               PROVE  \/ \E k \in 1..Len(free') : free'[k].frame = x
                      \/ \E r \in Present : \E j \in Loaded(table'[r]) : table'[r][j] = x
      BY <1>9 DEF RCover
  <2>1. CASE \E k \in 1..c : free[k].frame = x
    <3>1. PICK l \in 1..c : free[l].frame = x
          BY <2>1
    <3>2. CASE l = i
          BY <1>2, <1>9, <1>17, <3>1, <3>2
    <3>3. CASE l # i
          BY <1>10, <3>1, <3>3
    <3> QED BY <3>2, <3>3
  <2>2. ASSUME NEW r \in Present, NEW j \in Loaded(table[r]), table[r][j] = x
        PROVE  \/ \E k \in 1..Len(free') : free'[k].frame = x
               \/ \E r2 \in Present : \E j2 \in Loaded(table'[r2]) : table'[r2][j2] = x
    <3>1. CASE r # p \/ j # q
          BY <1>4, <1>15, <2>2, <3>1
    <3>2. CASE r = p /\ j = q
      <4>1. e.frame = x
            BY <1>2, <2>2, <3>2
      <4> QED BY <1>10, <4>1
    <3> QED BY <3>1, <3>2
  <2> QED BY <1>3, <1>5, <2>1, <2>2 DEF RCover
<1>20. Labels'
  <2>0. /\ \A k, l \in 1..c : free[k].frame = free[l].frame => k = l
        /\ \A k \in 1..c : \A r \in Present : \A j \in Loaded(table[r]) :
              free[k].frame # table[r][j]
        BY <1>3, <1>5, InOnePlace
  <2>1. ASSUME NEW k \in 1..c, free'[k].page # -1
        PROVE  holds'[free'[k].frame] = <<free'[k].owner, free'[k].page>>
    <3>1. CASE free'[k] = e
      <4>1. f # x0
            BY <1>1, <1>2, <1>6, <1>9, <2>0
      <4>2. holds[x0] = <<p, q>>
            BY <1>1, <1>2, <1>3, <1>9 DEF Labels
      <4>3. holds'[x0] = <<p, q>>
            BY <1>9, <1>11, <4>1, <4>2
      <4> QED BY <1>2, <3>1, <4>3
    <3>2. ASSUME NEW l \in 1..c, l # i, free'[k] = free[l]
          PROVE  holds'[free'[k].frame] = <<free'[k].owner, free'[k].page>>
      <4>1. free[l].frame # f /\ free[l].frame \in Frames
            BY <1>2, <1>6, <2>0, <3>2 DEF Entries
      <4>2. holds[free[l].frame] = <<free[l].owner, free[l].page>>
            BY <1>3, <1>5, <2>1, <3>2 DEF Labels
      <4> QED BY <1>9, <3>2, <4>1, <4>2
    <3> QED BY <1>10, <3>1, <3>2
  <2>2. ASSUME NEW r \in Present, NEW j \in Loaded(table'[r]), j >= Essential
        PROVE  holds'[table'[r][j]] = <<r, j>>
    <3>1. CASE r = p /\ j = g
          BY <1>9, <3>1
    <3>2. CASE j \in Loaded(table[r]) /\ table'[r][j] = table[r][j]
      <4>1. f # table[r][j]
            BY <1>2, <1>6, <2>0, <3>2
      <4>2. table[r][j] \in Frames
        <5>1. j \in Pages(r) /\ table[r][j] # NoFrame /\ r \in Procs
              BY <1>4, <1>12, <3>2
        <5> QED BY <1>4, <5>1 DEF Tables
      <4>3. holds[table[r][j]] = <<r, j>>
            BY <1>3, <2>2, <3>2 DEF Labels
      <4> QED BY <1>9, <3>2, <4>1, <4>2, <4>3
    <3> QED BY <1>4, <1>16, <3>1, <3>2
  <2> QED BY <1>9, <1>10, <2>1, <2>2 DEF Labels
<1> QED BY <1>9, <1>13, <1>14, <1>18, <1>19, <1>20 DEF RInv

LEMMA NoVictimStep ==
    ASSUME RInv, NEW p \in Procs, NoVictim(p)
    PROVE  RInv'
<1>1. /\ stopped' = stopped \cup {p} /\ search' = NoSearch
      /\ UNCHANGED <<version, ready, count, table, free, ref, hist, holds, used>>
      BY DEF NoVictim
<1>2. RTypes /\ RLine
      BY DEF RInv
<1>3. Present' = Present
      BY <1>1 DEF Present
<1>4. RTypes'
  <2>1. Tables(table)'
        BY <1>1, <1>2 DEF RTypes, Tables
  <2>2. InRange'
        BY <1>1 DEF InRange
  <2> QED BY <1>1, <1>2, <2>1, <2>2 DEF RTypes
<1>5. RLine'
  <2>1. \A q : ~Runs(q)'
        BY <1>1 DEF Runs
  <2> QED BY <1>1, <1>2, <1>3, <2>1 DEF RLine, In, Distinct
<1>6. RTotal' /\ RCover' /\ Labels'
  <2>1. RTotal'
        BY <1>1, <1>3 DEF RInv, RTotal
  <2>2. RCover'
        BY <1>1, <1>3 DEF RInv, RCover
  <2>3. Labels'
        BY <1>1, <1>3 DEF RInv, Labels
  <2> QED BY <2>1, <2>2, <2>3
<1>7. Aged'
      BY <1>1 DEF RInv, Aged
<1> QED BY <1>4, <1>5, <1>6, <1>7 DEF RInv

(* A search that has found its key: its process is not queued, and the     *)
(* histories of its pages are one search older.                            *)
LEMMA RCompletes ==
    ASSUME RInv, NEW p \in Procs, RComplete(p)
    PROVE  /\ p \in Present /\ ~In(ready, p) /\ \A q : ~Runs(q)'
           /\ InRange' /\ UNCHANGED <<version, stopped, holds>>
           /\ count' \in [Procs -> 0..m] /\ count'[p] = count[p] + 1
           /\ \A q \in Procs : q # p => count'[q] = count[q]
           /\ DOMAIN ref' = Procs /\ \A q \in Procs : ref'[q] \subseteq Pages(q)
           /\ (\A q \in Procs : \A j \in DataPages(q) :
                  table'[q][j] # NoFrame => table[q][j] # NoFrame) => Aged'
<1>1. /\ search # NoSearch /\ p = search.pid /\ search' = NoSearch
      /\ hist' = [hist EXCEPT ![p] = Shifted(p)]
      /\ used' = [used EXCEPT ![p] = [j \in DataPages(p) |->
                     IF j \in ref[p] THEN count[p] + 1 ELSE used[p][j]]]
      /\ ref' = [ref EXCEPT ![p] = {}]
      /\ count' = [count EXCEPT ![p] = @ + 1]
      /\ UNCHANGED <<version, stopped, holds>>
      BY DEF RComplete
<1>2. RTypes /\ Aged
      BY DEF RInv
<1>3. p \in Present /\ ~In(ready, p)
      BY <1>1, RSearcher
<1>4. (\A q : ~Runs(q)') /\ InRange'
      BY <1>1 DEF Runs, InRange
<1>5. /\ count' \in [Procs -> 0..m] /\ count'[p] = count[p] + 1
      /\ \A q \in Procs : q # p => count'[q] = count[q]
  <2>1. count \in [Procs -> 0..m] /\ m \in Nat
        BY <1>2, SearchAssumption DEF RTypes, SearchAssumption
  <2>2. count[p] + 1 \in 0..m
        BY <1>3, <2>1 DEF Present
  <2> QED BY <1>1, <2>1, <2>2
<1>6. DOMAIN ref' = Procs /\ \A q \in Procs : ref'[q] \subseteq Pages(q)
      BY <1>1, <1>2 DEF RTypes
<1>7. PICK a \in Nat : a = count[p]
      BY <1>2 DEF RTypes
<1>8. ASSUME NEW j \in DataPages(p)
      PROVE  /\ hist[p][j] \in 0..Full /\ used[p][j] \in Nat /\ used[p][j] <= a
             /\ table[p][j] # NoFrame => Fits(hist[p][j], a - used[p][j])
      BY <1>2, <1>7 DEF Aged
<1>9. ASSUME NEW j \in DataPages(p)
      PROVE  /\ Shifted(p)[j] \in 0..Full
             /\ table[p][j] # NoFrame =>
                   Fits(Shifted(p)[j], IF j \in ref[p] THEN 0 ELSE (a - used[p][j]) + 1)
  <2>1. Shifted(p)[j] = IF table[p][j] = NoFrame THEN hist[p][j]
                        ELSE hist[p][j] \div 2 + IF j \in ref[p] THEN Bit[HistoryBits - 1] ELSE 0
        BY DEF Shifted
  <2>2. CASE table[p][j] = NoFrame
        BY <1>8, <2>1, <2>2
  <2>3. CASE table[p][j] # NoFrame
    <3>1. PICK h \in 0..Full, b \in Nat : /\ h = hist[p][j] /\ b = a - used[p][j]
                                          /\ Fits(h, b)
      <4>1. a - used[p][j] \in Nat
            BY <1>8
      <4> QED BY <1>8, <2>3, <4>1
    <3>2. /\ h \div 2 \in 0..Full /\ Fits(h \div 2, b + 1)
          /\ h \div 2 + Bit[HistoryBits - 1] \in 0..Full
          /\ Fits(h \div 2 + Bit[HistoryBits - 1], 0)
          BY <3>1, ShiftFits
    <3>3. CASE j \in ref[p]
      <4>1. Shifted(p)[j] = h \div 2 + Bit[HistoryBits - 1]
            BY <2>1, <2>3, <3>1, <3>3
      <4> QED BY <3>2, <3>3, <4>1
    <3>4. CASE j \notin ref[p]
      <4>1. h \div 2 + 0 = h \div 2
            BY <3>2, FullFits
      <4>2. Shifted(p)[j] = h \div 2
            BY <2>1, <2>3, <3>1, <3>4, <4>1
      <4> QED BY <3>1, <3>2, <3>4, <4>2
    <3> QED BY <3>3, <3>4
  <2> QED BY <2>2, <2>3
<1>10. /\ DOMAIN hist' = Procs /\ hist'[p] = Shifted(p)
       /\ \A q \in Procs : q # p => hist'[q] = hist[q]
       /\ DOMAIN used' = Procs
       /\ used'[p] = [j \in DataPages(p) |-> IF j \in ref[p] THEN a + 1 ELSE used[p][j]]
       /\ \A q \in Procs : q # p => used'[q] = used[q]
  <2>1. DOMAIN hist = Procs /\ DOMAIN used = Procs
        BY <1>2 DEF Aged
  <2>2. /\ DOMAIN hist' = Procs /\ hist'[p] = Shifted(p)
        /\ \A q \in Procs : q # p => hist'[q] = hist[q]
        BY <1>1, <2>1
  <2> QED BY <1>1, <1>7, <2>1, <2>2
<1>11. ASSUME \A q \in Procs : \A j \in DataPages(q) :
                 table'[q][j] # NoFrame => table[q][j] # NoFrame,
              NEW q \in Procs
       PROVE  /\ hist'[q] \in [DataPages(q) -> 0..Full]
              /\ used'[q] \in [DataPages(q) -> Nat]
              /\ \A j \in DataPages(q) : used'[q][j] <= count'[q]
              /\ \A j \in DataPages(q) :
                    table'[q][j] # NoFrame => Fits(hist'[q][j], count'[q] - used'[q][j])
  <2>1. CASE q # p
        BY <1>2, <1>5, <1>10, <1>11, <2>1 DEF Aged
  <2>2. CASE q = p
    <3>1. hist'[p] \in [DataPages(p) -> 0..Full]
      <4>1. Shifted(p) = [j \in DataPages(p) |-> Shifted(p)[j]]
            BY DEF Shifted
      <4> QED BY <1>9, <1>10, <4>1
    <3>2. \A j \in DataPages(p) : used'[p][j] = IF j \in ref[p] THEN a + 1 ELSE used[p][j]
          BY <1>10
    <3>3. \A j \in DataPages(p) : used'[p][j] \in Nat /\ used'[p][j] <= a + 1
          BY <1>8, <3>2
    <3>4. used'[p] \in [DataPages(p) -> Nat]
          BY <1>10, <3>3
    <3>5. count'[p] = a + 1
          BY <1>5, <1>7
    <3>6. ASSUME NEW j \in DataPages(p), table'[p][j] # NoFrame
          PROVE  Fits(hist'[p][j], count'[p] - used'[p][j])
      <4>1. table[p][j] # NoFrame /\ hist'[p][j] = Shifted(p)[j]
            BY <1>10, <1>11, <3>6
      <4>2. CASE j \in ref[p]
        <5>1. count'[p] - used'[p][j] = 0
              BY <3>2, <3>5, <4>2
        <5> QED BY <1>9, <4>1, <4>2, <5>1
      <4>3. CASE j \notin ref[p]
        <5>1. count'[p] - used'[p][j] = (a - used[p][j]) + 1
              BY <1>8, <3>2, <3>5, <4>3
        <5> QED BY <1>9, <4>1, <4>3, <5>1
      <4> QED BY <4>2, <4>3
    <3> QED BY <2>2, <3>1, <3>3, <3>4, <3>5, <3>6
  <2> QED BY <2>1, <2>2
<1>12. (\A q \in Procs : \A j \in DataPages(q) :
           table'[q][j] # NoFrame => table[q][j] # NoFrame) => Aged'
      BY <1>10, <1>11 DEF Aged
<1> QED BY <1>1, <1>3, <1>4, <1>5, <1>6, <1>12

LEMMA RFinishSearchStep ==
    ASSUME RInv, NEW p \in Procs, RFinishSearch(p)
    PROVE  RInv'
<1>1. /\ RComplete(p) /\ count'[p] < m /\ ready' = Append(ready, p)
      /\ UNCHANGED <<table, free>>
      BY DEF RFinishSearch
<1>2. /\ p \in Present /\ ~In(ready, p) /\ \A q : ~Runs(q)'
      /\ InRange' /\ UNCHANGED <<version, stopped, holds>>
      /\ count' \in [Procs -> 0..m] /\ count'[p] = count[p] + 1
      /\ \A q \in Procs : q # p => count'[q] = count[q]
      /\ DOMAIN ref' = Procs /\ \A q \in Procs : ref'[q] \subseteq Pages(q)
      /\ (\A q \in Procs : \A j \in DataPages(q) :
             table'[q][j] # NoFrame => table[q][j] # NoFrame) => Aged'
      BY <1>1, RCompletes
<1>3. RTypes /\ RLine
      BY DEF RInv
<1>4. Present' = Present
      BY <1>1, <1>2 DEF Present
<1>5. /\ ready' \in Seq(Procs)
      /\ \A x : In(ready', x) <=> (In(ready, x) \/ x = p)
      /\ Distinct(ready')
      BY <1>1, <1>2, <1>3, AtTheEnd DEF RTypes, RLine
<1>6. RTypes'
  <2>1. Tables(table)'
        BY <1>1, <1>3 DEF RTypes, Tables
  <2> QED BY <1>1, <1>2, <1>3, <1>5, <2>1 DEF RTypes
<1>7. RLine'
      BY <1>2, <1>3, <1>4, <1>5 DEF RLine
<1>8. RTotal' /\ RCover' /\ Labels'
  <2>1. RTotal'
        BY <1>1, <1>4 DEF RInv, RTotal
  <2>2. RCover'
        BY <1>1, <1>4 DEF RInv, RCover
  <2>3. Labels'
        BY <1>1, <1>2, <1>4 DEF RInv, Labels
  <2> QED BY <2>1, <2>2, <2>3
<1>9. Aged'
      BY <1>1, <1>2
<1> QED BY <1>6, <1>7, <1>8, <1>9 DEF RInv

(* The entries for the frames of a process that ends: they say nothing.    *)
GivenBack(p) ==
    LET pages == LoadedInOrder(table[p])
    IN  [i \in DOMAIN pages |-> NoOwner(table[p][pages[i]])]

LEMMA EntriesReleased ==
    ASSUME Tables(table), NEW p \in Procs
    PROVE  /\ GivenBack(p) \in Seq(Entries)
           /\ Len(GivenBack(p)) = Cardinality(Loaded(table[p]))
           /\ \A i \in 1..Len(GivenBack(p)) : GivenBack(p)[i].page = -1
           /\ \A j \in Loaded(table[p]) :
                 \E i \in 1..Len(GivenBack(p)) : GivenBack(p)[i].frame = table[p][j]
<1> DEFINE L == Loaded(table[p])
           s == LoadedInOrder(table[p])
<1>1. PICK c \in Nat : /\ c = Cardinality(L) /\ L = {j \in Pages(p) : table[p][j] # NoFrame}
                       /\ IsFiniteSet(L) /\ L \subseteq Nat
      BY LoadedFinite
<1>2. /\ s \in Seq(L) /\ Len(s) = c /\ \A j \in L : \E i \in 1..c : s[i] = j
  <2>1. L \subseteq Int
        BY <1>1
  <2> QED BY <1>1, <2>1, LoadedOnce
<1> HIDE DEF L, s
<1>3. DOMAIN s = 1..c /\ \A i \in 1..c : s[i] \in L
      BY <1>2, ElementOfSeq
<1>4. GivenBack(p) = [i \in 1..c |-> NoOwner(table[p][s[i]])]
      BY <1>3 DEF GivenBack, s
<1>5. \A j \in L : table[p][j] \in Frames
      BY <1>1 DEF Tables
<1>6. \A i \in 1..c : NoOwner(table[p][s[i]]) \in Entries
      BY <1>3, <1>5 DEF NoOwner, Entries
<1>7. GivenBack(p) \in Seq(Entries) /\ Len(GivenBack(p)) = c
      BY <1>4, <1>6
<1>8. \A i \in 1..c : /\ GivenBack(p)[i].page = -1
                      /\ GivenBack(p)[i].frame = table[p][s[i]]
      BY <1>4 DEF NoOwner
<1>9. \A j \in L : \E i \in 1..c : GivenBack(p)[i].frame = table[p][j]
      BY <1>2, <1>8
<1> QED BY <1>1, <1>7, <1>8, <1>9 DEF L

LEMMA FinishProcessStep ==
    ASSUME RInv, NEW p \in Procs, FinishProcess(p)
    PROVE  RInv'
<1>1. /\ RComplete(p) /\ count'[p] = m /\ free' = free \o GivenBack(p)
      /\ table' = (IF Student THEN [table EXCEPT ![p] = NoTable(p)] ELSE table)
      /\ ready' = ready
      BY DEF FinishProcess, GivenBack
<1>2. /\ p \in Present /\ ~In(ready, p) /\ \A q : ~Runs(q)'
      /\ InRange' /\ UNCHANGED <<version, stopped, holds>>
      /\ count' \in [Procs -> 0..m] /\ count'[p] = count[p] + 1
      /\ \A q \in Procs : q # p => count'[q] = count[q]
      /\ DOMAIN ref' = Procs /\ \A q \in Procs : ref'[q] \subseteq Pages(q)
      /\ (\A q \in Procs : \A j \in DataPages(q) :
             table'[q][j] # NoFrame => table[q][j] # NoFrame) => Aged'
      BY <1>1, RCompletes
<1>3. RTypes /\ RLine /\ RTotal /\ RCover /\ Labels
      BY DEF RInv
<1>4. Tables(table) /\ free \in Seq(Entries) /\ Present \in SUBSET Procs
      BY <1>3 DEF RTypes, Present
<1>5. Present' = Present \ {p}
  <2>1. m \in Nat /\ ~(m < m)
        BY SearchAssumption DEF SearchAssumption
  <2> QED BY <1>1, <1>2, <2>1 DEF Present
<1>6. /\ Tables(table') /\ \A q \in Procs : q # p => table'[q] = table[q]
      /\ \A j \in Pages(p) : table'[p][j] # NoFrame => table[p][j] # NoFrame
  <2>1. CASE Student
    <3>1. /\ DOMAIN table' = Procs /\ table'[p] = NoTable(p)
          /\ \A q \in Procs : q # p => table'[q] = table[q]
          BY <1>1, <1>4, <2>1 DEF Tables
    <3>2. NoTable(p) \in [Pages(p) -> Frames \cup {NoFrame}]
          /\ \A j \in Pages(p) : NoTable(p)[j] = NoFrame
          BY DEF NoTable
    <3> QED BY <1>4, <3>1, <3>2 DEF Tables
  <2>2. CASE ~Student
        BY <1>1, <1>4, <2>2
  <2> QED BY <2>1, <2>2
<1>6a. PICK s : s = GivenBack(p)
      OBVIOUS
<1>7. PICK c \in Nat : c = Len(free) /\ s = GivenBack(p)
      BY <1>4, <1>6a, LenProperties
<1>8. PICK d \in Nat : /\ d = Len(s) /\ s \in Seq(Entries) /\ d = Cardinality(Loaded(table[p]))
      BY <1>4, <1>7, EntriesReleased, LenProperties
<1>9. /\ \A i \in 1..d : s[i].page = -1
      /\ \A j \in Loaded(table[p]) : \E i \in 1..d : s[i].frame = table[p][j]
      BY <1>4, <1>7, <1>8, EntriesReleased
<1>10. /\ free' \in Seq(Entries) /\ Len(free') = c + d
       /\ \A i \in 1..c : i \in 1..c + d /\ free'[i] = free[i]
       /\ \A i \in 1..d : c + i \in 1..c + d /\ free'[c + i] = s[i]
       /\ \A i \in 1..c + d : i \in 1..c \/ \E k \in 1..d : i = c + k
  <2>1. PICK z : z = free' /\ z = free \o s
        BY <1>1, <1>7
  <2>2. /\ z \in Seq(Entries) /\ Len(z) = c + d
        /\ \A i \in 1..c + d : z[i] = IF i <= c THEN free[i] ELSE s[i - c]
    <3>1. free \in Seq(Entries) /\ s \in Seq(Entries) /\ Len(free) = c /\ Len(s) = d
          BY <1>4, <1>7, <1>8
    <3>2. /\ free \o s \in Seq(Entries) /\ Len(free \o s) = Len(free) + Len(s)
          /\ \A i \in 1..Len(free) + Len(s) :
                (free \o s)[i] = IF i <= Len(free) THEN free[i] ELSE s[i - Len(free)]
          BY <3>1, ConcatProperties
    <3>3. z = free \o s
          BY <2>1
    <3> QED BY <3>1, <3>2, <3>3
  <2>3. \A i \in 1..c : i \in 1..c + d /\ i <= c
        OBVIOUS
  <2>4. \A i \in 1..d : c + i \in 1..c + d /\ ~(c + i <= c) /\ (c + i) - c = i
        OBVIOUS
  <2>5. \A i \in 1..c + d : i \in 1..c \/ \E k \in 1..d : i = c + k
    <3> SUFFICES ASSUME NEW i \in 1..c + d, i \notin 1..c PROVE \E k \in 1..d : i = c + k
        OBVIOUS
    <3>1. i - c \in 1..d /\ i = c + (i - c)
          OBVIOUS
    <3> QED BY <3>1
  <2>6. \A i \in 1..c : z[i] = free[i]
        BY <2>2, <2>3
  <2>7. \A i \in 1..d : z[c + i] = s[i]
        BY <2>2, <2>4
  <2> QED BY <2>1, <2>2, <2>3, <2>4, <2>5, <2>6, <2>7
<1>11. RTypes'
  <2>1. Tables(table)'
        BY <1>6 DEF Tables
  <2> QED BY <1>1, <1>2, <1>3, <1>10, <2>1 DEF RTypes
<1>12. RLine'
  <2>1. \A q \in Procs : In(ready', q) => q \in Present'
        BY <1>1, <1>2, <1>3, <1>5 DEF RLine
  <2>2. Distinct(ready')
        BY <1>1, <1>3 DEF RLine
  <2> QED BY <1>2, <2>1, <2>2 DEF RLine
<1>13. RTotal'
  <2>1. Owned(Present \ {p}, table') = Owned(Present \ {p}, table)
    <3>1. \A q \in Present \ {p} : table'[q] = table[q]
          BY <1>4, <1>6
    <3> QED BY <3>1, OwnedSame
  <2>2. Cardinality(Owned(Present, table)) = Cardinality(Owned(Present \ {p}, table)) + d
        BY <1>2, <1>4, <1>8, OwnedLeave
  <2>3. Cardinality(Owned(Present \ {p}, table)) \in Nat
        BY <1>4, OwnedFinite
  <2>4. Cardinality(Owned(Present, table)) + c = NFRAMES
        BY <1>3, <1>7 DEF RTotal
  <2>5. Cardinality(Owned(Present \ {p}, table')) + (c + d) = NFRAMES
        BY <2>1, <2>2, <2>3, <2>4
  <2> QED BY <1>5, <1>10, <2>5 DEF RTotal
<1>14. RCover'
  <2> SUFFICES ASSUME NEW x \in Frames
               PROVE  \/ \E i \in 1..c + d : free'[i].frame = x
                      \/ \E q \in Present \ {p} : \E j \in Loaded(table'[q]) : table'[q][j] = x
      BY <1>5, <1>10 DEF RCover
  <2>1. CASE \E i \in 1..c : free[i].frame = x
        BY <1>10, <2>1
  <2>2. ASSUME NEW q \in Present, NEW j \in Loaded(table[q]), table[q][j] = x
        PROVE  \/ \E i \in 1..c + d : free'[i].frame = x
               \/ \E q2 \in Present \ {p} : \E j2 \in Loaded(table'[q2]) : table'[q2][j2] = x
    <3>1. CASE q # p
          BY <1>4, <1>6, <2>2, <3>1
    <3>2. CASE q = p
      <4>1. PICK i \in 1..d : s[i].frame = x
            BY <1>9, <2>2, <3>2
      <4> QED BY <1>10, <4>1
    <3> QED BY <3>1, <3>2
  <2> QED BY <1>3, <1>7, <2>1, <2>2 DEF RCover
<1>15. Labels'
  <2>1. ASSUME NEW i \in 1..c + d, free'[i].page # -1
        PROVE  holds[free'[i].frame] = <<free'[i].owner, free'[i].page>>
    <3>1. CASE i \in 1..c
          BY <1>3, <1>7, <1>10, <2>1, <3>1 DEF Labels
    <3>2. ASSUME NEW k \in 1..d, i = c + k PROVE FALSE
          BY <1>9, <1>10, <2>1, <3>2
    <3> QED BY <1>10, <3>1, <3>2
  <2>2. ASSUME NEW q \in Present \ {p}, NEW j \in Loaded(table'[q]), j >= Essential
        PROVE  holds[table'[q][j]] = <<q, j>>
        BY <1>3, <1>4, <1>6, <2>2 DEF Labels
  <2>3. \A i \in 1..Len(free') : free'[i].page # -1 =>
           holds'[free'[i].frame] = <<free'[i].owner, free'[i].page>>
        BY <1>2, <1>10, <2>1
  <2>4. \A q \in Present' : \A j \in Loaded(table'[q]) :
           j >= Essential => holds'[table'[q][j]] = <<q, j>>
        BY <1>2, <1>5, <2>2
  <2> QED BY <2>3, <2>4 DEF Labels
<1>16. Aged'
  <2>1. \A j \in DataPages(p) : j \in Pages(p)
        BY DataPagesOfIts
  <2>2. \A q \in Procs : \A j \in DataPages(q) :
           table'[q][j] # NoFrame => table[q][j] # NoFrame
        BY <1>6, <2>1
  <2> QED BY <1>2, <2>2
<1> QED BY <1>11, <1>12, <1>13, <1>14, <1>15, <1>16 DEF RInv

-----------------------------------------------------------------------------
(* What follows for PageReplacement *)

LEMMA RStep == RInv /\ [RNext]_rVars => RInv'
<1> SUFFICES ASSUME RInv, [RNext]_rVars PROVE RInv'
    OBVIOUS
<1>1. CASE RBegin
      BY <1>1, RBeginStep
<1>2. ASSUME NEW p \in Procs, RHit(p) PROVE RInv'
      BY <1>2, RHitStep
<1>3. ASSUME NEW p \in Procs, RLoadPage(p) PROVE RInv'
      BY <1>3, RLoadPageStep
<1>4. ASSUME NEW p \in Procs, Replace(p) PROVE RInv'
      BY <1>4, ReplaceStep
<1>5. ASSUME NEW p \in Procs, NoVictim(p) PROVE RInv'
      BY <1>5, NoVictimStep
<1>6. ASSUME NEW p \in Procs, RFinishSearch(p) PROVE RInv'
      BY <1>6, RFinishSearchStep
<1>7. ASSUME NEW p \in Procs, FinishProcess(p) PROVE RInv'
      BY <1>7, FinishProcessStep
<1>8. CASE UNCHANGED rVars
  <2>0. /\ version' = version /\ ready' = ready /\ search' = search /\ count' = count
        /\ table' = table /\ free' = free /\ ref' = ref /\ hist' = hist
        /\ stopped' = stopped /\ holds' = holds /\ used' = used
        BY <1>8 DEF rVars
  <2>1. Present' = Present /\ \A q : Runs(q)' <=> Runs(q)
        BY <2>0 DEF Present, Runs
  <2>2. RTypes'
    <3>1. Tables(table)'
          BY <2>0 DEF RInv, RTypes, Tables
    <3>2. InRange'
          BY <2>0 DEF RInv, RTypes, InRange
    <3> QED BY <2>0, <3>1, <3>2 DEF RInv, RTypes
  <2>3. RLine'
        BY <2>0, <2>1 DEF RInv, RLine
  <2>4. RTotal'
        BY <2>0, <2>1 DEF RInv, RTotal
  <2>5. RCover'
        BY <2>0, <2>1 DEF RInv, RCover
  <2>6. Labels'
        BY <2>0, <2>1 DEF RInv, Labels
  <2>7. Aged'
        BY <2>0 DEF RInv, Aged
  <2> QED BY <2>2, <2>3, <2>4, <2>5, <2>6, <2>7 DEF RInv
<1>9. RNext \/ UNCHANGED rVars
      OBVIOUS
<1> QED BY <1>1, <1>2, <1>3, <1>4, <1>5, <1>6, <1>7, <1>8, <1>9 DEF RNext, Process

LEMMA Truthful == RInv => LabelsTrue
<1> SUFFICES ASSUME RInv PROVE LabelsTrue
    OBVIOUS
<1>1. RTypes /\ RTotal /\ RCover /\ Labels /\ Aged
      BY DEF RInv
<1>2. Tables(table) /\ free \in Seq(Entries) /\ Present \in SUBSET Procs
      BY <1>1 DEF RTypes, Present
<1>3. DOMAIN free = 1..Len(free) /\ \A i \in 1..Len(free) : free[i].frame \in Frames
  <2>1. \A i \in 1..Len(free) : free[i] \in Entries
        BY <1>2, ElementOfSeq
  <2> QED BY <1>2, <2>1 DEF Entries
<1>4. RTypeOK
  <2>1. \A p \in Procs : table[p] \in [Pages(p) -> Frames \cup {NoFrame}]
        BY <1>2 DEF Tables
  <2>2. \A p \in Procs : ref[p] \subseteq Pages(p) /\ hist[p] \in [DataPages(p) -> 0..Full]
        BY <1>1 DEF RTypes, Aged
  <2> QED BY <1>1, <1>3, <2>1, <2>2 DEF RTypeOK, RTypes
<1>5. RInUse = Owned(Present, table)
  <2>1. \A p \in Present : Loaded(table[p]) \subseteq Int
        BY <1>2, LoadedFinite
  <2>2. \A x : x \in RInUse <=> \E p \in Present : x \in {p} \X Loaded(table[p])
        BY DEF RInUse, Present
  <2>3. \A x : x \in Owned(Present, table) <=>
           \E p \in Present : x \in {p} \X Loaded(table[p])
        BY <2>1 DEF Owned
  <2> QED BY <2>2, <2>3
<1>6. \A x \in RInUse : /\ x[1] \in Present /\ x[2] \in Loaded(table[x[1]])
                        /\ x = <<x[1], x[2]>> /\ table[x[1]][x[2]] \in Frames
  <2> SUFFICES ASSUME NEW x \in RInUse
               PROVE  /\ x[1] \in Present /\ x[2] \in Loaded(table[x[1]])
                      /\ x = <<x[1], x[2]>> /\ table[x[1]][x[2]] \in Frames
      OBVIOUS
  <2>1. x[1] \in Present /\ x[2] \in Loaded(table[x[1]]) /\ x = <<x[1], x[2]>>
        BY <1>5 DEF Owned
  <2>2. x[2] \in Pages(x[1]) /\ table[x[1]][x[2]] # NoFrame
        BY <1>2, <2>1, LoadedFinite
  <2> QED BY <1>2, <2>1, <2>2 DEF Tables
<1>7. RFramesAddUp
  <2>1. Cardinality(RInUse) + Len(free) = NFRAMES
        BY <1>1, <1>5 DEF RTotal
  <2>2. ASSUME NEW f \in Frames
        PROVE  \/ \E x \in RInUse : table[x[1]][x[2]] = f
               \/ \E i \in 1..Len(free) : free[i].frame = f
    <3>1. ASSUME NEW p \in Present, NEW j \in Loaded(table[p]), table[p][j] = f
          PROVE  \E x \in RInUse : table[x[1]][x[2]] = f
      <4>1. <<p, j>> \in RInUse
            BY <1>2, <1>5, LoadedFinite DEF Owned
      <4> QED BY <3>1, <4>1
    <3> QED BY <1>1, <3>1 DEF RCover
  <2> QED BY <1>3, <1>6, <2>1, <2>2 DEF RFramesAddUp
<1>8. \A i \in DOMAIN free :
         free[i].page # -1 => holds[free[i].frame] = <<free[i].owner, free[i].page>>
      BY <1>1, <1>3 DEF Labels
<1>9. \A x \in RInUse : x[2] >= Essential => holds[table[x[1]][x[2]]] = x
      BY <1>1, <1>6 DEF Labels
<1> QED BY <1>4, <1>7, <1>8, <1>9 DEF LabelsTrue

(* No frame is lost in the exchanges of free entries, and each entry says  *)
(* truly what its frame held last.                                         *)
THEOREM LabelsAreTrue == RSpec => []LabelsTrue
<1>1. RInit => RInv
      BY RInitInv
<1>2. RInv /\ [RNext]_rVars => RInv'
      BY RStep
<1> QED BY <1>1, <1>2, Truthful, PTL DEF RSpec

(* What VictimLeastRecent says of a step.                                  *)
LeastRecent ==
    \A p \in Procs : \A q, j \in DataPages(p) :
       /\ count'[p] = count[p]
       /\ table[p][q] # NoFrame /\ table'[p][q] = NoFrame
       /\ table[p][j] # NoFrame
      => Age(p, j) <= Age(p, q)

LEMMA StepLeastRecent == RInv /\ [RNext]_rVars => LeastRecent
<1> SUFFICES ASSUME RInv, [RNext]_rVars,
                    NEW p \in Procs, NEW q \in DataPages(p), NEW j \in DataPages(p),
                    count'[p] = count[p], table[p][q] # NoFrame, table'[p][q] = NoFrame,
                    table[p][j] # NoFrame
             PROVE  Age(p, j) <= Age(p, q)
    BY DEF LeastRecent
<1>0. Tables(table) /\ free \in Seq(Entries) /\ Aged /\ count \in [Procs -> 0..m]
      BY DEF RInv, RTypes
<1>1. j \in Pages(p) /\ q \in Pages(p)
      BY DataPagesOfIts
<1>2. ASSUME table'[p] = table[p] PROVE FALSE
      BY <1>2
<1>3. ASSUME NEW r \in Procs, RLoadPage(r) PROVE FALSE
  <2>1. PICK g, f : /\ g = Page /\ f = Last(free).frame
                    /\ table' = [table EXCEPT ![r] = [table[r] EXCEPT ![g] = f]]
        BY <1>3 DEF RLoadPage, Map
  <2>2. f \in Frames
    <3>1. free # <<>>
      <4>1. NFFMIN \in Nat /\ Len(free) > NFFMIN
            BY <1>3, ReplacementAssumption DEF RLoadPage, ReplacementAssumption
      <4> QED BY <1>0, <4>1
    <3>2. PICK c \in Nat : c = Len(free) /\ c \in 1..c
          BY <1>0, <3>1, EmptySeq, LenProperties
    <3>3. free[c] \in Entries
          BY <1>0, <3>2, ElementOfSeq
    <3> QED BY <2>1, <3>2, <3>3 DEF Last, Entries
  <2>3. CASE r # p
    <3>1. table'[p] = table[p]
          BY <1>0, <2>1, <2>3 DEF Tables
    <3> QED BY <1>2, <3>1
  <2>4. CASE r = p
    <3>1. table'[p] = [table[p] EXCEPT ![g] = f]
          BY <1>0, <2>1, <2>4 DEF Tables
    <3>2. DOMAIN table[p] = Pages(p)
          BY <1>0 DEF Tables
    <3>3. table'[p][q] = IF q = g THEN f ELSE table[p][q]
          BY <1>1, <3>1, <3>2
    <3> QED BY <2>2, <3>3 DEF Frames, NoFrame
  <2> QED BY <2>3, <2>4
<1>4. ASSUME NEW r \in Procs, RComplete(r), \A i \in Procs : i # r => table'[i] = table[i]
      PROVE  FALSE
  <2>1. count'[r] = count[r] + 1 /\ count[r] \in Nat
        BY <1>0, <1>4, RCompletes
  <2>2. r # p
        BY <2>1
  <2> QED BY <1>2, <1>4, <2>2
<1>5. ASSUME NEW r \in Procs, Replace(r) PROVE Age(p, j) <= Age(p, q)
  <2>1. PICK g \in Pages(r), v \in Pages(r), i \in 1..Len(free) :
           /\ g = Page /\ v = Victim(r) /\ v \in Candidates(r) /\ RFaults(r)
           /\ Map(r, free[i].frame, [table[r] EXCEPT ![v] = NoFrame])
        BY <1>5, Replaced
  <2>2. PICK f \in Frames : f = free[i].frame
    <3>1. free[i] \in Entries
          BY <1>0, ElementOfSeq
    <3> QED BY <3>1 DEF Entries
  <2>3. table' = [table EXCEPT ![r] = [[table[r] EXCEPT ![v] = NoFrame] EXCEPT ![g] = f]]
        BY <2>1, <2>2 DEF Map
  <2>4. r = p
    <3>1. r # p => table'[p] = table[p]
          BY <1>0, <2>3 DEF Tables
    <3> QED BY <1>2, <3>1
  <2>5. q = v
    <3>1. DOMAIN table[p] = Pages(p)
          BY <1>0 DEF Tables
    <3>2. table'[p] = [[table[p] EXCEPT ![v] = NoFrame] EXCEPT ![g] = f]
          BY <1>0, <2>3, <2>4 DEF Tables
    <3>3. table'[p][q] = IF q = g THEN f ELSE IF q = v THEN NoFrame ELSE table[p][q]
          BY <1>1, <3>1, <3>2
    <3> QED BY <2>2, <3>3 DEF Frames, NoFrame
  <2>6. /\ hist[p][j] \in 0..Full /\ hist[p][q] \in 0..Full
        /\ Fits(hist[p][j], count[p] - used[p][j]) /\ Fits(hist[p][q], count[p] - used[p][q])
        /\ count[p] - used[p][j] \in Nat /\ count[p] - used[p][q] \in Nat
    <3>1. \A x \in DataPages(p) :
             /\ hist[p][x] \in 0..Full /\ used[p][x] \in Nat /\ used[p][x] <= count[p]
             /\ table[p][x] # NoFrame => Fits(hist[p][x], count[p] - used[p][x])
          BY <1>0 DEF Aged
    <3>2. count[p] \in Nat
          BY <1>0
    <3> QED BY <3>1, <3>2
  <2>7. hist[p][q] <= hist[p][j]
    <3>1. j \in Loaded(table[p]) \cap DataPages(p)
          BY <1>0, <1>1, LoadedFinite
    <3>2. CASE j \in Candidates(p)
          BY <2>1, <2>4, <2>5, <3>2, VictimLeast
    <3>3. CASE j \notin Candidates(p)
      <4>1. ~(hist[p][j] < Full)
            BY <3>1, <3>3 DEF Candidates
      <4> QED BY <2>6, <4>1, FullFits
    <3> QED BY <3>2, <3>3
  <2>8. PICK h \in 0..Full, k \in 0..Full, a \in Nat, b \in Nat :
           /\ h = hist[p][q] /\ k = hist[p][j]
           /\ a = count[p] - used[p][q] /\ b = count[p] - used[p][j]
        BY <2>6
  <2>9. Fits(h, a) /\ Fits(k, b) /\ h <= k
        BY <2>6, <2>7, <2>8
  <2>10. (IF b < HistoryBits THEN b ELSE HistoryBits)
            <= (IF a < HistoryBits THEN a ELSE HistoryBits)
        BY <2>9, SmallerIsOlder
  <2> QED BY <2>8, <2>10 DEF Age
<1>6. CASE RBegin
      BY <1>2, <1>6 DEF RBegin
<1>7. ASSUME NEW r \in Procs, RHit(r) PROVE FALSE
      BY <1>2, <1>7 DEF RHit
<1>8. ASSUME NEW r \in Procs, NoVictim(r) PROVE FALSE
      BY <1>2, <1>8 DEF NoVictim
<1>9. ASSUME NEW r \in Procs, RFinishSearch(r) PROVE FALSE
      BY <1>4, <1>9 DEF RFinishSearch
<1>10. ASSUME NEW r \in Procs, FinishProcess(r) PROVE FALSE
  <2>1. RComplete(r) /\ table' = (IF Student THEN [table EXCEPT ![r] = NoTable(r)] ELSE table)
        BY <1>10 DEF FinishProcess
  <2>2. \A i \in Procs : i # r => table'[i] = table[i]
        BY <1>0, <2>1 DEF Tables
  <2> QED BY <1>4, <2>1, <2>2
<1>11. CASE UNCHANGED rVars
      BY <1>2, <1>11 DEF rVars
<1>12. RNext \/ UNCHANGED rVars
      OBVIOUS
<1> QED BY <1>3, <1>5, <1>6, <1>7, <1>8, <1>9, <1>10, <1>11, <1>12 DEF RNext, Process

(* The page that gives up its frame is one that has been unused for        *)
(* longest, in whole searches, as far as the bits of a history tell.       *)
THEOREM VictimsLeastRecent == RSpec => VictimLeastRecent
<1>1. RInit => RInv
      BY RInitInv
<1>2. RInv /\ [RNext]_rVars => RInv'
      BY RStep
<1>3. RInv /\ [RNext]_rVars => [LeastRecent]_rVars
      BY StepLeastRecent
<1>4. VictimLeastRecent <=> [][LeastRecent]_rVars
      BY DEF VictimLeastRecent, LeastRecent
<1> QED BY <1>1, <1>2, <1>3, <1>4, PTL DEF RSpec
=============================================================================
