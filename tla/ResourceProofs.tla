--------------------------- MODULE ResourceProofs ---------------------------
(***************************************************************************)
(* Proofs about ResourceManager and ResourceSolution, for any threads,     *)
(* resources, totals and claims.                                           *)
(*                                                                         *)
(* First what both share, the safety check: issafe says yes exactly when   *)
(* the threads can finish one after the other.  The check is recursive and *)
(* adds up vectors over sets, so that this goes by induction, which WFMin  *)
(* provides in the form of LeastNumber.  And what the passes over the      *)
(* requests rely on: a grant makes no other request grantable.             *)
(*                                                                         *)
(* Then of both programs: nothing is lost, what is granted leaves nothing  *)
(* grantable behind, and under avoidance the program is the abstract       *)
(* banker and its tables are always safe.  A session of ResourceManager    *)
(* that hangs under avoidance has lost a wakeup; ResourceSolution loses    *)
(* none.  They are apart: first ResourceManager, then ResourceSolution,    *)
(* whose names have an S in front where both have one.                     *)
(***************************************************************************)
EXTENDS ResourceManager, ResourceSolution, SafetyCheck, ResourceClaims,
        SequenceTheorems, FiniteSetTheorems, WellFoundedInduction, TLAPS

-----------------------------------------------------------------------------
(* Vectors *)

Vector == [Resources -> Int]

(* Vectors are added, subtracted and compared type by type. *)
LEMMA VectorOps ==
    ASSUME NEW u \in Vector, NEW w \in Vector
    PROVE  /\ Add(u, w) \in Vector /\ Sub(u, w) \in Vector
           /\ \A r \in Resources : /\ Add(u, w)[r] = u[r] + w[r]
                                   /\ Sub(u, w)[r] = u[r] - w[r]
           /\ Leq(u, w) <=> \A r \in Resources : u[r] <= w[r]
BY DEF Vector, Add, Sub, Leq

(* Two vectors that agree on every type are the same vector. *)
LEMMA VectorEq ==
    ASSUME NEW u \in Vector, NEW w \in Vector,
           \A r \in Resources : u[r] = w[r]
    PROVE  u = w
BY DEF Vector

(* What is added can be taken away again, whatever happens in between. *)
LEMMA VectorUndo ==
    ASSUME NEW u \in Vector, NEW v \in Vector, NEW w \in Vector
    PROVE  /\ Sub(Add(u, w), w) = u /\ Add(Sub(u, w), w) = u
           /\ Add(Sub(Sub(u, w), v), w) = Sub(u, v)
<1>1. \A r \in Resources : u[r] \in Int /\ v[r] \in Int /\ w[r] \in Int
  BY DEF Vector
<1>2. /\ Add(u, w) \in Vector /\ Sub(u, w) \in Vector /\ Sub(u, v) \in Vector
      /\ \A r \in Resources : /\ Add(u, w)[r] = u[r] + w[r]
                              /\ Sub(u, w)[r] = u[r] - w[r]
                              /\ Sub(u, v)[r] = u[r] - v[r]
  BY VectorOps
<1>3. /\ Sub(Add(u, w), w) \in Vector /\ Add(Sub(u, w), w) \in Vector
      /\ \A r \in Resources : /\ Sub(Add(u, w), w)[r] = Add(u, w)[r] - w[r]
                              /\ Add(Sub(u, w), w)[r] = Sub(u, w)[r] + w[r]
  BY <1>2, VectorOps
<1>4. /\ Sub(Sub(u, w), v) \in Vector
      /\ \A r \in Resources : Sub(Sub(u, w), v)[r] = Sub(u, w)[r] - v[r]
  BY <1>2, VectorOps
<1>5. /\ Add(Sub(Sub(u, w), v), w) \in Vector
      /\ \A r \in Resources : Add(Sub(Sub(u, w), v), w)[r] = Sub(Sub(u, w), v)[r] + w[r]
  BY <1>4, VectorOps
<1>6. \A r \in Resources : /\ Sub(Add(u, w), w)[r] = u[r] /\ Add(Sub(u, w), w)[r] = u[r]
                          /\ Add(Sub(Sub(u, w), v), w)[r] = Sub(u, v)[r]
  BY <1>1, <1>2, <1>3, <1>4, <1>5
<1> QED
  BY <1>2, <1>3, <1>5, <1>6, VectorEq

(* What can be counted is a vector, and so is having nothing. *)
LEMMA CountsAreVectors == Counts \subseteq Vector /\ Zero \in Vector
BY DEF Counts, Vector, Zero

(* They are ordered type by type. *)
LEMMA LeqOrder ==
    ASSUME NEW u \in Vector, NEW v \in Vector, NEW w \in Vector
    PROVE  Leq(u, u) /\ (Leq(u, v) /\ Leq(v, w) => Leq(u, w))
<1>1. \A r \in Resources : u[r] \in Int /\ v[r] \in Int /\ w[r] \in Int
  BY DEF Vector
<1>2. DOMAIN u = Resources /\ DOMAIN v = Resources
  BY DEF Vector
<1> QED
  BY <1>1, <1>2 DEF Leq

(* What is below a vector of counts is one. *)
LEMMA LeqCounts ==
    ASSUME NEW u \in [Resources -> Nat], NEW w \in Counts, Leq(u, w)
    PROVE  u \in Counts
<1>1. ASSUME NEW r \in Resources PROVE u[r] \in 0..Cap
  <2>1. u[r] \in Nat /\ w[r] \in 0..Cap /\ u[r] <= w[r]
    BY DEF Counts, Leq
  <2> QED
    BY <2>1, ClaimsAssumption DEF ClaimsAssumption
<1> QED
  BY <1>1 DEF Counts

(* A finite set has a number of elements. *)
LEMMA SizeInNat ==
    ASSUME NEW S, IsFiniteSet(S)
    PROVE  Cardinality(S) \in Nat
BY FS_CardinalityType

(* What a live thread holds and still needs stays within its announcement  *)
(* when some of it moves from one to the other.                            *)
LEMMA MoveClaim ==
    ASSUME NEW m \in Counts, NEW a \in Counts, NEW n \in Counts, m = Add(a, n),
           NEW q \in [Resources -> Nat]
    PROVE  /\ Leq(q, a) => /\ Sub(a, q) \in Counts /\ Add(n, q) \in Counts
                           /\ m = Add(Sub(a, q), Add(n, q)) /\ Leq(n, Add(n, q))
           /\ Leq(q, n) => /\ Add(a, q) \in Counts /\ Sub(n, q) \in Counts
                           /\ m = Add(Add(a, q), Sub(n, q))
<1> USE CountsAreVectors, ClaimsAssumption DEF ClaimsAssumption
<1>1. q \in Vector
      BY DEF Vector
<1>2. \A r \in Resources : /\ m[r] \in 0..Cap /\ a[r] \in 0..Cap /\ n[r] \in 0..Cap
                            /\ m[r] = a[r] + n[r] /\ q[r] \in Nat
  <2>1. \A r \in Resources : m[r] = a[r] + n[r]
        BY VectorOps
  <2> QED BY <2>1 DEF Counts
<1>3. ASSUME Leq(q, a)
      PROVE  /\ Sub(a, q) \in Counts /\ Add(n, q) \in Counts
             /\ m = Add(Sub(a, q), Add(n, q)) /\ Leq(n, Add(n, q))
  <2>1. \A r \in Resources : q[r] <= a[r]
        BY <1>1, <1>3, VectorOps
  <2>2. \A r \in Resources : a[r] - q[r] \in 0..Cap /\ n[r] + q[r] \in 0..Cap
        BY <2>1, <1>2
  <2>3. Sub(a, q) \in Counts /\ Add(n, q) \in Counts
        BY <2>2 DEF Add, Sub, Counts
  <2>4. /\ \A r \in Resources : /\ Sub(a, q)[r] = a[r] - q[r]
                                /\ Add(n, q)[r] = n[r] + q[r]
        /\ \A r \in Resources : Add(Sub(a, q), Add(n, q))[r]
                                  = Sub(a, q)[r] + Add(n, q)[r]
        /\ Add(Sub(a, q), Add(n, q)) \in Vector
        BY <2>3, <1>1, VectorOps
  <2>5. \A r \in Resources : m[r] = Add(Sub(a, q), Add(n, q))[r]
        BY <2>4, <1>2
  <2>6. m = Add(Sub(a, q), Add(n, q))
        BY <2>4, <2>5, VectorEq
  <2>7. \A r \in Resources : n[r] <= Add(n, q)[r]
        BY <2>4, <1>2
  <2> QED BY <2>3, <2>6, <2>7, VectorOps
<1>4. ASSUME Leq(q, n)
      PROVE  /\ Add(a, q) \in Counts /\ Sub(n, q) \in Counts
             /\ m = Add(Add(a, q), Sub(n, q))
  <2>1. \A r \in Resources : q[r] <= n[r]
        BY <1>1, <1>4, VectorOps
  <2>2. \A r \in Resources : a[r] + q[r] \in 0..Cap /\ n[r] - q[r] \in 0..Cap
        BY <2>1, <1>2
  <2>3. Add(a, q) \in Counts /\ Sub(n, q) \in Counts
        BY <2>2 DEF Add, Sub, Counts
  <2>4. /\ \A r \in Resources : /\ Add(a, q)[r] = a[r] + q[r]
                                /\ Sub(n, q)[r] = n[r] - q[r]
        /\ \A r \in Resources : Add(Add(a, q), Sub(n, q))[r]
                                  = Add(a, q)[r] + Sub(n, q)[r]
        /\ Add(Add(a, q), Sub(n, q)) \in Vector
        BY <2>3, <1>1, VectorOps
  <2>5. \A r \in Resources : m[r] = Add(Add(a, q), Sub(n, q))[r]
        BY <2>4, <1>2
  <2> QED BY <2>3, <2>4, <2>5, VectorEq
<1> QED BY <1>3, <1>4

(* The two halves of a request. *)
LEMMA RequestHalves ==
    ASSUME NEW q \in [Resources -> -Cap..Cap]
    PROVE  /\ Wanted(q) \in Counts /\ Returned(q) \in Counts
           /\ \A r \in Resources : q[r] = Wanted(q)[r] - Returned(q)[r]
           /\ IsZero(Wanted(q)) <=> \A r \in Resources : Wanted(q)[r] = 0
BY ClaimsAssumption DEF ClaimsAssumption, Wanted, Returned, Counts, IsZero

(* A script asks for no more than is left of the claim, and returns no     *)
(* more than is held.                                                      *)
LEMMA ScriptFits ==
    ASSUME NEW m \in Counts, NEW a \in Counts, NEW n \in Counts, m = Add(a, n),
           NEW q \in ScriptRequests(a, m)
    PROVE  /\ q \in [Resources -> -Cap..Cap]
           /\ Leq(Returned(q), a) /\ Leq(Wanted(q), n)
           /\ Add(a, q) \in Counts
<1> USE CountsAreVectors, ClaimsAssumption DEF ClaimsAssumption
<1>1. /\ q \in [Resources -> UNION {-m[r]..m[r] : r \in Resources}]
      /\ Leq(Returned(q), a) /\ Leq(Add(a, Wanted(q)), m)
  BY DEF ScriptRequests, Counts
<1>2. q \in [Resources -> -Cap..Cap]
  <2>1. \A r \in Resources : -m[r]..m[r] \subseteq -Cap..Cap
    BY DEF Counts
  <2>2. \A r \in Resources : q[r] \in -Cap..Cap
    BY <1>1, <2>1
  <2> QED
    BY <1>1, <2>2
<1>3. /\ Wanted(q) \in Counts /\ Returned(q) \in Counts
      /\ \A r \in Resources : q[r] = Wanted(q)[r] - Returned(q)[r]
  BY <1>2, RequestHalves
<1>4. ASSUME NEW r \in Resources
      PROVE  /\ m[r] \in 0..Cap /\ a[r] \in 0..Cap /\ n[r] \in 0..Cap /\ m[r] = a[r] + n[r]
             /\ Wanted(q)[r] \in 0..Cap /\ Returned(q)[r] \in 0..Cap
             /\ Returned(q)[r] <= a[r] /\ a[r] + Wanted(q)[r] <= m[r]
             /\ Add(a, q)[r] = a[r] + q[r]
  <2>1. m[r] = a[r] + n[r] /\ Returned(q)[r] <= a[r]
    BY <1>1, <1>3, VectorOps
  <2>2. Add(a, Wanted(q)) \in Vector /\ Add(a, Wanted(q))[r] = a[r] + Wanted(q)[r]
    BY <1>3, VectorOps
  <2>3. a[r] + Wanted(q)[r] <= m[r]
    BY <1>1, <2>2, VectorOps
  <2>4. q \in Vector
    BY <1>2 DEF Vector
  <2>5. Add(a, q)[r] = a[r] + q[r]
    BY <2>4, VectorOps
  <2> QED
    BY <1>3, <2>1, <2>3, <2>5 DEF Counts
<1>5. Leq(Wanted(q), n)
  <2>1. \A r \in Resources : Wanted(q)[r] <= n[r]
    BY <1>4
  <2> QED
    BY <1>3, <2>1, VectorOps
<1>6. \A r \in Resources : Add(a, q)[r] \in 0..Cap
  BY <1>3, <1>4
<1>7. DOMAIN Add(a, q) = Resources /\ Add(a, q) = [r \in Resources |-> Add(a, q)[r]]
  BY DEF Add, Counts
<1> QED
  BY <1>1, <1>2, <1>5, <1>6, <1>7 DEF Counts

(* When what a request returns is booked, what it asks for is still to     *)
(* come, and within the claim.                                             *)
LEMMA BookedRequest ==
    ASSUME NEW a \in Counts, NEW n \in Counts, NEW q \in [Resources -> -Cap..Cap],
           Leq(Returned(q), a), Leq(Wanted(q), n)
    PROVE  /\ Leq(Wanted(q), Add(n, Returned(q)))
           /\ Add(a, q) = Add(Sub(a, Returned(q)), Wanted(q))
           /\ IsZero(Wanted(q)) => Add(a, q) = Sub(a, Returned(q))
<1> USE CountsAreVectors, ClaimsAssumption DEF ClaimsAssumption
<1> DEFINE w == Wanted(q)
           b == Returned(q)
<1>1. /\ w \in Counts /\ b \in Counts
      /\ \A r \in Resources : q[r] = w[r] - b[r]
      /\ IsZero(w) <=> \A r \in Resources : w[r] = 0
  BY RequestHalves
<1> HIDE DEF w, b
<1>2. q \in Vector
  BY DEF Vector
<1>3. /\ Add(n, b) \in Vector /\ Add(a, q) \in Vector /\ Sub(a, b) \in Vector
      /\ Add(Sub(a, b), w) \in Vector
      /\ \A r \in Resources : /\ Add(n, b)[r] = n[r] + b[r] /\ Add(a, q)[r] = a[r] + q[r]
                              /\ Sub(a, b)[r] = a[r] - b[r]
                              /\ Add(Sub(a, b), w)[r] = Sub(a, b)[r] + w[r]
  BY <1>1, <1>2, VectorOps
<1>4. \A r \in Resources : /\ a[r] \in 0..Cap /\ n[r] \in 0..Cap /\ w[r] \in 0..Cap
                           /\ b[r] \in 0..Cap /\ w[r] <= n[r]
  <2>1. \A r \in Resources : w[r] <= n[r]
    BY <1>1, VectorOps DEF w
  <2> QED
    BY <1>1, <2>1 DEF Counts
<1>5. Leq(w, Add(n, b))
  <2>1. \A r \in Resources : w[r] <= Add(n, b)[r]
    BY <1>3, <1>4
  <2> QED
    BY <1>1, <1>3, <2>1, VectorOps
<1>6. Add(a, q) = Add(Sub(a, b), w)
  <2>1. \A r \in Resources : Add(a, q)[r] = Add(Sub(a, b), w)[r]
    BY <1>1, <1>3, <1>4
  <2> QED
    BY <1>3, <2>1, VectorEq
<1>7. ASSUME IsZero(w) PROVE Add(a, q) = Sub(a, b)
  <2>1. \A r \in Resources : Add(a, q)[r] = Sub(a, b)[r]
    BY <1>1, <1>3, <1>4, <1>7
  <2> QED
    BY <1>3, <2>1, VectorEq
<1> QED
  BY <1>5, <1>6, <1>7 DEF w, b

-----------------------------------------------------------------------------
(* Induction *)

(* A set of numbers that is not empty has a least element. *)
LEMMA LeastNumber ==
    ASSUME NEW I, I \subseteq Nat, I # {}
    PROVE  \E m \in I : \A n \in I : m <= n
<1> DEFINE R == {p \in Nat \X Nat : p[1] < p[2]}
<1>1. IsWellFoundedOn(R, Nat)
  BY NatLessThanWellFounded DEF OpToRel
<1>2. PICK m \in I : \A n \in I : ~ (<<n, m>> \in R)
  <2> HIDE DEF R
  <2> QED
    BY <1>1, WFMin
<1>3. ASSUME NEW n \in I PROVE m <= n
  <2>1. <<n, m>> \in R <=> n < m
    OBVIOUS
  <2> QED
    BY <1>2, <2>1
<1> QED
  BY <1>3

(* What holds of 0 and of n + 1 whenever of n holds of every number. *)
LEMMA NumberInduction ==
    ASSUME NEW I, 0 \in I, \A n \in I \cap Nat : n + 1 \in I
    PROVE  Nat \subseteq I
<1> SUFFICES ASSUME Nat \ I # {} PROVE FALSE
  OBVIOUS
<1>1. PICK m \in Nat \ I : \A n \in Nat \ I : m <= n
  BY LeastNumber
<1>2. m - 1 \in Nat \cap I
  BY <1>1
<1> QED
  BY <1>1, <1>2

(* What holds of a subset of S when it holds of all smaller ones holds of  *)
(* every subset of a finite S.                                             *)
LEMMA SubsetInduction ==
    ASSUME NEW S, IsFiniteSet(S), NEW J,
           \A s \in SUBSET S : (\A u \in SUBSET s : u # s => u \in J) => s \in J
    PROVE  SUBSET S \subseteq J
<1> SUFFICES ASSUME (SUBSET S) \ J # {} PROVE FALSE
  OBVIOUS
<1> DEFINE I == {Cardinality(s) : s \in (SUBSET S) \ J}
<1>1. I \subseteq Nat /\ I # {}
  BY FS_Subset, FS_CardinalityType
<1>2. PICK m \in I : \A n \in I : m <= n
  <2> HIDE DEF I
  <2> QED
    BY <1>1, LeastNumber
<1>3. PICK s \in (SUBSET S) \ J : m = Cardinality(s)
  OBVIOUS
<1>4. ASSUME NEW u \in SUBSET s, u # s PROVE u \in J
  <2>1. IsFiniteSet(s) /\ IsFiniteSet(u) /\ u \in SUBSET S
    BY FS_Subset
  <2>2. Cardinality(u) < Cardinality(s)
    BY <2>1, <1>4, FS_Subset, FS_CardinalityType
  <2>3. u \notin J => Cardinality(u) \in I
    BY <2>1
  <2>4. Cardinality(u) \in Nat /\ Cardinality(s) \in Nat
    BY <2>1, FS_CardinalityType
  <2> HIDE DEF I
  <2> QED
    BY <1>2, <1>3, <2>2, <2>3, <2>4
<1> QED
  BY <1>3, <1>4

-----------------------------------------------------------------------------
(* Adding up over a set of threads *)

SumOver(alloc, r, F) == MapThenSumSet(LAMBDA i : alloc[i][r], F)

(* The recursive function by which that is defined. *)
Pick(s) == CHOOSE x \in s : TRUE
AddsUp(it, alloc, r, D) ==
    it = [s \in D |-> IF s = {} THEN 0 ELSE alloc[Pick(s)][r] + it[s \ {Pick(s)}]]

(* There is such a function, for the subsets of any finite set. *)
LEMMA SumExists ==
    ASSUME NEW F, IsFiniteSet(F), NEW alloc, NEW r
    PROVE  \E it : AddsUp(it, alloc, r, SUBSET F)
<1> DEFINE D(n) == {s \in SUBSET F : Cardinality(s) <= n}
           I == {n \in Nat : \E it : AddsUp(it, alloc, r, D(n))}
<1>0. \A s \in SUBSET F : IsFiniteSet(s) /\ Cardinality(s) \in Nat
  BY FS_Subset, FS_CardinalityType
<1>1. 0 \in I
  <2>1. D(0) = {{}}
    BY <1>0, FS_EmptySet
  <2> HIDE DEF D
  <2> DEFINE it == [s \in D(0) |-> 0]
  <2>2. AddsUp(it, alloc, r, D(0))
    BY <2>1 DEF AddsUp
  <2> QED
    BY <2>2
<1>2. ASSUME NEW n \in I \cap Nat PROVE n + 1 \in I
  <2>1. PICK it : AddsUp(it, alloc, r, D(n))
    OBVIOUS
  <2> DEFINE next(s) == IF s = {} THEN 0 ELSE alloc[Pick(s)][r] + it[s \ {Pick(s)}]
             up == [s \in D(n + 1) |-> next(s)]
  <2>2. ASSUME NEW s \in D(n + 1), s # {}
        PROVE  s \ {Pick(s)} \in D(n) /\ s \ {Pick(s)} \in D(n + 1)
    <3>1. Pick(s) \in s
      BY <2>2 DEF Pick
    <3>2. Cardinality(s \ {Pick(s)}) = Cardinality(s) - 1
      BY <1>0, <3>1, FS_RemoveElement
    <3> QED
      BY <1>0, <3>2
  <2>3. \A s \in D(n) : s \in D(n + 1) /\ it[s] = next(s)
    <3>1. \A s \in D(n) : s \in D(n + 1)
      BY <1>0
    <3> HIDE DEF D
    <3>2. \A s \in D(n) : it[s] = next(s)
      BY <2>1 DEF AddsUp
    <3> QED
      BY <3>1, <3>2
  <2>4. \A s \in D(n) : up[s] = it[s]
    BY <2>3
  <2> HIDE DEF D
  <2>5. \A s \in D(n + 1) :
           up[s] = IF s = {} THEN 0 ELSE alloc[Pick(s)][r] + up[s \ {Pick(s)}]
    BY <2>2, <2>4
  <2>6. up = [s \in D(n + 1) |-> up[s]]
    OBVIOUS
  <2> HIDE DEF up
  <2>7. AddsUp(up, alloc, r, D(n + 1))
    BY <2>5, <2>6 DEF AddsUp
  <2> QED
    BY <2>7
<1>3. Cardinality(F) \in I
  <2> HIDE DEF I
  <2> QED
    BY <1>0, <1>1, <1>2, NumberInduction
<1>4. D(Cardinality(F)) = SUBSET F
  BY <1>0, FS_Subset
<1> QED
  BY <1>3, <1>4

(* A sum is the last entry of the table that adds up. *)
LEMMA SumIs ==
    ASSUME NEW F, IsFiniteSet(F), NEW alloc, NEW r
    PROVE  \E it : AddsUp(it, alloc, r, SUBSET F) /\ SumOver(alloc, r, F) = it[F]
<1> DEFINE it == CHOOSE f : AddsUp(f, alloc, r, SUBSET F)
<1>1. AddsUp(it, alloc, r, SUBSET F)
  BY SumExists
<1>2. SumOver(alloc, r, F) = it[F]
  BY DEF SumOver, MapThenSumSet, MapThenFoldSet, AddsUp, Pick
<1> QED
  BY <1>1, <1>2

(* Whichever element is taken out first, the sums are the same. *)
LEMMA AnyOrder ==
    ASSUME NEW F, IsFiniteSet(F), NEW alloc, NEW r, \A i \in F : alloc[i][r] \in Int,
           NEW it, AddsUp(it, alloc, r, SUBSET F), NEW s \in SUBSET F
    PROVE  it[s] \in Int /\ \A x \in s : it[s] = alloc[x][r] + it[s \ {x}]
<1> DEFINE J == {u \in SUBSET F : /\ it[u] \in Int
                                  /\ \A x \in u : it[u] = alloc[x][r] + it[u \ {x}]}
<1>1. it[{}] = 0
  BY DEF AddsUp
<1>2. ASSUME NEW v \in SUBSET F, \A u \in SUBSET v : u # v => u \in J
      PROVE  v \in J
  <2>1. CASE v = {}
    BY <1>1, <2>1
  <2>2. CASE v # {}
    <3> DEFINE y == Pick(v)
    <3>1. y \in v
      BY <2>2 DEF Pick
    <3>2. it[v] = alloc[y][r] + it[v \ {y}]
      BY <2>2 DEF AddsUp
    <3> HIDE DEF y
    <3>3. it[v \ {y}] \in Int /\ alloc[y][r] \in Int
      BY <1>2, <3>1
    <3>4. ASSUME NEW x \in v, x # y PROVE it[v] = alloc[x][r] + it[v \ {x}]
      <4> DEFINE both == (v \ {x}) \ {y}
      <4>1. v \ {x} \in J /\ v \ {y} \in J
        BY <1>2, <3>1
      <4>2. (v \ {y}) \ {x} = both
        OBVIOUS
      <4>3. both \in J
        BY <1>2, <3>1
      <4>4. it[v \ {x}] = alloc[y][r] + it[both]
        BY <3>1, <3>4, <4>1
      <4>5. it[v \ {y}] = alloc[x][r] + it[both]
        BY <3>4, <4>1, <4>2
      <4>6. alloc[x][r] \in Int /\ it[both] \in Int
        BY <3>4, <4>3
      <4> HIDE DEF both
      <4> QED
        BY <3>2, <3>3, <4>4, <4>5, <4>6
    <3>5. it[v] \in Int
      BY <3>2, <3>3
    <3>6. \A x \in v : it[v] = alloc[x][r] + it[v \ {x}]
      BY <3>2, <3>4
    <3> QED
      BY <3>5, <3>6
  <2> QED
    BY <2>1, <2>2
<1>3. SUBSET F \subseteq J
  <2> HIDE DEF J
  <2> QED
    BY <1>2, SubsetInduction
<1> QED
  BY <1>1, <1>3

(* Nothing adds up to 0, and any element can be taken out of a sum. *)
LEMMA SumSplit ==
    ASSUME NEW F, IsFiniteSet(F), NEW alloc, NEW r, \A i \in F : alloc[i][r] \in Int
    PROVE  /\ SumOver(alloc, r, {}) = 0
           /\ SumOver(alloc, r, F) \in Int
           /\ \A x \in F : SumOver(alloc, r, F) = alloc[x][r] + SumOver(alloc, r, F \ {x})
<1>1. SumOver(alloc, r, {}) = 0
  <2>1. PICK it : AddsUp(it, alloc, r, SUBSET {}) /\ SumOver(alloc, r, {}) = it[{}]
    BY SumIs, FS_EmptySet
  <2> QED
    BY <2>1 DEF AddsUp
<1>2. PICK it : AddsUp(it, alloc, r, SUBSET F) /\ SumOver(alloc, r, F) = it[F]
  BY SumIs
<1>3. ASSUME NEW x \in F PROVE it[F] = alloc[x][r] + it[F \ {x}]
  <2>1. F \in SUBSET F /\ F \ {x} \in SUBSET F /\ AddsUp(it, alloc, r, SUBSET F)
    BY <1>2
  <2>2. it[F] \in Int /\ it[F \ {x}] \in Int
    BY <2>1, AnyOrder
  <2> QED
    BY <2>1, <2>2, AnyOrder
<1>4. it[F] \in Int
  BY <1>2, AnyOrder
<1>5. ASSUME NEW x \in F PROVE SumOver(alloc, r, F \ {x}) = it[F \ {x}]
  <2> DEFINE G == F \ {x}
  <2>1. IsFiniteSet(G) /\ G \subseteq F
    BY FS_Subset
  <2> HIDE DEF G
  <2>2. PICK sub : AddsUp(sub, alloc, r, SUBSET G) /\ SumOver(alloc, r, G) = sub[G]
    BY <2>1, SumIs
  <2> DEFINE J == {s \in SUBSET G : sub[s] = it[s]}
  <2>3. ASSUME NEW s \in SUBSET G, \A u \in SUBSET s : u # s => u \in J PROVE s \in J
    <3>1. s \in SUBSET F
      BY <2>1
    <3>2. CASE s = {}
      BY <1>2, <2>2, <3>1, <3>2 DEF AddsUp
    <3>3. CASE s # {}
      <4>1. /\ it[s] = alloc[Pick(s)][r] + it[s \ {Pick(s)}]
            /\ sub[s] = alloc[Pick(s)][r] + sub[s \ {Pick(s)}]
        BY <1>2, <2>2, <3>1, <3>3 DEF AddsUp
      <4>2. Pick(s) \in s
        BY <3>3 DEF Pick
      <4>3. s \ {Pick(s)} \in J
        BY <2>3, <4>2
      <4> QED
        BY <4>1, <4>3
    <3> QED
      BY <3>2, <3>3
  <2>4. SUBSET G \subseteq J
    <3> HIDE DEF J
    <3> QED
      BY <2>1, <2>3, SubsetInduction
  <2> QED
    BY <2>2, <2>4 DEF G
<1> QED
  BY <1>1, <1>2, <1>3, <1>4, <1>5

(* One entry can be taken out of a sum. *)
LEMMA SumPeel ==
    ASSUME NEW F, IsFiniteSet(F), NEW alloc, NEW r, \A i \in F : alloc[i][r] \in Int,
           NEW x \in F
    PROVE  /\ alloc[x][r] \in Int
           /\ SumOver(alloc, r, F) \in Int /\ SumOver(alloc, r, F \ {x}) \in Int
           /\ SumOver(alloc, r, F) = alloc[x][r] + SumOver(alloc, r, F \ {x})
<1>1. IsFiniteSet(F \ {x}) /\ \A i \in F \ {x} : alloc[i][r] \in Int
  BY FS_RemoveElement
<1>2. SumOver(alloc, r, F) \in Int /\ SumOver(alloc, r, F \ {x}) \in Int
  BY <1>1, SumSplit
<1> QED
  BY <1>2, SumSplit

(* A sum of counts is no less than the sum of some of them, ...            *)
LEMMA SumGrows ==
    ASSUME NEW F, IsFiniteSet(F), NEW alloc, NEW r, \A i \in F : alloc[i][r] \in Nat,
           NEW G \in SUBSET F
    PROVE  /\ SumOver(alloc, r, G) \in Nat /\ SumOver(alloc, r, F) \in Nat
           /\ SumOver(alloc, r, G) <= SumOver(alloc, r, F)
<1> DEFINE J == {s \in SUBSET F : SumOver(alloc, r, s) \in Nat}
           K == {s \in SUBSET F : G \subseteq s =>
                                  SumOver(alloc, r, G) <= SumOver(alloc, r, s)}
<1>1. ASSUME NEW s \in SUBSET F, NEW x \in s
      PROVE  /\ alloc[x][r] \in Nat
             /\ SumOver(alloc, r, s) \in Int /\ SumOver(alloc, r, s \ {x}) \in Int
             /\ SumOver(alloc, r, s) = alloc[x][r] + SumOver(alloc, r, s \ {x})
  <2>1. IsFiniteSet(s) /\ \A i \in s : alloc[i][r] \in Int
    BY FS_Subset
  <2>2. alloc[x][r] \in Nat
    OBVIOUS
  <2> QED
    BY <2>1, <2>2, SumPeel
<1>2. ASSUME NEW s \in SUBSET F, \A u \in SUBSET s : u # s => u \in J PROVE s \in J
  <2>1. CASE s = {}
    BY <2>1, SumSplit
  <2>2. CASE s # {}
    <3>1. PICK x \in s : TRUE
      BY <2>2
    <3>2. s \ {x} \in J
      BY <1>2
    <3> QED
      BY <1>1, <3>2
  <2> QED
    BY <2>1, <2>2
<1>3. SUBSET F \subseteq J
  <2> HIDE DEF J
  <2> QED
    BY <1>2, SubsetInduction
<1>4. \A s \in SUBSET F : SumOver(alloc, r, s) \in Nat
  BY <1>3
<1>5. ASSUME NEW s \in SUBSET F, \A u \in SUBSET s : u # s => u \in K PROVE s \in K
  <2> SUFFICES ASSUME G \subseteq s, G # s
               PROVE  SumOver(alloc, r, G) <= SumOver(alloc, r, s)
    BY <1>4
  <2>1. PICK x \in s : x \notin G
    OBVIOUS
  <2>2. SumOver(alloc, r, G) <= SumOver(alloc, r, s \ {x})
    BY <1>5, <2>1
  <2>3. SumOver(alloc, r, G) \in Nat
    BY <1>4
  <2> QED
    BY <1>1, <2>2, <2>3
<1>6. SUBSET F \subseteq K
  <2> HIDE DEF K
  <2> QED
    BY <1>5, SubsetInduction
<1> QED
  BY <1>4, <1>6

(* ... it does not change with what is 0, ...                              *)
LEMMA SumSkipsZero ==
    ASSUME NEW F, IsFiniteSet(F), NEW alloc, NEW r, \A i \in F : alloc[i][r] \in Int,
           NEW G \in SUBSET F, \A i \in F \ G : alloc[i][r] = 0
    PROVE  SumOver(alloc, r, F) = SumOver(alloc, r, G)
<1> DEFINE K == {s \in SUBSET F : G \subseteq s =>
                                  SumOver(alloc, r, s) = SumOver(alloc, r, G)}
<1>1. ASSUME NEW s \in SUBSET F, \A u \in SUBSET s : u # s => u \in K PROVE s \in K
  <2> SUFFICES ASSUME G \subseteq s, G # s
               PROVE  SumOver(alloc, r, s) = SumOver(alloc, r, G)
    OBVIOUS
  <2>1. PICK x \in s : x \notin G
    OBVIOUS
  <2>2. SumOver(alloc, r, s \ {x}) = SumOver(alloc, r, G)
    BY <1>1, <2>1
  <2>3. IsFiniteSet(s) /\ \A i \in s : alloc[i][r] \in Int
    BY FS_Subset
  <2>4. /\ SumOver(alloc, r, s) \in Int /\ SumOver(alloc, r, s \ {x}) \in Int
        /\ SumOver(alloc, r, s) = alloc[x][r] + SumOver(alloc, r, s \ {x})
    BY <2>3, SumPeel
  <2>5. alloc[x][r] = 0
    BY <2>1
  <2> QED
    BY <2>2, <2>4, <2>5
<1>2. SUBSET F \subseteq K
  <2> HIDE DEF K
  <2> QED
    BY <1>1, SubsetInduction
<1> QED
  BY <1>2

(* ... and it is the same for tables that agree.                           *)
LEMMA SumSame ==
    ASSUME NEW F, IsFiniteSet(F), NEW alloc, NEW new, NEW r,
           \A i \in F : alloc[i][r] \in Int /\ new[i][r] = alloc[i][r]
    PROVE  SumOver(new, r, F) = SumOver(alloc, r, F)
<1> DEFINE J == {s \in SUBSET F : SumOver(new, r, s) = SumOver(alloc, r, s)}
<1>1. ASSUME NEW s \in SUBSET F, \A u \in SUBSET s : u # s => u \in J PROVE s \in J
  <2>1. CASE s = {}
    BY <2>1, SumSplit, FS_EmptySet
  <2>2. CASE s # {}
    <3>1. PICK x \in s : TRUE
      BY <2>2
    <3>2. s \ {x} \in J
      BY <1>1
    <3>3. IsFiniteSet(s) /\ \A i \in s : alloc[i][r] \in Int /\ new[i][r] \in Int
      BY FS_Subset
    <3>4. /\ SumOver(alloc, r, s \ {x}) \in Int
          /\ SumOver(alloc, r, s) = alloc[x][r] + SumOver(alloc, r, s \ {x})
      BY <3>3, SumPeel
    <3>5. /\ SumOver(new, r, s \ {x}) \in Int
          /\ SumOver(new, r, s) = new[x][r] + SumOver(new, r, s \ {x})
      <4>1. \A i \in s : new[i][r] \in Int
        BY <3>3
      <4>2. new[x][r] \in Int /\ SumOver(new, r, s) \in Int /\ SumOver(new, r, s \ {x}) \in Int
        BY <3>3, <4>1, SumPeel
      <4> QED
        BY <3>3, <4>1, <4>2, SumPeel
    <3>6. new[x][r] = alloc[x][r]
      OBVIOUS
    <3> QED
      BY <3>2, <3>4, <3>5, <3>6
  <2> QED
    BY <2>1, <2>2
<1>2. SUBSET F \subseteq J
  <2> HIDE DEF J
  <2> QED
    BY <1>1, SubsetInduction
<1> QED
  BY <1>2

(* Changing one entry changes the sum by as much.                          *)
SumFollows(new, alloc, r, F, x) ==
    SumOver(new, r, F) = SumOver(alloc, r, F) - alloc[x][r] + new[x][r]

(* (Stated of all entries at which the two tables agree.) *)
LEMMA SumExcept ==
    ASSUME NEW F, IsFiniteSet(F), NEW alloc, NEW new, NEW r, NEW x \in F,
           \A i \in F : alloc[i][r] \in Int, new[x][r] \in Int,
           \A i \in F : i # x => new[i][r] = alloc[i][r]
    PROVE  SumFollows(new, alloc, r, F, x)
<1> DEFINE G == F \ {x}
<1>1. IsFiniteSet(G) /\ \A i \in F : new[i][r] \in Int
  BY FS_RemoveElement
<1>2. SumOver(new, r, G) = SumOver(alloc, r, G)
  BY <1>1, SumSame
<1>3. /\ alloc[x][r] \in Int
      /\ SumOver(alloc, r, F) \in Int /\ SumOver(alloc, r, G) \in Int
      /\ SumOver(alloc, r, F) = alloc[x][r] + SumOver(alloc, r, G)
  <2>1. /\ alloc[x][r] \in Int
        /\ SumOver(alloc, r, F) \in Int /\ SumOver(alloc, r, G) \in Int
    BY SumPeel
  <2> QED
    BY <2>1, SumPeel
<1>4. /\ SumOver(new, r, F) \in Int /\ SumOver(new, r, G) \in Int
      /\ SumOver(new, r, F) = new[x][r] + SumOver(new, r, G)
  BY <1>1, SumPeel
<1> HIDE DEF G
<1> QED
  BY <1>2, <1>3, <1>4 DEF SumFollows

-----------------------------------------------------------------------------
(* What is free once some threads have finished *)

(* It is, for each type, what was free and what they held. *)
LEMMA WorkIs ==
    ASSUME NEW avail \in Vector, NEW alloc, NEW F
    PROVE  /\ DOMAIN Work(avail, alloc, F) = Resources
           /\ \A r \in Resources :
                 Work(avail, alloc, F)[r] = avail[r] + SumOver(alloc, r, F)
<1>1. DOMAIN avail = Resources
  BY DEF Vector
<1> QED
  BY <1>1 DEF Work, SumOver, MapThenSumSet, MapThenFoldSet

(* The one who finishes last gives back its own. *)
LEMMA WorkAddsOne ==
    ASSUME NEW F \in SUBSET Threads, IsFiniteSet(F), NEW i \in F,
           NEW avail \in Counts, NEW alloc \in [Threads -> Counts]
    PROVE  Work(avail, alloc, F) = Add(Work(avail, alloc, F \ {i}), alloc[i])
<1> DEFINE W(s) == Work(avail, alloc, s)
<1>1. ASSUME NEW r \in Resources PROVE W(F)[r] = W(F \ {i})[r] + alloc[i][r]
  <2>1. avail[r] \in Int /\ \A j \in F : alloc[j][r] \in Int
    BY DEF Counts
  <2>2. \A s : W(s)[r] = avail[r] + SumOver(alloc, r, s)
    BY CountsAreVectors, WorkIs
  <2>3. /\ alloc[i][r] \in Int
        /\ SumOver(alloc, r, F) \in Int /\ SumOver(alloc, r, F \ {i}) \in Int
    BY <2>1, SumPeel
  <2>4. SumOver(alloc, r, F) = alloc[i][r] + SumOver(alloc, r, F \ {i})
    BY <2>1, <2>3, SumPeel
  <2> HIDE DEF W
  <2> QED
    BY <2>1, <2>2, <2>3, <2>4
<1>2. \A s : W(s) = [r \in Resources |-> W(s)[r]]
  BY DEF Work, Counts
<1> HIDE DEF W
<1>3. W(F) = Add(W(F \ {i}), alloc[i])
  BY <1>1, <1>2 DEF Add
<1> QED
  BY <1>3 DEF W

(* The more have finished the more is free, and each gives back its own.   *)
LEMMA WorkGrows ==
    ASSUME NEW F \in SUBSET Threads, IsFiniteSet(F), NEW G \in SUBSET F,
           NEW avail \in Counts, NEW alloc \in [Threads -> Counts]
    PROVE  /\ Work(avail, alloc, F) \in [Resources -> Nat]
           /\ Work(avail, alloc, G) \in [Resources -> Nat]
           /\ Leq(Work(avail, alloc, G), Work(avail, alloc, F))
           /\ Work(avail, alloc, {}) = avail
           /\ \A i \in F : Work(avail, alloc, F)
                              = Add(Work(avail, alloc, F \ {i}), alloc[i])
<1> USE CountsAreVectors, ClaimsAssumption DEF ClaimsAssumption
<1> DEFINE W(s) == Work(avail, alloc, s)
<1>1. ASSUME NEW r \in Resources
      PROVE  /\ avail[r] \in Nat /\ \A i \in Threads : alloc[i][r] \in Nat
             /\ \A s : W(s)[r] = avail[r] + SumOver(alloc, r, s)
             /\ SumOver(alloc, r, G) \in Nat /\ SumOver(alloc, r, F) \in Nat
             /\ SumOver(alloc, r, G) <= SumOver(alloc, r, F)
             /\ SumOver(alloc, r, {}) = 0
  <2>1. avail[r] \in Nat /\ \A i \in Threads : alloc[i][r] \in Nat
    BY DEF Counts
  <2>2. \A s : W(s)[r] = avail[r] + SumOver(alloc, r, s)
    BY WorkIs
  <2>3. \A i \in F : alloc[i][r] \in Nat /\ alloc[i][r] \in Int
    BY <2>1
  <2> QED
    BY <2>1, <2>2, <2>3, SumGrows, SumSplit
<1>2. \A s : W(s) = [r \in Resources |-> W(s)[r]]
  BY DEF Work, Counts
<1> HIDE DEF W
<1>3. W(F) \in [Resources -> Nat] /\ W(G) \in [Resources -> Nat]
  <2>1. \A r \in Resources : W(F)[r] \in Nat /\ W(G)[r] \in Nat
    BY <1>1
  <2> QED
    BY <1>2, <2>1
<1>4. Leq(W(G), W(F))
  BY <1>1, <1>3 DEF Leq
<1>5. W({}) = avail
  <2>1. \A r \in Resources : W({})[r] = avail[r]
    BY <1>1
  <2>2. avail = [r \in Resources |-> avail[r]]
    BY DEF Counts
  <2> QED
    BY <1>2, <2>1, <2>2
<1>6. ASSUME NEW i \in F PROVE W(F) = Add(W(F \ {i}), alloc[i])
  BY WorkAddsOne DEF W
<1> QED
  BY <1>3, <1>4, <1>5, <1>6 DEF W

(* Those who hold nothing add nothing. *)
LEMMA WorkSkipsQuit ==
    ASSUME NEW F \in SUBSET Threads, IsFiniteSet(F), NEW G \in SUBSET F,
           NEW avail \in Counts, NEW alloc \in [Threads -> Counts],
           \A i \in F \ G : alloc[i] = Zero
    PROVE  Work(avail, alloc, F) = Work(avail, alloc, G)
<1>1. ASSUME NEW r \in Resources
      PROVE  Work(avail, alloc, F)[r] = Work(avail, alloc, G)[r]
  <2>1. \A i \in F : alloc[i][r] \in Int
    BY ClaimsAssumption DEF Counts, ClaimsAssumption
  <2>2. \A i \in F \ G : alloc[i][r] = 0
    BY DEF Zero
  <2>3. SumOver(alloc, r, F) = SumOver(alloc, r, G)
    BY <2>1, <2>2, SumSkipsZero
  <2> QED
    BY <2>3, WorkIs, CountsAreVectors
<1>2. /\ Work(avail, alloc, F) \in [Resources -> Nat]
      /\ Work(avail, alloc, G) \in [Resources -> Nat]
  BY WorkGrows
<1> QED
  BY <1>1, <1>2

(* What moves between the free resources and a thread is not lost.         *)
LEMMA WorkMoves ==
    ASSUME NEW avail \in Vector, NEW alloc \in [Threads -> Vector],
           NEW t \in Threads, NEW q \in Vector
    PROVE  /\ Work(Add(avail, q), [alloc EXCEPT ![t] = Sub(@, q)], Threads)
                 = Work(avail, alloc, Threads)
           /\ Work(Sub(avail, q), [alloc EXCEPT ![t] = Add(@, q)], Threads)
                 = Work(avail, alloc, Threads)
<1> USE ClaimsAssumption DEF ClaimsAssumption
<1> DEFINE back == [alloc EXCEPT ![t] = Sub(@, q)]
           more == [alloc EXCEPT ![t] = Add(@, q)]
<1>1. /\ Add(avail, q) \in Vector /\ Sub(avail, q) \in Vector
      /\ back \in [Threads -> Vector] /\ more \in [Threads -> Vector]
  BY VectorOps
<1>2. ASSUME NEW r \in Resources
      PROVE  /\ Work(Add(avail, q), back, Threads)[r] = Work(avail, alloc, Threads)[r]
             /\ Work(Sub(avail, q), more, Threads)[r] = Work(avail, alloc, Threads)[r]
  <2>1. /\ Add(avail, q)[r] = avail[r] + q[r] /\ Sub(avail, q)[r] = avail[r] - q[r]
        /\ back[t][r] = alloc[t][r] - q[r] /\ more[t][r] = alloc[t][r] + q[r]
        /\ avail[r] \in Int /\ q[r] \in Int /\ alloc[t][r] \in Int
    BY VectorOps DEF Vector
  <2>2. /\ \A i \in Threads : alloc[i][r] \in Int
        /\ \A i \in Threads : back[i][r] \in Int /\ more[i][r] \in Int
        /\ \A i \in Threads : i # t => back[i][r] = alloc[i][r] /\ more[i][r] = alloc[i][r]
    BY <1>1 DEF Vector
  <2> HIDE DEF back, more
  <2>3. /\ SumOver(alloc, r, Threads) \in Int /\ SumOver(back, r, Threads) \in Int
        /\ SumOver(more, r, Threads) \in Int
        /\ alloc[t][r] \in Int /\ back[t][r] \in Int /\ more[t][r] \in Int
    BY <2>2, SumSplit
  <2>4. SumFollows(back, alloc, r, Threads, t)
    <3>1. /\ \A i \in Threads : alloc[i][r] \in Int
          /\ \A i \in Threads : i # t => back[i][r] = alloc[i][r]
      BY <2>2
    <3> QED
      BY <2>3, <3>1, SumExcept
  <2>5. SumFollows(more, alloc, r, Threads, t)
    <3>1. /\ \A i \in Threads : alloc[i][r] \in Int
          /\ \A i \in Threads : i # t => more[i][r] = alloc[i][r]
      BY <2>2
    <3> QED
      BY <2>3, <3>1, SumExcept
  <2>6. /\ Work(Add(avail, q), back, Threads)[r]
              = Add(avail, q)[r] + SumOver(back, r, Threads)
        /\ Work(Sub(avail, q), more, Threads)[r]
              = Sub(avail, q)[r] + SumOver(more, r, Threads)
        /\ Work(avail, alloc, Threads)[r] = avail[r] + SumOver(alloc, r, Threads)
    BY <1>1, WorkIs
  <2> QED
    BY <2>1, <2>3, <2>4, <2>5, <2>6 DEF SumFollows
<1>3. /\ Work(Add(avail, q), back, Threads)
            = [r \in Resources |-> Work(Add(avail, q), back, Threads)[r]]
      /\ Work(Sub(avail, q), more, Threads)
            = [r \in Resources |-> Work(Sub(avail, q), more, Threads)[r]]
      /\ Work(avail, alloc, Threads) = [r \in Resources |-> Work(avail, alloc, Threads)[r]]
  <2> HIDE DEF back, more
  <2> QED
    BY <1>1 DEF Work, Vector
<1> HIDE DEF back, more
<1>4. /\ Work(Add(avail, q), back, Threads) = Work(avail, alloc, Threads)
      /\ Work(Sub(avail, q), more, Threads) = Work(avail, alloc, Threads)
  BY <1>2, <1>3
<1> QED
  BY <1>4 DEF back, more

(* A thread that quits returns all it holds. *)
LEMMA WorkQuits ==
    ASSUME NEW avail \in Vector, NEW alloc \in [Threads -> Vector], NEW t \in Threads
    PROVE  Work(Add(avail, alloc[t]), [alloc EXCEPT ![t] = Zero], Threads)
              = Work(avail, alloc, Threads)
<1>1. Sub(alloc[t], alloc[t]) = Zero
  BY DEF Vector, Sub, Zero
<1>2. [alloc EXCEPT ![t] = Zero] = [alloc EXCEPT ![t] = Sub(@, alloc[t])]
  BY <1>1
<1>3. alloc[t] \in Vector
  OBVIOUS
<1>4. Work(Add(avail, alloc[t]), [alloc EXCEPT ![t] = Sub(@, alloc[t])], Threads)
         = Work(avail, alloc, Threads)
  BY <1>3, WorkMoves
<1> QED
  BY <1>2, <1>4

(* At first nobody holds anything. *)
LEMMA WorkStarts == Work(Total, [t \in Threads |-> Zero], Threads) = Total
<1> USE ClaimsAssumption DEF ClaimsAssumption
<1> DEFINE zero == [t \in Threads |-> Zero]
<1>1. zero \in [Threads -> Counts] /\ \A t \in Threads : zero[t] = Zero
  BY DEF Zero, Counts
<1>2. {} \in SUBSET Threads /\ {} \in SUBSET {} /\ IsFiniteSet({}) /\ Threads \in SUBSET Threads
  BY FS_EmptySet
<1> HIDE DEF zero
<1>3. Work(Total, zero, Threads) = Work(Total, zero, {})
  BY <1>1, <1>2, WorkSkipsQuit
<1>4. Work(Total, zero, {}) = Total
  BY <1>1, <1>2, WorkGrows
<1> QED
  BY <1>3, <1>4 DEF zero

(* There is never more free than there is. *)
LEMMA FreeIsCounted ==
    ASSUME NEW avail \in [Resources -> Nat], NEW alloc \in [Threads -> Counts],
           Work(avail, alloc, Threads) = Total
    PROVE  avail \in Counts
<1> USE ClaimsAssumption DEF ClaimsAssumption
<1>1. ASSUME NEW r \in Resources PROVE avail[r] \in 0..Cap
  <2>1. avail \in Vector
    BY DEF Vector
  <2>2. Total[r] = avail[r] + SumOver(alloc, r, Threads)
    BY <2>1, WorkIs
  <2>3. \A i \in Threads : alloc[i][r] \in Nat
    BY DEF Counts
  <2>4. SumOver(alloc, r, Threads) \in Nat
    BY <2>3, SumGrows
  <2> QED
    BY <2>2, <2>4 DEF Counts
<1> QED
  BY <1>1 DEF Counts

-----------------------------------------------------------------------------
(* Safe states *)

(* Giving resources back keeps a state safe although it raises the claim:  *)
(* the same order still works, with more to work with up to the thread     *)
(* that gave back.                                                         *)
LEMMA ReturnKeepsSafe ==
    ASSUME NEW S, IsFiniteSet(S), NEW avail \in Counts,
           NEW alloc \in [Threads -> Counts], NEW nd \in [Threads -> Counts],
           S \subseteq Threads, Safe(S, avail, alloc, nd),
           NEW t \in S, NEW back \in Counts, Leq(back, alloc[t])
    PROVE  Safe(S, Add(avail, back),
                [alloc EXCEPT ![t] = Sub(@, back)],
                [nd EXCEPT ![t] = Add(@, back)])
<1> DEFINE N == Cardinality(S)
           alloc2 == [alloc EXCEPT ![t] = Sub(@, back)]
           nd2 == [nd EXCEPT ![t] = Add(@, back)]
<1> USE CountsAreVectors
<1>0. N \in Nat
      BY SizeInNat
<1>1. PICK order \in Orders(S), work \in [1..(N + 1) -> Counts] :
               FinishInOrder(S, avail, alloc, nd, order, work)
      BY DEF Safe
<1>2. PICK p \in 1..N : order[p] = t
      BY DEF Orders
<1>3. order \in [1..N -> S] /\ \A k \in 1..N : order[k] = t => k = p
      BY <1>2 DEF Orders
<1> DEFINE work2 == [k \in 1..(N + 1) |->
                        IF k <= p THEN Add(work[k], back) ELSE work[k]]
<1> HIDE DEF N
<1>4. \A k \in 1..(N + 1), r \in Resources : work[k][r] \in 0..Cap
      BY <1>1 DEF Counts
<1>5. \A r \in Resources : work[p + 1][r] = work[p][r] + alloc[t][r]
  <2>1. work[p + 1] = Add(work[p], alloc[t])
        BY <1>0, <1>1, <1>2 DEF FinishInOrder, N
  <2> QED BY <2>1, <1>0, <1>1, <1>2, VectorOps
<1>6. \A i, j \in 1..(N + 1) : i <= j =>
         \A r \in Resources : work[i][r] <= work[j][r]
  <2>1. \A i, j \in 1..(N + 1) : i <= j => Leq(work[i], work[j])
        BY <1>1 DEF FinishInOrder, N
  <2> QED BY <2>1, <1>1, VectorOps
<1>7. \A r \in Resources : /\ back[r] \in 0..Cap
                            /\ alloc[t][r] \in 0..Cap
                            /\ back[r] <= alloc[t][r]
  <2>1. alloc[t] \in Counts
        OBVIOUS
  <2> QED BY <2>1, VectorOps DEF Counts
<1>8. \A k \in 1..(N + 1), r \in Resources :
         work2[k][r] = IF k <= p THEN work[k][r] + back[r] ELSE work[k][r]
      BY <1>1, VectorOps
<1>9. work2 \in [1..(N + 1) -> Vector]
      BY <1>1, VectorOps
<1>10. \A i \in S, r \in Resources :
          /\ nd[i][r] \in Int /\ alloc[i][r] \in Int
          /\ nd2[i][r] = nd[i][r] + IF i = t THEN back[r] ELSE 0
          /\ alloc2[i][r] = alloc[i][r] - IF i = t THEN back[r] ELSE 0
  <2>1. ASSUME NEW i \in S, NEW r \in Resources
        PROVE  /\ nd[i][r] \in Int /\ alloc[i][r] \in Int
               /\ nd2[i][r] = nd[i][r] + IF i = t THEN back[r] ELSE 0
               /\ alloc2[i][r] = alloc[i][r] - IF i = t THEN back[r] ELSE 0
    <3>1. nd[i] \in Counts /\ alloc[i] \in Counts
          OBVIOUS
    <3>2. CASE i = t
      <4>1. nd2[t] = Add(nd[t], back) /\ alloc2[t] = Sub(alloc[t], back)
            OBVIOUS
      <4> HIDE DEF nd2, alloc2
      <4>2. /\ Add(nd[t], back)[r] = nd[t][r] + back[r]
            /\ Sub(alloc[t], back)[r] = alloc[t][r] - back[r]
            BY <3>1, <3>2, VectorOps
      <4>3. nd[t][r] \in Int /\ alloc[t][r] \in Int
            BY <3>1, <3>2 DEF Counts
      <4> QED BY <3>2, <4>1, <4>2, <4>3
    <3>3. CASE i # t
          BY <3>1, <3>3 DEF Counts
    <3> QED BY <3>2, <3>3
  <2> QED BY <2>1
<1>11. \A i \in S : nd2[i] \in Vector /\ alloc2[i] \in Vector
  <2>1. ASSUME NEW i \in S PROVE nd2[i] \in Vector /\ alloc2[i] \in Vector
        BY VectorOps
  <2> QED BY <2>1
<1>12. work2[1] = Add(avail, back)
      BY <1>0, <1>1, <1>2 DEF FinishInOrder
<1> HIDE DEF work2, nd2, alloc2
<1>13. work2 \in [1..(N + 1) -> Counts]
  <2>1. ASSUME NEW k \in 1..(N + 1), NEW r \in Resources
        PROVE  work2[k][r] \in 0..Cap
    <3>1. CASE k <= p
      <4>1. /\ work[k][r] <= work[p][r] /\ work[p][r] \in 0..Cap
            /\ work[p + 1][r] \in 0..Cap
            BY <3>1, <1>0, <1>2, <1>4, <1>6
      <4>2. work[k][r] + back[r] \in 0..Cap
        <5>1. /\ work[k][r] \in 0..Cap /\ back[r] \in 0..Cap
              /\ alloc[t][r] \in 0..Cap /\ back[r] <= alloc[t][r]
              /\ work[p + 1][r] = work[p][r] + alloc[t][r]
              BY <1>4, <1>5, <1>7
        <5>2. Cap \in Int
              BY ClaimsAssumption DEF ClaimsAssumption
        <5> QED BY <5>1, <5>2, <4>1
      <4> QED BY <3>1, <4>2, <1>8
    <3>2. CASE ~(k <= p)
          BY <3>2, <1>4, <1>8
    <3> QED BY <3>1, <3>2
  <2> QED BY <2>1, <1>9 DEF Vector, Counts
<1>14. ASSUME NEW k \in 1..N PROVE Leq(nd2[order[k]], work2[k])
  <2>1. \A r \in Resources : nd[order[k]][r] <= work[k][r]
    <3>1. Leq(nd[order[k]], work[k])
          BY <1>1 DEF FinishInOrder, N
    <3> QED BY <3>1, <1>0, <1>1, <1>3, VectorOps
  <2>2. ASSUME NEW r \in Resources PROVE nd2[order[k]][r] <= work2[k][r]
    <3>1. /\ order[k] \in S /\ k \in 1..(N + 1)
          /\ nd[order[k]][r] \in Int /\ work[k][r] \in 0..Cap /\ back[r] \in 0..Cap
          /\ nd[order[k]][r] <= work[k][r]
          BY <2>1, <1>0, <1>3, <1>4, <1>7, <1>10
    <3>2. /\ nd2[order[k]][r] = nd[order[k]][r] + IF order[k] = t THEN back[r] ELSE 0
          /\ work2[k][r] = IF k <= p THEN work[k][r] + back[r] ELSE work[k][r]
          BY <3>1, <1>8, <1>10
    <3>3. order[k] = t => k <= p
          BY <1>0, <1>2, <1>3
    <3>4. PICK x, y, d : /\ x = nd[order[k]][r] /\ y = work[k][r] /\ d = back[r]
                         /\ x \in Int /\ y \in Int /\ d \in Int /\ d >= 0 /\ x <= y
          BY <3>1
    <3>5. CASE order[k] = t
      <4>1. nd2[order[k]][r] = x + d /\ work2[k][r] = y + d
            BY <3>2, <3>3, <3>4, <3>5
      <4> QED BY ONLY <3>4, <4>1
    <3>6. CASE order[k] # t
      <4>1. nd2[order[k]][r] = x + 0 /\ (work2[k][r] = y \/ work2[k][r] = y + d)
            BY <3>2, <3>4, <3>6
      <4> QED BY ONLY <3>4, <4>1
    <3> QED BY <3>5, <3>6
  <2> QED BY <2>2, <1>0, <1>3, <1>9, <1>11, VectorOps
<1>15. ASSUME NEW k \in 1..N
       PROVE  work2[k + 1] = Add(work2[k], alloc2[order[k]])
  <2>1. \A r \in Resources : work[k + 1][r] = work[k][r] + alloc[order[k]][r]
    <3>1. work[k + 1] = Add(work[k], alloc[order[k]])
          BY <1>1 DEF FinishInOrder, N
    <3> QED BY <3>1, <1>0, <1>1, <1>3, VectorOps
  <2>2. ASSUME NEW r \in Resources
        PROVE  work2[k + 1][r] = work2[k][r] + alloc2[order[k]][r]
        BY <2>1, <1>0, <1>2, <1>3, <1>4, <1>7, <1>8, <1>10
  <2>3. work2[k] \in Vector /\ work2[k + 1] \in Vector /\ alloc2[order[k]] \in Vector
    <3>1. k \in 1..(N + 1) /\ k + 1 \in 1..(N + 1) /\ order[k] \in S
          BY <1>0, <1>3
    <3>2. work2[k] \in Vector /\ work2[k + 1] \in Vector
          BY <3>1, <1>9
    <3> QED BY <3>1, <3>2, <1>11
  <2>4. /\ Add(work2[k], alloc2[order[k]]) \in Vector
        /\ \A r \in Resources : Add(work2[k], alloc2[order[k]])[r] = work2[k + 1][r]
        BY <2>2, <2>3, VectorOps
  <2> QED BY <2>3, <2>4, VectorEq
<1>16. ASSUME NEW i \in 1..(N + 1), NEW j \in 1..(N + 1), i <= j
       PROVE  Leq(work2[i], work2[j])
  <2>1. ASSUME NEW r \in Resources PROVE work2[i][r] <= work2[j][r]
    <3>a. /\ work[i][r] \in 0..Cap /\ work[j][r] \in 0..Cap
          /\ work[p][r] \in 0..Cap /\ work[p + 1][r] \in 0..Cap
          /\ back[r] \in 0..Cap /\ alloc[t][r] \in 0..Cap
          /\ back[r] <= alloc[t][r]
          BY <1>0, <1>2, <1>4, <1>7
    <3>b. /\ work[p + 1][r] = work[p][r] + alloc[t][r]
          /\ work[i][r] <= work[j][r]
          BY <1>16, <1>5, <1>6
    <3>c. /\ work2[i][r] = IF i <= p THEN work[i][r] + back[r] ELSE work[i][r]
          /\ work2[j][r] = IF j <= p THEN work[j][r] + back[r] ELSE work[j][r]
          BY <1>8
    <3> HIDE DEF work2
    <3>1. CASE j <= p
          BY <3>1, <1>16, <3>a, <3>b, <3>c
    <3>2. CASE i <= p /\ p < j
      <4>1. work[i][r] <= work[p][r] /\ work[p + 1][r] <= work[j][r]
            BY <3>2, <1>0, <1>2, <1>6
      <4>2. work[i][r] + back[r] <= work[j][r]
        <5>1. Cap \in Int
              BY ClaimsAssumption DEF ClaimsAssumption
        <5>2. /\ work[i][r] \in Int /\ work[j][r] \in Int /\ work[p][r] \in Int
              /\ work[p + 1][r] \in Int /\ back[r] \in Int /\ alloc[t][r] \in Int
              BY ONLY <3>a, <5>1
        <5>3. back[r] <= alloc[t][r] /\ work[p + 1][r] = work[p][r] + alloc[t][r]
              BY ONLY <3>a, <3>b
        <5>4. work[i][r] + back[r] <= work[p + 1][r]
              BY ONLY <4>1, <5>2, <5>3
        <5> QED BY ONLY <4>1, <5>2, <5>4
      <4>3. ~(j <= p)
            BY <3>2, <1>0, <1>2
      <4>4. work2[i][r] = work[i][r] + back[r] /\ work2[j][r] = work[j][r]
            BY ONLY <3>2, <3>c, <4>3
      <4> QED BY ONLY <4>2, <4>4
    <3>3. CASE p < i
          BY <3>3, <1>16, <3>a, <3>b, <3>c
    <3> QED BY <3>1, <3>2, <3>3
  <2> QED BY <2>1, <1>9, VectorOps
<1>17. FinishInOrder(S, Add(avail, back), alloc2, nd2, order, work2)
      BY <1>12, <1>14, <1>15, <1>16 DEF FinishInOrder, N
<1> QED BY <1>13, <1>17 DEF Safe, N, alloc2, nd2

-----------------------------------------------------------------------------
(* The check *)

(* The threads that can finish next, and the recursive function of issafe. *)
Ready(S, avail, alloc, nd, F) ==
    {i \in S \ F : Leq(nd[i], Work(avail, alloc, F))}
Finishes(f, S, avail, alloc, nd) ==
    f = [F \in SUBSET S |-> IF Ready(S, avail, alloc, nd, F) = {} THEN F
                            ELSE f[F \cup Ready(S, avail, alloc, nd, F)]]

(* Who can finish after some have finished can finish after more have,     *)
(* unless it has finished itself.                                          *)
LEMMA ReadyGrows ==
    ASSUME NEW S \in SUBSET Threads, IsFiniteSet(S), NEW avail \in Counts,
           NEW alloc \in [Threads -> Counts], NEW nd \in [Threads -> Counts],
           NEW X \in SUBSET S, NEW F \in SUBSET X
    PROVE  Ready(S, avail, alloc, nd, F) \subseteq X \cup Ready(S, avail, alloc, nd, X)
<1> SUFFICES ASSUME NEW i \in S \ X, Leq(nd[i], Work(avail, alloc, F))
             PROVE  Leq(nd[i], Work(avail, alloc, X))
  BY DEF Ready
<1>1. IsFiniteSet(X)
  BY FS_Subset
<1>2. /\ Work(avail, alloc, X) \in [Resources -> Nat]
      /\ Work(avail, alloc, F) \in [Resources -> Nat]
      /\ Leq(Work(avail, alloc, F), Work(avail, alloc, X))
  BY <1>1, WorkGrows
<1>3. nd[i] \in [Resources -> 0..Cap]
  BY DEF Counts
<1> QED
  BY <1>2, <1>3, ClaimsAssumption DEF Leq, ClaimsAssumption

(* The recursion is well defined: the set with no ready thread outside it  *)
(* that it ends with is the least one.                                     *)
LEMMA FinishExists ==
    ASSUME NEW S \in SUBSET Threads, IsFiniteSet(S), NEW avail \in Counts,
           NEW alloc \in [Threads -> Counts], NEW nd \in [Threads -> Counts]
    PROVE  \E f : Finishes(f, S, avail, alloc, nd)
<1> DEFINE more(F) == Ready(S, avail, alloc, nd, F)
           ends(F) == {X \in SUBSET S : F \subseteq X /\ more(X) = {}}
           f == [F \in SUBSET S |-> {i \in S : \A X \in ends(F) : i \in X}]
<1>1. ASSUME NEW F \in SUBSET S, more(F) = {} PROVE f[F] = F
  BY <1>1
<1>2. ASSUME NEW F \in SUBSET S
      PROVE  F \cup more(F) \in SUBSET S /\ ends(F) = ends(F \cup more(F))
  <2>1. \A X \in ends(F) : more(F) \subseteq X
    BY ReadyGrows
  <2>2. more(F) \subseteq S
    BY DEF Ready
  <2> HIDE DEF more
  <2> QED
    BY <2>1, <2>2
<1>3. \A F \in SUBSET S : f[F] = f[F \cup more(F)]
  <2> HIDE DEF ends
  <2> QED
    BY <1>2
<1>4. f = [F \in SUBSET S |-> IF more(F) = {} THEN F ELSE f[F \cup more(F)]]
  <2>1. \A F \in SUBSET S : f[F] = IF more(F) = {} THEN F ELSE f[F \cup more(F)]
    <3> HIDE DEF f, more
    <3> QED
      BY <1>1, <1>3
  <2>2. f = [F \in SUBSET S |-> f[F]]
    OBVIOUS
  <2> HIDE DEF f, more
  <2> QED
    BY <2>1, <2>2
<1> QED
  <2> HIDE DEF f
  <2> QED
    BY <1>4 DEF Finishes

(* If the check says yes, no smaller set than S is such an end.            *)
LEMMA CheckReachesAll ==
    ASSUME NEW S \in SUBSET Threads, IsFiniteSet(S), NEW avail \in Counts,
           NEW alloc \in [Threads -> Counts], NEW nd \in [Threads -> Counts],
           issafe(S, avail, alloc, nd),
           NEW X \in SUBSET S, Ready(S, avail, alloc, nd, X) = {}
    PROVE  X = S
<1> DEFINE more(F) == Ready(S, avail, alloc, nd, F)
           f == CHOOSE g : Finishes(g, S, avail, alloc, nd)
<1>1. Finishes(f, S, avail, alloc, nd)
  BY FinishExists
<1>2. f[{}] = S
  BY DEF issafe, Finishes, Ready
<1> HIDE DEF f
<1> DEFINE J == {d \in SUBSET X : f[X \ d] \subseteq X}
<1>3. ASSUME NEW d \in SUBSET X, \A u \in SUBSET d : u # d => u \in J PROVE d \in J
  <2> DEFINE F == X \ d
  <2>1. F \in SUBSET S /\ f[F] = IF more(F) = {} THEN F ELSE f[F \cup more(F)]
    BY <1>1 DEF Finishes
  <2>2. more(F) \subseteq X /\ more(F) \cap F = {}
    BY ReadyGrows DEF Ready
  <2> HIDE DEF more
  <2>3. CASE more(F) = {}
    BY <2>1, <2>3
  <2>4. CASE more(F) # {}
    <3> DEFINE u == d \ more(F)
    <3>1. u \in SUBSET d /\ u # d /\ X \ u = F \cup more(F)
      BY <2>2, <2>4
    <3>2. u \in J
      BY <1>3, <3>1
    <3> QED
      BY <2>1, <2>4, <3>1, <3>2
  <2> QED
    BY <2>3, <2>4
<1>4. IsFiniteSet(X)
  BY FS_Subset
<1>5. X \in J
  <2> HIDE DEF J
  <2> QED
    BY <1>3, <1>4, SubsetInduction
<1> QED
  BY <1>2, <1>5

(* The threads of F can finish one after the other, which leaves free what *)
(* the check says.                                                         *)
CanFinish(F, avail, alloc, nd) ==
    \E order \in Orders(F), work \in [1..(Cardinality(F) + 1) -> Counts] :
        /\ FinishInOrder(F, avail, alloc, nd, order, work)
        /\ work[Cardinality(F) + 1] = Work(avail, alloc, F)

(* An empty order serves nobody and leaves what was free. *)
LEMMA NobodyFinishes ==
    ASSUME NEW avail \in Counts, NEW alloc \in [Threads -> Counts], NEW nd
    PROVE  CanFinish({}, avail, alloc, nd)
<1> USE CountsAreVectors, ClaimsAssumption DEF ClaimsAssumption
<1> DEFINE order == [k \in 1..0 |-> k]
           work == [k \in 1..1 |-> avail]
<1>1. Cardinality({}) = 0 /\ IsFiniteSet({})
  BY FS_EmptySet
<1>2. order \in Orders({})
  BY <1>1 DEF Orders
<1>3. work \in [1..1 -> Counts] /\ FinishInOrder({}, avail, alloc, nd, order, work)
  <2>1. Leq(avail, avail)
    BY DEF Leq, Counts
  <2> QED
    BY <1>1, <2>1 DEF FinishInOrder
<1>4. work[1] = Work(avail, alloc, {})
  <2>1. {} \in SUBSET Threads /\ {} \in SUBSET {}
    OBVIOUS
  <2>2. Work(avail, alloc, {}) = avail
    BY <1>1, <2>1, WorkGrows
  <2> QED
    BY <2>2
<1> HIDE DEF order, work
<1>5. work \in [1..(Cardinality({}) + 1) -> Counts] /\ Cardinality({}) + 1 = 1
  BY <1>1, <1>3
<1> QED
  BY <1>2, <1>3, <1>4, <1>5 DEF CanFinish

(* An order that serves F is continued by a thread that can finish after   *)
(* F.                                                                      *)
LEMMA OneMoreFinishes ==
    ASSUME NEW F \in SUBSET Threads, NEW avail \in Counts,
           NEW alloc \in [Threads -> Counts], NEW nd \in [Threads -> Counts],
           CanFinish(F, avail, alloc, nd),
           NEW i \in Threads \ F, Leq(nd[i], Work(avail, alloc, F)),
           Work(avail, alloc, F \cup {i}) \in Counts
    PROVE  CanFinish(F \cup {i}, avail, alloc, nd)
<1> USE CountsAreVectors, ClaimsAssumption DEF ClaimsAssumption
<1> DEFINE G == F \cup {i}
           N == Cardinality(F)
<1>1. /\ IsFiniteSet(F) /\ IsFiniteSet(G) /\ N \in Nat /\ Cardinality(G) = N + 1
      /\ G \in SUBSET Threads
  BY FS_Subset, FS_AddElement, FS_CardinalityType
<1>2. PICK order \in Orders(F), work \in [1..(N + 1) -> Counts] :
         FinishInOrder(F, avail, alloc, nd, order, work) /\ work[N + 1] = Work(avail, alloc, F)
  BY DEF CanFinish
<1> DEFINE order2 == [k \in 1..(N + 1) |-> IF k <= N THEN order[k] ELSE i]
           work2 == [k \in 1..(N + 2) |-> IF k <= N + 1 THEN work[k] ELSE Work(avail, alloc, G)]
<1>3. order2 \in Orders(G)
  <2>1. /\ order \in [1..N -> F]
        /\ \A j, k \in 1..N : order[j] = order[k] => j = k
        /\ \A t \in F : \E k \in 1..N : order[k] = t
    BY <1>2 DEF Orders
  <2>2. order2 \in [1..(N + 1) -> G]
    BY <1>1, <2>1
  <2>3. \A j, k \in 1..(N + 1) : order2[j] = order2[k] => j = k
    BY <1>1, <2>1
  <2>4. \A t \in G : \E k \in 1..(N + 1) : order2[k] = t
    <3>1. ASSUME NEW t \in F PROVE \E k \in 1..(N + 1) : order2[k] = t
      BY <1>1, <2>1
    <3>2. order2[N + 1] = i /\ N + 1 \in 1..(N + 1)
      BY <1>1
    <3> QED
      BY <3>1, <3>2
  <2> HIDE DEF order2, G
  <2> QED
    BY <1>1, <2>2, <2>3, <2>4 DEF Orders
<1>4. Work(avail, alloc, G) = Add(Work(avail, alloc, F), alloc[i])
  <2>1. G \ {i} = F /\ i \in G /\ G \in SUBSET G
    OBVIOUS
  <2> HIDE DEF G
  <2> QED
    BY <1>1, <2>1, WorkAddsOne
<1>5. Leq(Work(avail, alloc, F), Work(avail, alloc, G))
  BY <1>1, WorkGrows
<1>6. work2 \in [1..(N + 2) -> Counts]
  BY <1>1, <1>2
<1>7. work2[1] = avail
  BY <1>1, <1>2 DEF FinishInOrder
<1>8. ASSUME NEW k \in 1..(N + 1)
      PROVE  Leq(nd[order2[k]], work2[k]) /\ work2[k + 1] = Add(work2[k], alloc[order2[k]])
  <2>1. CASE k <= N
    <3>1. k \in 1..N /\ order2[k] = order[k] /\ work2[k] = work[k] /\ work2[k + 1] = work[k + 1]
      BY <1>1, <2>1
    <3> QED
      BY <1>2, <3>1 DEF FinishInOrder
  <2>2. CASE k = N + 1
    <3>1. /\ order2[k] = i /\ work2[k] = Work(avail, alloc, F)
          /\ work2[k + 1] = Work(avail, alloc, G)
      BY <1>1, <1>2, <2>2
    <3> QED
      BY <1>4, <3>1
  <2> QED
    BY <1>1, <2>1, <2>2
<1>9. ASSUME NEW j \in 1..(N + 2), NEW k \in 1..(N + 2), j <= k
      PROVE  Leq(work2[j], work2[k])
  <2>0. \A a, b \in 1..(N + 1) : a <= b => Leq(work[a], work[b])
    BY <1>2 DEF FinishInOrder
  <2>1. CASE k <= N + 1
    <3>1. j \in 1..(N + 1) /\ k \in 1..(N + 1) /\ work2[j] = work[j] /\ work2[k] = work[k]
      BY <1>1, <1>9, <2>1
    <3> QED
      BY <1>9, <2>0, <3>1
  <2>2. CASE k = N + 2 /\ j <= N + 1
    <3>1. /\ j \in 1..(N + 1) /\ N + 1 \in 1..(N + 1)
          /\ work2[j] = work[j] /\ work2[k] = Work(avail, alloc, G)
      BY <1>1, <2>2
    <3>2. Leq(work[j], work[N + 1])
      BY <2>0, <3>1
    <3>3. work[j] \in Vector /\ work[N + 1] \in Vector /\ Work(avail, alloc, G) \in Vector
      BY <1>2, <3>1
    <3>4. Leq(work[N + 1], Work(avail, alloc, G))
      BY <1>2, <1>5
    <3> QED
      BY <3>1, <3>2, <3>3, <3>4, LeqOrder
  <2>3. CASE j = N + 2 /\ k = N + 2
    <3>1. work2[k] \in Counts
      BY <1>6
    <3> QED
      BY <2>3, <3>1, LeqOrder
  <2> QED
    BY <1>1, <1>9, <2>1, <2>2, <2>3
<1>10. work2[N + 2] = Work(avail, alloc, G)
  BY <1>1
<1> HIDE DEF order2, work2, G
<1>11. FinishInOrder(G, avail, alloc, nd, order2, work2)
  BY <1>1, <1>7, <1>8, <1>9 DEF FinishInOrder
<1> QED
  <2>1. Cardinality(G) + 1 = N + 2
    BY <1>1
  <2>2. CanFinish(G, avail, alloc, nd)
    BY <1>3, <1>6, <1>10, <1>11, <2>1 DEF CanFinish
  <2> QED
    BY <2>2 DEF G

(* The check is sound, also when it counts in threads that have quit: they *)
(* hold nothing.                                                           *)
THEOREM SafetyCheckSound ==
    ASSUME NEW S \in SUBSET Threads, NEW L \in SUBSET S, NEW avail \in Counts,
           NEW alloc \in [Threads -> Counts], NEW nd \in [Threads -> Counts],
           \A t \in S \ L : alloc[t] = Zero,
           Work(avail, alloc, S) \in Counts,
           issafe(S, avail, alloc, nd)
    PROVE  Safe(L, avail, alloc, nd)
<1> USE CountsAreVectors, ClaimsAssumption DEF ClaimsAssumption
<1> DEFINE W(F) == Work(avail, alloc, F)
           Done(F) == CanFinish(F, avail, alloc, nd)
           I == {Cardinality(L \ F) : F \in {G \in SUBSET L : Done(G)}}
<1>1. IsFiniteSet(S) /\ \A F \in SUBSET L : IsFiniteSet(F) /\ Cardinality(F) \in Nat
  BY FS_Subset, FS_CardinalityType
<1>2. PICK F \in SUBSET L : Done(F) /\ \A G \in SUBSET L : Done(G) =>
                               Cardinality(L \ F) <= Cardinality(L \ G)
  <2> HIDE DEF Done
  <2>1. I \subseteq Nat
    BY <1>1
  <2>2. Done({})
    BY NobodyFinishes DEF Done
  <2>3. PICK m \in I : \A n \in I : m <= n
    <3>1. I # {}
      BY <2>2
    <3> HIDE DEF I
    <3> QED
      BY <2>1, <3>1, LeastNumber
  <2> QED
    BY <2>3
<1> DEFINE X == F \cup (S \ L)
<1>3. X \in SUBSET S /\ IsFiniteSet(X)
  BY <1>1, FS_Subset
<1>4. W(X) = W(F)
  <2>1. \A t \in X \ F : alloc[t] = Zero
    OBVIOUS
  <2>2. F \in SUBSET X /\ X \in SUBSET Threads /\ X \in SUBSET X
    OBVIOUS
  <2> HIDE DEF X
  <2> QED
    BY <1>3, <2>1, <2>2, WorkSkipsQuit
<1>5. ASSUME NEW i \in S \ X PROVE ~Leq(nd[i], W(X))
  <2> SUFFICES ASSUME Leq(nd[i], W(F)) PROVE FALSE
    BY <1>4
  <2>1. i \in L \ F /\ F \cup {i} \in SUBSET L
    OBVIOUS
  <2>2. W(F \cup {i}) \in Counts
    <3>1. /\ W(F \cup {i}) \in [Resources -> Nat] /\ W(S) \in [Resources -> Nat]
          /\ Leq(W(F \cup {i}), W(S))
      BY <1>1, <2>1, WorkGrows
    <3> QED
      BY <3>1, LeqCounts
  <2>3. Done(F \cup {i})
    BY <1>2, <2>1, <2>2, OneMoreFinishes
  <2>4. Cardinality(L \ F) <= Cardinality(L \ (F \cup {i}))
    BY <1>2, <2>1, <2>3
  <2> DEFINE M == L \ F
  <2>5. L \ (F \cup {i}) = M \ {i} /\ i \in M /\ M \in SUBSET L
    OBVIOUS
  <2>6. IsFiniteSet(M) /\ Cardinality(M) \in Nat
    BY <1>1, <2>5
  <2> HIDE DEF M
  <2>7. Cardinality(M \ {i}) = Cardinality(M) - 1
    BY <2>5, <2>6, FS_RemoveElement
  <2> QED
    BY <2>4, <2>5, <2>6, <2>7 DEF M
<1>6. X = S
  <2> HIDE DEF X
  <2>1. Ready(S, avail, alloc, nd, X) = {}
    BY <1>5 DEF Ready
  <2> QED
    BY <1>1, <1>3, <2>1, CheckReachesAll
<1>7. F = L
  BY <1>6
<1> QED
  BY <1>2, <1>7 DEF CanFinish, Safe

(* It says yes if no smaller set than S is such an end. *)
LEMMA CheckSaysYes ==
    ASSUME NEW S \in SUBSET Threads, IsFiniteSet(S), NEW avail \in Counts,
           NEW alloc \in [Threads -> Counts], NEW nd \in [Threads -> Counts],
           \A X \in SUBSET S : Ready(S, avail, alloc, nd, X) = {} => X = S
    PROVE  issafe(S, avail, alloc, nd)
<1> DEFINE more(F) == Ready(S, avail, alloc, nd, F)
           f == CHOOSE g : Finishes(g, S, avail, alloc, nd)
<1>1. Finishes(f, S, avail, alloc, nd)
  BY FinishExists
<1>2. issafe(S, avail, alloc, nd) <=> f[{}] = S
  BY DEF issafe, Finishes, Ready
<1> HIDE DEF f
<1> DEFINE J == {d \in SUBSET S : f[S \ d] = S}
<1>3. ASSUME NEW d \in SUBSET S, \A u \in SUBSET d : u # d => u \in J PROVE d \in J
  <2> DEFINE F == S \ d
  <2>0. F \in SUBSET S /\ \A x : x \in F <=> x \in S /\ x \notin d
    OBVIOUS
  <2>1. f[F] = IF more(F) = {} THEN F ELSE f[F \cup more(F)]
    <3> DEFINE h == [G \in SUBSET S |-> IF more(G) = {} THEN G ELSE f[G \cup more(G)]]
    <3>1. f = h
      BY <1>1 DEF Finishes
    <3> HIDE DEF more, F
    <3>2. h[F] = IF more(F) = {} THEN F ELSE f[F \cup more(F)]
      BY <2>0
    <3> HIDE DEF h
    <3> QED
      BY <3>1, <3>2
  <2>2. more(F) \subseteq d
    BY DEF Ready
  <2>3. more(F) = {} => F = S
    BY <2>1
  <2> HIDE DEF more
  <2>4. CASE more(F) = {}
    BY <2>1, <2>3, <2>4
  <2>5. CASE more(F) # {}
    <3> DEFINE u == d \ more(F)
    <3>1. u \in SUBSET d /\ u # d
      BY <2>2, <2>5
    <3>2. S \ u = F \cup more(F)
      <4>1. d \in SUBSET S
        OBVIOUS
      <4> HIDE DEF F
      <4> QED
        BY <4>1, <2>0, <2>2
    <3>3. u \in J
      BY <1>3, <3>1
    <3> QED
      BY <2>1, <2>5, <3>2, <3>3
  <2> QED
    BY <2>4, <2>5
<1>4. S \in J
  <2> HIDE DEF J
  <2> QED
    BY <1>3, SubsetInduction
<1>5. S \ S = {}
  OBVIOUS
<1> QED
  BY <1>2, <1>4, <1>5

(* Once the first n threads of an order have finished, what is free is     *)
(* what the check counts.                                                  *)
FirstOf(order, n) == {order[j] : j \in 1..n}
Follows(work, avail, alloc, order, N) ==
    \A n \in 0..N : work[n + 1] = Work(avail, alloc, FirstOf(order, n))

(* By induction over the order. *)
LEMMA WorkFollows ==
    ASSUME NEW L \in SUBSET Threads, IsFiniteSet(L), NEW avail \in Counts,
           NEW alloc \in [Threads -> Counts], NEW nd,
           NEW order \in Orders(L), NEW work,
           FinishInOrder(L, avail, alloc, nd, order, work)
    PROVE  Follows(work, avail, alloc, order, Cardinality(L))
<1> DEFINE N == Cardinality(L)
           P(k) == {order[j] : j \in 1..k}
           I == {k \in Nat : k <= N => work[k + 1] = Work(avail, alloc, P(k))}
<1>1. N \in Nat
  BY SizeInNat
<1>2. /\ order \in [1..N -> L]
      /\ \A i, j \in 1..N : order[i] = order[j] => i = j
  BY DEF Orders
<1>3. /\ work[1] = avail
      /\ \A k \in 1..N : work[k + 1] = Add(work[k], alloc[order[k]])
  BY DEF FinishInOrder
<1> HIDE DEF N
<1>4. 0 \in I
  <2>1. P(0) = {}
    OBVIOUS
  <2>2. Work(avail, alloc, {}) = avail
    <3>1. {} \in SUBSET Threads /\ {} \in SUBSET {} /\ IsFiniteSet({})
      BY FS_EmptySet
    <3> QED
      BY <3>1, WorkGrows
  <2> QED
    BY <1>3, <2>1, <2>2
<1>5. ASSUME NEW k \in I \cap Nat PROVE k + 1 \in I
  <2> SUFFICES ASSUME k + 1 <= N
               PROVE  work[k + 2] = Work(avail, alloc, P(k + 1))
    BY <1>1
  <2> DEFINE i == order[k + 1]
  <2>1. k + 1 \in 1..N /\ k <= N /\ k + 1 + 1 = k + 2
    BY <1>1
  <2>2. i \in P(k + 1) /\ P(k + 1) \ {i} = P(k) /\ P(k + 1) \in SUBSET L
    <3>1. 1..(k + 1) = (1..k) \cup {k + 1} /\ 1..(k + 1) \subseteq 1..N
      BY <1>1, <2>1
    <3>2. \A j \in 1..k : j \in 1..N /\ j # k + 1 /\ order[j] # i
      BY <1>1, <1>2, <2>1
    <3> QED
      BY <3>1, <3>2, <1>2
  <2>3. work[k + 1] = Work(avail, alloc, P(k))
    BY <2>1
  <2> HIDE DEF i, P
  <2>4. IsFiniteSet(P(k + 1)) /\ P(k + 1) \in SUBSET Threads
    BY <2>2, FS_Subset
  <2>5. Work(avail, alloc, P(k + 1)) = Add(Work(avail, alloc, P(k)), alloc[i])
    BY <2>2, <2>4, WorkAddsOne
  <2> QED
    BY <1>3, <2>1, <2>3, <2>5 DEF i
<1>6. Nat \subseteq I
  <2> HIDE DEF I
  <2> QED
    BY <1>4, <1>5, NumberInduction
<1> QED
  BY <1>1, <1>6 DEF N, FirstOf, Follows

(* The check is complete: it finds an order whenever there is one, also    *)
(* when it counts in threads that have quit, which need nothing.           *)
THEOREM SafetyCheckComplete ==
    ASSUME NEW S \in SUBSET Threads, NEW L \in SUBSET S, NEW avail \in Counts,
           NEW alloc \in [Threads -> Counts], NEW nd \in [Threads -> Counts],
           \A t \in S \ L : nd[t] = Zero,
           Safe(L, avail, alloc, nd)
    PROVE  issafe(S, avail, alloc, nd)
<1> USE ClaimsAssumption DEF ClaimsAssumption
<1> DEFINE N == Cardinality(L)
<1>1. \A F \in SUBSET S : IsFiniteSet(F)
  BY FS_Subset
<1>2. N \in Nat
  BY <1>1, SizeInNat
<1>3. PICK order \in Orders(L), work \in [1..(N + 1) -> Counts] :
               FinishInOrder(L, avail, alloc, nd, order, work)
  BY DEF Safe
<1>4. /\ order \in [1..N -> L]
      /\ \A t \in L : \E k \in 1..N : order[k] = t
      /\ \A k \in 1..N : Leq(nd[order[k]], work[k])
  BY <1>3 DEF Orders, FinishInOrder
<1>5. ASSUME NEW X \in SUBSET S, Ready(S, avail, alloc, nd, X) = {}
      PROVE  X = S
  <2> DEFINE W == Work(avail, alloc, X)
             I == {k \in 1..N : order[k] \notin X}
  <2>1. W \in [Resources -> Nat] /\ IsFiniteSet(X) /\ X \in SUBSET Threads
    <3>1. IsFiniteSet(X) /\ X \in SUBSET Threads /\ X \in SUBSET X
      BY <1>1
    <3> QED
      BY <3>1, WorkGrows
  <2>2. \A i \in S \ X : ~Leq(nd[i], W)
    BY <1>5 DEF Ready
  <2> HIDE DEF W
  <2>3. S \ L \subseteq X
    <3>1. Leq(Zero, W)
      BY <2>1 DEF Leq, Zero
    <3> QED
      BY <3>1, <2>2
  <2>4. ASSUME I # {} PROVE FALSE
    <3>1. I \subseteq Nat
      BY <1>2
    <3>2. PICK m \in I : \A k \in I : m <= k
      BY <2>4, <3>1, LeastNumber
    <3> DEFINE P == {order[j] : j \in 1..(m - 1)}
    <3>3. m \in 1..N /\ m - 1 \in 0..N /\ order[m] \in S \ X
      BY <1>2, <1>4, <3>2
    <3>4. P \in SUBSET X
      <4>1. \A j \in 1..(m - 1) : j \in 1..N /\ j \notin I
        BY <1>2, <3>2, <3>3
      <4> QED
        BY <4>1
    <3> HIDE DEF P, I
    <3>5. work[m] = Work(avail, alloc, P)
      <4> DEFINE p == m - 1
      <4>1. work[p + 1] = Work(avail, alloc, FirstOf(order, p))
        <5>1. L \in SUBSET Threads /\ IsFiniteSet(L)
          BY <1>1
        <5>2. Follows(work, avail, alloc, order, Cardinality(L))
          BY <5>1, <1>3, WorkFollows
        <5>3. p \in 0..Cardinality(L)
          BY <3>3
        <5> HIDE DEF p
        <5> QED
          BY <5>2, <5>3 DEF Follows
      <4>2. m - 1 + 1 = m
        BY <3>3
      <4> QED
        BY <4>1, <4>2 DEF P, FirstOf
    <3>6. Leq(work[m], W)
      <4>1. Leq(Work(avail, alloc, P), Work(avail, alloc, X))
        BY <2>1, <3>4, WorkGrows
      <4> QED
        BY <3>5, <4>1 DEF W
    <3>7. /\ nd[order[m]] \in Vector /\ work[m] \in Vector /\ W \in Vector
          /\ Leq(nd[order[m]], work[m])
      <4>1. nd[order[m]] \in Counts /\ work[m] \in Counts
        BY <1>2, <1>3, <3>3
      <4>2. W \in Vector
        BY <2>1 DEF Vector
      <4> QED
        BY <4>1, <4>2, <1>4, <3>3, CountsAreVectors
    <3> QED
      BY <3>3, <3>6, <3>7, <2>2, LeqOrder
  <2>5. L \subseteq X
    BY <1>4, <2>4
  <2> QED
    BY <2>3, <2>5
<1> QED
  BY <1>1, <1>5, CheckSaysYes

-----------------------------------------------------------------------------
(* Adding up along a queue *)

(* The recursive function by which a fold over a queue is defined, that    *)
(* adds to `base' what the entries of t in it change: who[k] is whose the  *)
(* k-th entry is, what[k] what it changes.                                 *)
Along(it, base, who, what, t, D) ==
    it = [s \in D |-> IF s = {} THEN base
                      ELSE IF who[Max(s)] = t THEN Add(it[s \ {Max(s)}], what[Max(s)])
                      ELSE it[s \ {Max(s)}]]

(* The last of some positions is one of them. *)
LEMMA LastPosition ==
    ASSUME NEW n \in Nat, NEW s \in SUBSET (1..n), s # {}
    PROVE  Max(s) \in s /\ \A x \in s : x <= Max(s)
<1> DEFINE I == {n - x : x \in s}
<1>0. \A x \in s : x \in Int /\ x <= n
  OBVIOUS
<1>1. I \subseteq Nat /\ I # {}
  <2>1. ASSUME NEW x \in s PROVE n - x \in Nat
    BY <1>0
  <2>2. PICK x : x \in s
    OBVIOUS
  <2>3. n - x \in I
    BY <2>2
  <2> QED
    BY <2>1, <2>3
<1>2. PICK m \in I : \A k \in I : m <= k
  <2> HIDE DEF I
  <2> QED
    BY <1>1, LeastNumber
<1>3. PICK x \in s : m = n - x
  OBVIOUS
<1>4. \A y \in s : x >= y
  <2>1. ASSUME NEW y \in s PROVE x >= y
    <3>1. n - x <= n - y
      BY <1>2, <1>3
    <3> QED
      BY <3>1, <1>0
  <2> QED
    BY <2>1
<1>5. Max(s) \in s /\ \A y \in s : Max(s) >= y
  BY <1>3, <1>4 DEF Max
<1> QED
  BY <1>5

(* There is such a function. *)
LEMMA AlongExists ==
    ASSUME NEW n \in Nat, NEW base, NEW who, NEW what, NEW t
    PROVE  \E it : Along(it, base, who, what, t, SUBSET (1..n))
<1> DEFINE D(k) == SUBSET (1..k)
           I == {k \in Nat : \E it : Along(it, base, who, what, t, D(k))}
<1>1. 0 \in I
  <2> DEFINE it == [s \in D(0) |-> base]
  <2>1. D(0) = {{}}
    OBVIOUS
  <2> HIDE DEF D
  <2>2. Along(it, base, who, what, t, D(0))
    BY <2>1 DEF Along
  <2> QED
    BY <2>2
<1>2. ASSUME NEW k \in I \cap Nat PROVE k + 1 \in I
  <2>1. PICK it : Along(it, base, who, what, t, D(k))
    OBVIOUS
  <2> DEFINE body(f, s) == IF s = {} THEN base
                           ELSE IF who[Max(s)] = t THEN Add(f[s \ {Max(s)}], what[Max(s)])
                           ELSE f[s \ {Max(s)}]
             up == [s \in D(k + 1) |-> body(it, s)]
  <2>2. \A s \in D(k) : it[s] = body(it, s)
    <3> HIDE DEF D
    <3> QED
      BY <2>1 DEF Along
  <2>3. \A s \in D(k) : s \in D(k + 1)
    OBVIOUS
  <2>4. \A s \in D(k) : up[s] = it[s]
    <3> HIDE DEF D, body
    <3> QED
      BY <2>2, <2>3
  <2>5. ASSUME NEW s \in D(k + 1), s # {} PROVE s \ {Max(s)} \in D(k)
    <3>0. k + 1 \in Nat /\ s \in SUBSET (1..(k + 1))
      OBVIOUS
    <3>1. Max(s) \in s /\ \A x \in s : x <= Max(s)
      BY <2>5, <3>0, LastPosition
    <3>2. \A x \in s : x # Max(s) => x \in 1..k
      <4>1. \A x \in s : x \in 1..(k + 1)
        BY <3>0
      <4> HIDE DEF D
      <4> QED
        BY <3>1, <4>1
    <3> QED
      BY <3>2
  <2>6. \A s \in D(k + 1) : up[s] = body(up, s)
    <3> HIDE DEF D
    <3> QED
      BY <2>4, <2>5
  <2>7. up = [s \in D(k + 1) |-> up[s]]
    OBVIOUS
  <2> HIDE DEF up, D
  <2>8. Along(up, base, who, what, t, D(k + 1))
    BY <2>6, <2>7 DEF Along
  <2> QED
    BY <2>8
<1>3. n \in I
  <2> HIDE DEF I
  <2> QED
    BY <1>1, <1>2, NumberInduction
<1> QED
  BY <1>3

(* g[k] is what is reached after k of the n entries. *)
Reached(g, base, who, what, t, n) ==
    /\ g[0] = base
    /\ \A k \in 1..n : g[k] = IF who[k] = t THEN Add(g[k - 1], what[k]) ELSE g[k - 1]

ComesTo(it, n, g) == it[1..n] = g[n]

(* It follows the entries one after the other. *)
LEMMA AlongIs ==
    ASSUME NEW n \in Nat, NEW base, NEW who, NEW what, NEW t, NEW it, NEW g,
           Along(it, base, who, what, t, SUBSET (1..n)),
           Reached(g, base, who, what, t, n)
    PROVE  ComesTo(it, n, g)
<1> USE DEF Reached, ComesTo
<1> DEFINE I == {k \in Nat : k <= n => it[1..k] = g[k]}
<1>1. 0 \in I
  <2>1. 1..0 = {} /\ {} \in SUBSET (1..n)
    OBVIOUS
  <2>2. it[{}] = base
    BY <2>1 DEF Along
  <2> QED
    BY <2>1, <2>2
<1>2. ASSUME NEW k \in I \cap Nat PROVE k + 1 \in I
  <2> SUFFICES ASSUME k + 1 <= n PROVE it[1..(k + 1)] = g[k + 1]
    OBVIOUS
  <2> DEFINE s == 1..(k + 1)
  <2>1. s \in SUBSET (1..n) /\ s # {} /\ s \ {k + 1} = 1..k /\ k + 1 \in 1..n /\ k + 1 - 1 = k
    <3>1. k \in Nat /\ k + 1 <= n
      OBVIOUS
    <3>2. s \in SUBSET (1..n) /\ k + 1 \in s
      BY ONLY n \in Nat, <3>1
    <3>3. s \ {k + 1} = 1..k
      BY ONLY <3>1
    <3>4. k + 1 \in 1..n /\ k + 1 - 1 = k
      BY ONLY n \in Nat, <3>1
    <3> QED
      BY <3>2, <3>3, <3>4
  <2>2. Max(s) = k + 1
    <3>1. Max(s) \in s /\ \A x \in s : x <= Max(s)
      BY <2>1, LastPosition
    <3>2. k + 1 \in s
      OBVIOUS
    <3> QED
      BY <3>1, <3>2
  <2>3. it[1..k] = g[k]
    BY <2>1
  <2> HIDE DEF s
  <2>4. it[s] = IF who[k + 1] = t THEN Add(it[1..k], what[k + 1]) ELSE it[1..k]
    <3> DEFINE h == [u \in SUBSET (1..n) |->
                        IF u = {} THEN base
                        ELSE IF who[Max(u)] = t THEN Add(it[u \ {Max(u)}], what[Max(u)])
                        ELSE it[u \ {Max(u)}]]
    <3>1. it = h
      BY DEF Along
    <3>2. h[s] = IF who[k + 1] = t THEN Add(it[1..k], what[k + 1]) ELSE it[1..k]
      BY <2>1, <2>2
    <3> HIDE DEF h
    <3> QED
      BY <3>1, <3>2
  <2> QED
    BY <2>1, <2>3, <2>4 DEF s
<1>3. n \in I
  <2> HIDE DEF I
  <2> QED
    BY <1>1, <1>2, NumberInduction
<1> QED
  BY <1>3

-----------------------------------------------------------------------------
(* The tables of a master *)

(* The tables have their shape, and nothing is lost. *)
Tables(avail, alloc, nd) ==
    /\ avail \in Counts
    /\ alloc \in [Threads -> Counts] /\ nd \in [Threads -> Counts]
    /\ Work(avail, alloc, Threads) = Total

(* Thread t's row of them adds up to its claim. *)
Claimed(t, alloc, nd) == Add(alloc[t], nd[t]) = maxNeed[t]

(* Returning what a thread holds keeps the tables, ... *)
LEMMA BookKeepsTables ==
    ASSUME NEW avail, NEW alloc, NEW nd, Tables(avail, alloc, nd),
           NEW t \in Threads, Claimed(t, alloc, nd),
           NEW q \in Counts, Leq(q, alloc[t])
    PROVE  /\ Tables(Add(avail, q), [alloc EXCEPT ![t] = Sub(@, q)],
                     [nd EXCEPT ![t] = Add(@, q)])
           /\ Claimed(t, [alloc EXCEPT ![t] = Sub(@, q)], [nd EXCEPT ![t] = Add(@, q)])
<1> USE ClaimsAssumption, CountsAreVectors DEF ClaimsAssumption, Tables
<1>1. /\ alloc[t] \in Counts /\ nd[t] \in Counts /\ maxNeed[t] \in Counts
      /\ maxNeed[t] = Add(alloc[t], nd[t]) /\ q \in [Resources -> Nat]
  BY DEF Claimed, Counts
<1>2. /\ Sub(alloc[t], q) \in Counts /\ Add(nd[t], q) \in Counts
      /\ maxNeed[t] = Add(Sub(alloc[t], q), Add(nd[t], q))
  BY <1>1, MoveClaim
<1> DEFINE A == [alloc EXCEPT ![t] = Sub(@, q)]
           N == [nd EXCEPT ![t] = Add(@, q)]
<1>3. /\ A \in [Threads -> Counts] /\ N \in [Threads -> Counts]
      /\ A[t] = Sub(alloc[t], q) /\ N[t] = Add(nd[t], q)
  BY <1>2
<1>4. Work(Add(avail, q), A, Threads) = Total
  <2>1. avail \in Vector /\ alloc \in [Threads -> Vector] /\ q \in Vector
    OBVIOUS
  <2> HIDE DEF Tables, ClaimsAssumption
  <2>2. Work(Add(avail, q), [alloc EXCEPT ![t] = Sub(@, q)], Threads)
           = Work(avail, alloc, Threads)
    BY <2>1, WorkMoves
  <2>3. Work(avail, alloc, Threads) = Total
    BY DEF Tables
  <2> QED
    BY <2>2, <2>3
<1>5. Add(avail, q) \in [Resources -> Nat]
  BY DEF Counts, Add
<1> HIDE DEF A, N
<1>6. Add(avail, q) \in Counts
  BY <1>3, <1>4, <1>5, FreeIsCounted
<1>7. Tables(Add(avail, q), A, N) /\ Claimed(t, A, N)
  BY <1>2, <1>3, <1>4, <1>6 DEF Claimed
<1> QED
  BY <1>7 DEF A, N

(* ... so does granting what is free and is left of its claim, ...         *)
LEMMA GrantKeepsTables ==
    ASSUME NEW avail, NEW alloc, NEW nd, Tables(avail, alloc, nd),
           NEW t \in Threads, Claimed(t, alloc, nd),
           NEW q \in Counts, Leq(q, nd[t]), Leq(q, avail)
    PROVE  /\ Tables(Sub(avail, q), [alloc EXCEPT ![t] = Add(@, q)],
                     [nd EXCEPT ![t] = Sub(@, q)])
           /\ Claimed(t, [alloc EXCEPT ![t] = Add(@, q)], [nd EXCEPT ![t] = Sub(@, q)])
<1> USE ClaimsAssumption, CountsAreVectors DEF ClaimsAssumption, Tables
<1>1. /\ alloc[t] \in Counts /\ nd[t] \in Counts /\ maxNeed[t] \in Counts
      /\ maxNeed[t] = Add(alloc[t], nd[t]) /\ q \in [Resources -> Nat]
  BY DEF Claimed, Counts
<1>2. /\ Add(alloc[t], q) \in Counts /\ Sub(nd[t], q) \in Counts
      /\ maxNeed[t] = Add(Add(alloc[t], q), Sub(nd[t], q))
  BY <1>1, MoveClaim
<1> DEFINE A == [alloc EXCEPT ![t] = Add(@, q)]
           N == [nd EXCEPT ![t] = Sub(@, q)]
<1>3. /\ A \in [Threads -> Counts] /\ N \in [Threads -> Counts]
      /\ A[t] = Add(alloc[t], q) /\ N[t] = Sub(nd[t], q)
  BY <1>2
<1>4. Work(Sub(avail, q), A, Threads) = Total
  <2>1. avail \in Vector /\ alloc \in [Threads -> Vector] /\ q \in Vector
    OBVIOUS
  <2> HIDE DEF Tables, ClaimsAssumption
  <2>2. Work(Sub(avail, q), [alloc EXCEPT ![t] = Add(@, q)], Threads)
           = Work(avail, alloc, Threads)
    BY <2>1, WorkMoves
  <2>3. Work(avail, alloc, Threads) = Total
    BY DEF Tables
  <2> QED
    BY <2>2, <2>3
<1>5. Sub(avail, q) \in [Resources -> Nat]
  BY DEF Counts, Sub, Leq
<1> HIDE DEF A, N
<1>6. Sub(avail, q) \in Counts
  BY <1>3, <1>4, <1>5, FreeIsCounted
<1>7. Tables(Sub(avail, q), A, N) /\ Claimed(t, A, N)
  BY <1>2, <1>3, <1>4, <1>6 DEF Claimed
<1> QED
  BY <1>7 DEF A, N

(* ... and so does giving back all that a thread holds when it quits.      *)
LEMMA QuitKeepsTables ==
    ASSUME NEW avail, NEW alloc, NEW nd, Tables(avail, alloc, nd), NEW t \in Threads
    PROVE  Tables(Add(avail, alloc[t]), [alloc EXCEPT ![t] = Zero],
                  [nd EXCEPT ![t] = Zero])
<1> USE ClaimsAssumption, CountsAreVectors DEF ClaimsAssumption, Tables
<1> DEFINE A == [alloc EXCEPT ![t] = Zero]
           N == [nd EXCEPT ![t] = Zero]
<1>1. Zero \in Counts
  BY DEF Zero, Counts
<1>2. A \in [Threads -> Counts] /\ N \in [Threads -> Counts]
  BY <1>1
<1>3. Work(Add(avail, alloc[t]), A, Threads) = Total
  <2>1. avail \in Vector /\ alloc \in [Threads -> Vector]
    OBVIOUS
  <2> QED
    BY <2>1, WorkQuits
<1>4. Add(avail, alloc[t]) \in [Resources -> Nat]
  BY DEF Counts, Add
<1> HIDE DEF A, N
<1>5. Add(avail, alloc[t]) \in Counts
  BY <1>2, <1>3, <1>4, FreeIsCounted
<1>6. Tables(Add(avail, alloc[t]), A, N)
  BY <1>2, <1>3, <1>5
<1> QED
  BY <1>6 DEF A, N

(* Granting q to thread t makes the second tables of the first.            *)
Grants(t, q, avail, alloc, nd, avail2, alloc2, nd2) ==
    /\ avail2 = Sub(avail, q)
    /\ alloc2 = [alloc EXCEPT ![t] = Add(@, q)]
    /\ nd2 = [nd EXCEPT ![t] = Sub(@, q)]

(* Granting p to thread u leaves a safe state of the threads of S.         *)
SafeToGrant(S, u, p, avail, alloc, nd) ==
    Safe(S, Sub(avail, p), [alloc EXCEPT ![u] = Add(@, p)], [nd EXCEPT ![u] = Sub(@, p)])

(* A grant leaves a safe state if it does so after another grant: what     *)
(* cannot be granted now cannot be granted after more has been given away. *)
LEMMA EarlierGrantSafe ==
    ASSUME NEW S \in SUBSET Threads, NEW avail \in Counts,
           NEW alloc \in [Threads -> Counts], NEW nd \in [Threads -> Counts],
           NEW t \in S, NEW q \in Counts, NEW u \in Threads, NEW p \in Counts, u # t,
           NEW avail2, NEW alloc2, NEW nd2,
           Grants(t, q, avail, alloc, nd, avail2, alloc2, nd2),
           Sub(avail2, p) \in Counts,
           [alloc2 EXCEPT ![u] = Add(@, p)] \in [Threads -> Counts],
           [nd2 EXCEPT ![u] = Sub(@, p)] \in [Threads -> Counts],
           SafeToGrant(S, u, p, avail2, alloc2, nd2)
    PROVE  SafeToGrant(S, u, p, avail, alloc, nd)
<1> USE ClaimsAssumption, CountsAreVectors DEF ClaimsAssumption
<1> DEFINE L == Sub(avail2, p)
           A == [alloc2 EXCEPT ![u] = Add(@, p)]
           N == [nd2 EXCEPT ![u] = Sub(@, p)]
<1>0. /\ L = Sub(Sub(avail, q), p) /\ L \in Counts
      /\ A = [[alloc EXCEPT ![t] = Add(@, q)] EXCEPT ![u] = Add(@, p)]
      /\ N = [[nd EXCEPT ![t] = Sub(@, q)] EXCEPT ![u] = Sub(@, p)]
      /\ A \in [Threads -> Counts] /\ N \in [Threads -> Counts]
      /\ Safe(S, L, A, N)
  BY DEF Grants, SafeToGrant
<1> HIDE DEF L, A, N
<1>1. /\ t \in Threads /\ IsFiniteSet(S) /\ S \subseteq Threads
      /\ alloc[t] \in Counts /\ nd[t] \in Counts
      /\ alloc[t] \in Vector /\ nd[t] \in Vector /\ avail \in Vector
      /\ q \in Vector /\ p \in Vector
  BY FS_Subset
<1>2. A[t] = Add(alloc[t], q) /\ N[t] = Sub(nd[t], q)
  BY <1>0, <1>1
<1>3. /\ Sub(Add(alloc[t], q), q) = alloc[t] /\ Add(Sub(nd[t], q), q) = nd[t]
      /\ Add(Sub(Sub(avail, q), p), q) = Sub(avail, p)
  BY <1>1, VectorUndo
<1>4. Leq(q, A[t])
  <2>1. \A r \in Resources : alloc[t][r] \in Nat /\ q[r] \in Int
    BY <1>1 DEF Counts, Vector
  <2>2. \A r \in Resources : Add(alloc[t], q)[r] = alloc[t][r] + q[r]
    BY <1>1, VectorOps
  <2>3. \A r \in Resources : q[r] <= Add(alloc[t], q)[r]
    BY <2>1, <2>2
  <2>4. Add(alloc[t], q) \in Vector
    BY <1>1, VectorOps
  <2> QED
    BY <2>3, <2>4, <1>1, <1>2, VectorOps
<1>5. Safe(S, Add(L, q), [A EXCEPT ![t] = Sub(@, q)], [N EXCEPT ![t] = Add(@, q)])
  BY <1>0, <1>1, <1>4, ReturnKeepsSafe
<1>6. [A EXCEPT ![t] = Sub(@, q)] = [alloc EXCEPT ![u] = Add(@, p)]
  <2>1. \A x \in Threads : A[x] = IF x = t THEN Add(alloc[t], q)
                                  ELSE IF x = u THEN Add(alloc[u], p) ELSE alloc[x]
    BY <1>0, <1>1
  <2>2. [A EXCEPT ![t] = Sub(@, q)]
           = [x \in Threads |-> IF x = t THEN Sub(A[t], q) ELSE A[x]]
    BY <1>0, <1>1
  <2>3. [alloc EXCEPT ![u] = Add(@, p)]
           = [x \in Threads |-> IF x = u THEN Add(alloc[u], p) ELSE alloc[x]]
    OBVIOUS
  <2>4. Sub(A[t], q) = alloc[t]
    BY <1>2, <1>3
  <2>5. \A x \in Threads : (IF x = t THEN Sub(A[t], q) ELSE A[x])
                            = IF x = u THEN Add(alloc[u], p) ELSE alloc[x]
    BY <2>1, <2>4
  <2> QED
    BY <2>2, <2>3, <2>5
<1>7. [N EXCEPT ![t] = Add(@, q)] = [nd EXCEPT ![u] = Sub(@, p)]
  <2>1. \A x \in Threads : N[x] = IF x = t THEN Sub(nd[t], q)
                                  ELSE IF x = u THEN Sub(nd[u], p) ELSE nd[x]
    BY <1>0, <1>1
  <2>2. [N EXCEPT ![t] = Add(@, q)]
           = [x \in Threads |-> IF x = t THEN Add(N[t], q) ELSE N[x]]
    BY <1>0, <1>1
  <2>3. [nd EXCEPT ![u] = Sub(@, p)]
           = [x \in Threads |-> IF x = u THEN Sub(nd[u], p) ELSE nd[x]]
    OBVIOUS
  <2>4. Add(N[t], q) = nd[t]
    BY <1>2, <1>3
  <2>5. \A x \in Threads : (IF x = t THEN Add(N[t], q) ELSE N[x])
                            = IF x = u THEN Sub(nd[u], p) ELSE nd[x]
    BY <2>1, <2>4
  <2> QED
    BY <2>2, <2>3, <2>5
<1> QED
  BY <1>0, <1>3, <1>5, <1>6, <1>7 DEF SafeToGrant

-----------------------------------------------------------------------------
(* The banker's books *)

OrderFacts(S, alloc, nd, order, work) ==
    /\ \A k \in 1..(Cardinality(S) + 1), r \in Resources : work[k][r] \in 0..Cap
    /\ \A k \in 1..Cardinality(S), r \in Resources :
          /\ nd[order[k]][r] <= work[k][r]
          /\ work[k + 1][r] = work[k][r] + alloc[order[k]][r]
    /\ \A i, j \in 1..(Cardinality(S) + 1) : i <= j =>
          \A r \in Resources : work[i][r] <= work[j][r]
    /\ \A i \in S, r \in Resources : alloc[i][r] \in 0..Cap /\ nd[i][r] \in 0..Cap

(* An order in which the threads can finish has those facts. *)
LEMMA OrderGivesFacts ==
    ASSUME NEW S, IsFiniteSet(S), S \subseteq Threads,
           NEW avail \in Counts, NEW alloc \in [Threads -> Counts],
           NEW nd \in [Threads -> Counts], NEW order \in Orders(S),
           NEW work \in [1..(Cardinality(S) + 1) -> Counts],
           FinishInOrder(S, avail, alloc, nd, order, work)
    PROVE  OrderFacts(S, alloc, nd, order, work)
<1> USE CountsAreVectors
<1>0. Cardinality(S) \in Nat
      BY SizeInNat
<1>1. order \in [1..Cardinality(S) -> S]
      BY DEF Orders
<1>2. \A k \in 1..(Cardinality(S) + 1), r \in Resources : work[k][r] \in 0..Cap
      BY DEF Counts
<1>3. ASSUME NEW k \in 1..Cardinality(S), NEW r \in Resources
      PROVE  /\ nd[order[k]][r] <= work[k][r]
             /\ work[k + 1][r] = work[k][r] + alloc[order[k]][r]
  <2>1. Leq(nd[order[k]], work[k]) /\ work[k + 1] = Add(work[k], alloc[order[k]])
        BY DEF FinishInOrder
  <2>2. work[k] \in Vector /\ nd[order[k]] \in Vector /\ alloc[order[k]] \in Vector
        BY <1>0, <1>1
  <2> QED BY <2>1, <2>2, VectorOps
<1>4. ASSUME NEW i \in 1..(Cardinality(S) + 1), NEW j \in 1..(Cardinality(S) + 1),
             i <= j, NEW r \in Resources
      PROVE  work[i][r] <= work[j][r]
  <2>1. Leq(work[i], work[j])
        BY <1>4 DEF FinishInOrder
  <2> QED BY <2>1, VectorOps
<1>5. \A i \in S, r \in Resources : alloc[i][r] \in 0..Cap /\ nd[i][r] \in 0..Cap
      BY DEF Counts
<1> QED BY <1>2, <1>3, <1>4, <1>5 DEF OrderFacts

(* A state stays safe when a thread leaves and returns all it holds: the   *)
(* others finish in the same order, with more to work with.                *)
LEMMA QuitKeepsSafe ==
    ASSUME NEW S, IsFiniteSet(S), NEW avail \in Counts,
           NEW alloc \in [Threads -> Counts], NEW nd \in [Threads -> Counts],
           S \subseteq Threads, Safe(S, avail, alloc, nd), NEW t \in S
    PROVE  Safe(S \ {t}, Add(avail, alloc[t]),
                [alloc EXCEPT ![t] = Zero], [nd EXCEPT ![t] = Zero])
<1> DEFINE N == Cardinality(S)
           M == Cardinality(S \ {t})
           alloc2 == [alloc EXCEPT ![t] = Zero]
           nd2 == [nd EXCEPT ![t] = Zero]
<1> USE CountsAreVectors
<1>0. N \in Nat /\ M = N - 1 /\ M \in Nat
      BY SizeInNat, FS_RemoveElement
<1>1. PICK order \in Orders(S), work \in [1..(N + 1) -> Counts] :
               FinishInOrder(S, avail, alloc, nd, order, work)
      BY DEF Safe
<1>2. PICK p \in 1..N : order[p] = t
      BY DEF Orders
<1>3. /\ order \in [1..N -> S]
      /\ \A i, j \in 1..N : order[i] = order[j] => i = j
      /\ \A s \in S : \E k \in 1..N : order[k] = s
      BY DEF Orders
<1>4. /\ \A k \in 1..(N + 1), r \in Resources : work[k][r] \in 0..Cap
      /\ \A k \in 1..N, r \in Resources :
            /\ nd[order[k]][r] <= work[k][r]
            /\ work[k + 1][r] = work[k][r] + alloc[order[k]][r]
      /\ \A i, j \in 1..(N + 1) : i <= j =>
            \A r \in Resources : work[i][r] <= work[j][r]
      /\ \A i \in S, r \in Resources : alloc[i][r] \in 0..Cap /\ nd[i][r] \in 0..Cap
  <2>1. OrderFacts(S, alloc, nd, order, work)
        BY <1>1, OrderGivesFacts
  <2> QED BY <2>1 DEF OrderFacts
<1>5. work[1] = avail
      BY <1>1 DEF FinishInOrder
<1> DEFINE order2 == [k \in 1..M |-> IF k < p THEN order[k] ELSE order[k + 1]]
           work2 == [k \in 1..(M + 1) |->
                        IF k < p THEN Add(work[k], alloc[t]) ELSE work[k + 1]]
<1> HIDE DEF N, M
<1>6. order2 \in Orders(S \ {t})
  <2>1. order2 \in [1..M -> S \ {t}]
        BY <1>0, <1>2, <1>3
  <2>2. \A i, j \in 1..M : order2[i] = order2[j] => i = j
        BY <1>0, <1>2, <1>3
  <2>3. ASSUME NEW s \in S \ {t} PROVE \E k \in 1..M : order2[k] = s
    <3>1. PICK k \in 1..N : order[k] = s
          BY <1>3
    <3>2. CASE k < p
      <4>1. k \in 1..M /\ order2[k] = s
            BY <3>1, <3>2, <1>0, <1>2
      <4> QED BY <4>1
    <3>3. CASE p < k
      <4>1. k - 1 \in 1..M /\ order2[k - 1] = s
            BY <3>1, <3>3, <1>0, <1>2
      <4> QED BY <4>1
    <3> QED BY <3>1, <3>2, <3>3, <1>2
  <2> HIDE DEF order2
  <2> QED BY <2>1, <2>2, <2>3 DEF Orders, M
<1>7. \A k \in 1..M : order2[k] = IF k < p THEN order[k] ELSE order[k + 1]
      OBVIOUS
<1>8. \A k \in 1..(M + 1), r \in Resources :
         work2[k][r] = IF k < p THEN work[k][r] + alloc[t][r] ELSE work[k + 1][r]
      BY <1>0, <1>1, VectorOps
<1>9. work2 \in [1..(M + 1) -> Vector]
      BY <1>0, <1>1, VectorOps
<1>10. \A i \in S \ {t} : alloc2[i] = alloc[i] /\ nd2[i] = nd[i]
      OBVIOUS
<1>11. \A i \in S \ {t} : alloc[i] \in Vector /\ nd[i] \in Vector
      OBVIOUS
<1> HIDE DEF order2, work2, alloc2, nd2
<1>12. \A r \in Resources : work[p + 1][r] = work[p][r] + alloc[t][r]
      BY <1>2, <1>4
<1>13. \A k \in 1..M : order2[k] \in S \ {t}
      BY <1>6 DEF Orders, M
<1>14. work2[1] = Add(avail, alloc[t])
  <2>1. \A r \in Resources : work2[1][r] = avail[r] + alloc[t][r]
        BY <1>0, <1>2, <1>5, <1>8, <1>12
  <2>2. Add(avail, alloc[t]) \in Vector /\ work2[1] \in Vector
        BY <1>0, <1>9, VectorOps
  <2>3. \A r \in Resources : Add(avail, alloc[t])[r] = avail[r] + alloc[t][r]
        BY VectorOps
  <2> QED BY <2>1, <2>2, <2>3, VectorEq
<1>15. work2 \in [1..(M + 1) -> Counts]
  <2>1. ASSUME NEW k \in 1..(M + 1), NEW r \in Resources
        PROVE  work2[k][r] \in 0..Cap
    <3>1. CASE k < p
      <4>1. work[k][r] <= work[p][r] /\ work[k][r] \in 0..Cap
            BY <3>1, <1>0, <1>2, <1>4
      <4>2. work[p + 1][r] \in 0..Cap /\ work[p][r] \in 0..Cap
            /\ alloc[t][r] \in 0..Cap
            BY <1>0, <1>2, <1>4
      <4>3. work[k][r] + alloc[t][r] \in 0..Cap
        <5>1. work[p + 1][r] = work[p][r] + alloc[t][r]
              BY <1>12
        <5>2. Cap \in Int
              BY ClaimsAssumption DEF ClaimsAssumption
        <5> QED BY <5>1, <5>2, <4>1, <4>2
      <4> QED BY <3>1, <4>3, <1>8
    <3>2. CASE ~(k < p)
          BY <3>2, <1>0, <1>4, <1>8
    <3> QED BY <3>1, <3>2
  <2> QED BY <2>1, <1>9 DEF Vector, Counts
<1>16. ASSUME NEW k \in 1..M PROVE Leq(nd2[order2[k]], work2[k])
  <2>1. ASSUME NEW r \in Resources PROVE nd[order2[k]][r] <= work2[k][r]
    <3>1. CASE k < p
      <4>1. /\ nd[order[k]][r] <= work[k][r] /\ nd[order[k]][r] \in 0..Cap
            /\ work[k][r] \in 0..Cap /\ alloc[t][r] \in 0..Cap
            BY <3>1, <1>0, <1>2, <1>3, <1>4
      <4>2. order2[k] = order[k] /\ work2[k][r] = work[k][r] + alloc[t][r]
            BY <3>1, <1>0, <1>7, <1>8
      <4>3. nd[order2[k]][r] \in 0..Cap /\ nd[order2[k]][r] <= work[k][r]
            BY <4>1, <4>2
      <4>4. Cap \in Int
            BY ClaimsAssumption DEF ClaimsAssumption
      <4> QED BY ONLY <4>1, <4>2, <4>3, <4>4
    <3>2. CASE ~(k < p)
      <4>1. nd[order[k + 1]][r] <= work[k + 1][r]
            BY <1>0, <1>4
      <4> QED BY <4>1, <3>2, <1>0, <1>7, <1>8
    <3> QED BY <3>1, <3>2
  <2>2. /\ order2[k] \in S \ {t} /\ work2[k] \in Vector
        /\ nd[order2[k]] \in Vector
    <3>1. k \in 1..(M + 1)
          BY <1>0
    <3> QED BY <3>1, <1>9, <1>11, <1>13
  <2>3. Leq(nd[order2[k]], work2[k])
        BY <2>1, <2>2, VectorOps
  <2> QED BY <2>2, <2>3, <1>10
<1>17. ASSUME NEW k \in 1..M
       PROVE  work2[k + 1] = Add(work2[k], alloc2[order2[k]])
  <2>1. ASSUME NEW r \in Resources
        PROVE  work2[k + 1][r] = work2[k][r] + alloc[order2[k]][r]
    <3>0. /\ k \in 1..N /\ k + 1 \in 1..N /\ k \in 1..(M + 1) /\ k + 1 \in 1..(M + 1)
          BY <1>0
    <3>1. CASE k < p
      <4>1. /\ order2[k] = order[k] /\ work2[k][r] = work[k][r] + alloc[t][r]
            /\ work2[k + 1][r] = work[k + 1][r] + alloc[t][r]
        <5>1. CASE k + 1 < p
              BY <5>1, <3>0, <3>1, <1>7, <1>8
        <5>2. CASE k + 1 = p
              BY <5>2, <3>0, <3>1, <1>7, <1>8, <1>12
        <5> QED BY <5>1, <5>2, <3>0, <3>1, <1>2
      <4>2. work[k + 1][r] = work[k][r] + alloc[order[k]][r]
            BY <3>0, <1>4
      <4>3. /\ work[k][r] \in 0..Cap /\ alloc[t][r] \in 0..Cap
            /\ alloc[order[k]][r] \in 0..Cap
            BY <3>0, <1>0, <1>3, <1>4
      <4> QED BY <4>1, <4>2, <4>3
    <3>2. CASE ~(k < p)
      <4>1. /\ order2[k] = order[k + 1] /\ work2[k][r] = work[k + 1][r]
            /\ work2[k + 1][r] = work[k + 2][r]
            BY <3>0, <3>2, <1>7, <1>8
      <4>2. work[(k + 1) + 1][r] = work[k + 1][r] + alloc[order[k + 1]][r]
            BY <3>0, <1>4
      <4> QED BY <4>1, <4>2
    <3> QED BY <3>1, <3>2
  <2>2. /\ work2[k] \in Vector /\ work2[k + 1] \in Vector
        /\ alloc[order2[k]] \in Vector
        BY <1>0, <1>9, <1>11, <1>13
  <2>3. /\ Add(work2[k], alloc[order2[k]]) \in Vector
        /\ \A r \in Resources : Add(work2[k], alloc[order2[k]])[r] = work2[k + 1][r]
        BY <2>1, <2>2, VectorOps
  <2>4. work2[k + 1] = Add(work2[k], alloc[order2[k]])
        BY <2>2, <2>3, VectorEq
  <2> QED BY <2>4, <1>10, <1>13
<1>18. ASSUME NEW i \in 1..(M + 1), NEW j \in 1..(M + 1), i <= j
       PROVE  Leq(work2[i], work2[j])
  <2>1. ASSUME NEW r \in Resources PROVE work2[i][r] <= work2[j][r]
    <3>0. /\ work[i][r] \in 0..Cap /\ work[j][r] \in 0..Cap
          /\ work[i + 1][r] \in 0..Cap /\ work[j + 1][r] \in 0..Cap
          /\ work[p][r] \in 0..Cap /\ alloc[t][r] \in 0..Cap
          BY <1>0, <1>2, <1>4
    <3>1. CASE j < p
      <4>1. work[i][r] <= work[j][r]
            BY <3>1, <1>18, <1>0, <1>4
      <4> QED BY <3>0, <3>1, <4>1, <1>18, <1>8
    <3>2. CASE i < p /\ ~(j < p)
      <4>1. work[i][r] <= work[p][r] /\ work[p + 1][r] <= work[j + 1][r]
            BY <3>2, <1>0, <1>2, <1>4
      <4>2. /\ work2[i][r] = work[i][r] + alloc[t][r] /\ work2[j][r] = work[j + 1][r]
            /\ work[p + 1][r] = work[p][r] + alloc[t][r]
            BY <3>2, <1>8, <1>12
      <4>3. PICK a, b, c, d : a = work[i][r] /\ b = work[p][r] /\ c = work[j + 1][r]
                              /\ d = alloc[t][r]
            OBVIOUS
      <4>4. a \in Int /\ b \in Int /\ c \in Int /\ d \in Int
            BY ONLY <3>0, <4>3, ClaimsAssumption DEF ClaimsAssumption
      <4>5. a <= b /\ b + d <= c /\ work2[i][r] = a + d /\ work2[j][r] = c
            BY <4>1, <4>2, <4>3
      <4> QED BY ONLY <4>4, <4>5
    <3>3. CASE ~(i < p)
      <4>1. work[i + 1][r] <= work[j + 1][r]
            BY <3>3, <1>18, <1>0, <1>4
      <4> QED BY <3>3, <4>1, <1>18, <1>8
    <3> QED BY <3>1, <3>2, <3>3
  <2> QED BY <2>1, <1>9, VectorOps
<1>19. FinishInOrder(S \ {t}, Add(avail, alloc[t]), alloc2, nd2, order2, work2)
      BY <1>14, <1>16, <1>17, <1>18 DEF FinishInOrder, M
<1> QED BY <1>6, <1>15, <1>19 DEF Safe, M, alloc2, nd2

(* In a safe state with a thread left, some thread can be given any part   *)
(* of what it still needs, and the state stays safe: it is the thread the  *)
(* order puts first.                                                       *)
LEMMA FirstCanBeGranted ==
    ASSUME NEW S, IsFiniteSet(S), NEW avail \in Counts,
           NEW alloc \in [Threads -> Counts], NEW nd \in [Threads -> Counts],
           S \subseteq Threads, S # {}, Safe(S, avail, alloc, nd)
    PROVE  \E t \in S : \A q \in [Resources -> Nat] : Leq(q, nd[t]) =>
              /\ Leq(q, avail)
              /\ Safe(S, Sub(avail, q), [alloc EXCEPT ![t] = Add(@, q)],
                      [nd EXCEPT ![t] = Sub(@, q)])
<1> DEFINE N == Cardinality(S)
<1> USE CountsAreVectors
<1>0. N \in Nat /\ N # 0
      BY SizeInNat, FS_EmptySet
<1>1. PICK order \in Orders(S), work \in [1..(N + 1) -> Counts] :
               FinishInOrder(S, avail, alloc, nd, order, work)
      BY DEF Safe
<1>2. PICK t \in S : order[1] = t
      BY <1>0 DEF Orders
<1>3. order \in [1..N -> S] /\ \A k \in 1..N : order[k] = t => k = 1
      BY <1>0, <1>2 DEF Orders
<1>4. OrderFacts(S, alloc, nd, order, work)
      BY <1>1, OrderGivesFacts
<1>5. work[1] = avail
      BY <1>1 DEF FinishInOrder
<1> HIDE DEF N
<1> SUFFICES ASSUME NEW q \in [Resources -> Nat], Leq(q, nd[t])
             PROVE  /\ Leq(q, avail)
                    /\ Safe(S, Sub(avail, q), [alloc EXCEPT ![t] = Add(@, q)],
                            [nd EXCEPT ![t] = Sub(@, q)])
    OBVIOUS
<1>6. q \in Vector /\ \A r \in Resources : q[r] \in Nat /\ q[r] <= nd[t][r]
  <2>1. q \in Vector /\ nd[t] \in Vector
        BY DEF Vector
  <2> QED BY <2>1, VectorOps
<1>7. \A r \in Resources : /\ avail[r] \in 0..Cap /\ nd[t][r] \in 0..Cap
                            /\ q[r] <= avail[r]
  <2> SUFFICES ASSUME NEW r \in Resources
               PROVE  /\ avail[r] \in 0..Cap /\ nd[t][r] \in 0..Cap
                      /\ q[r] <= avail[r]
      OBVIOUS
  <2>1. 1 \in 1..N /\ 1 \in 1..(N + 1)
        BY <1>0
  <2>2. work[1][r] \in 0..Cap /\ nd[order[1]][r] <= work[1][r]
        BY <2>1, <1>4 DEF OrderFacts, N
  <2>3. nd[t][r] \in 0..Cap
        BY <1>4 DEF OrderFacts
  <2>4. q[r] \in Nat /\ q[r] <= nd[t][r]
        BY <1>6
  <2>5. avail[r] \in 0..Cap /\ nd[t][r] <= avail[r]
        BY <2>2, <1>2, <1>5
  <2> QED BY <2>3, <2>4, <2>5
<1>8. Leq(q, avail)
      BY <1>6, <1>7, VectorOps
<1> DEFINE alloc2 == [alloc EXCEPT ![t] = Add(@, q)]
           nd2 == [nd EXCEPT ![t] = Sub(@, q)]
           work2 == [work EXCEPT ![1] = Sub(avail, q)]
<1>9. Sub(avail, q) \in Counts
  <2>1. \A r \in Resources : avail[r] - q[r] \in 0..Cap
    <3>1. Cap \in Int
          BY ClaimsAssumption DEF ClaimsAssumption
    <3> QED BY <3>1, <1>6, <1>7
  <2>2. Sub(avail, q) = [r \in Resources |-> avail[r] - q[r]]
        BY DEF Sub, Counts
  <2> QED BY <2>1, <2>2 DEF Counts
<1>10. /\ work2 \in [1..(N + 1) -> Counts] /\ work2[1] = Sub(avail, q)
       /\ \A k \in 2..(N + 1) : work2[k] = work[k]
      BY <1>0, <1>1, <1>9 DEF N
<1>11. /\ \A i \in S \ {t} : alloc2[i] = alloc[i] /\ nd2[i] = nd[i]
       /\ alloc2[t] = Add(alloc[t], q) /\ nd2[t] = Sub(nd[t], q)
      OBVIOUS
<1> HIDE DEF alloc2, nd2, work2
<1>12. \A k \in 1..N : Leq(nd[order[k]], work[k])
                      /\ work[k + 1] = Add(work[k], alloc[order[k]])
      BY <1>1 DEF FinishInOrder, N
<1>13. ASSUME NEW k \in 1..N
       PROVE  /\ Leq(nd2[order[k]], work2[k])
              /\ work2[k + 1] = Add(work2[k], alloc2[order[k]])
  <2>1. CASE k = 1
    <3>1. Leq(Sub(nd[t], q), Sub(avail, q))
      <4>1. \A r \in Resources : nd[t][r] <= avail[r]
        <5>1. 1 \in 1..N
              BY <1>0
        <5>2. \A r \in Resources : nd[order[1]][r] <= work[1][r]
              BY <5>1, <1>4 DEF OrderFacts, N
        <5> QED BY <5>2, <1>2, <1>5
      <4>2. nd[t] \in Vector /\ Sub(nd[t], q) \in Vector /\ Sub(avail, q) \in Vector
            BY <1>6, VectorOps
      <4>3. \A r \in Resources : Sub(nd[t], q)[r] <= Sub(avail, q)[r]
            BY <4>1, <4>2, <1>6, <1>7, VectorOps
      <4> QED BY <4>2, <4>3, VectorOps
    <3>2. work[2] = Add(Sub(avail, q), Add(alloc[t], q))
      <4>1. work[2] = Add(avail, alloc[t])
            BY <1>0, <1>2, <1>5, <1>12
      <4>2. /\ alloc[t] \in Vector /\ Sub(avail, q) \in Vector
            /\ Add(alloc[t], q) \in Vector /\ Add(avail, alloc[t]) \in Vector
            /\ Add(Sub(avail, q), Add(alloc[t], q)) \in Vector
            BY <1>6, VectorOps
      <4>3. ASSUME NEW r \in Resources
            PROVE  Add(avail, alloc[t])[r] = Add(Sub(avail, q), Add(alloc[t], q))[r]
        <5>1. avail[r] \in Int /\ q[r] \in Int /\ alloc[t][r] \in Int
              BY <1>6, <4>2 DEF Vector, Counts
        <5> QED BY <5>1, <4>2, <1>6, VectorOps
      <4> QED BY <4>1, <4>2, <4>3, VectorEq
    <3> QED BY <2>1, <3>1, <3>2, <1>0, <1>2, <1>10, <1>11
  <2>2. CASE k # 1
    <3>1. order[k] \in S \ {t} /\ k \in 2..(N + 1) /\ k + 1 \in 2..(N + 1)
          BY <2>2, <1>0, <1>3
    <3> QED BY <3>1, <1>10, <1>11, <1>12
  <2> QED BY <2>1, <2>2
<1>14. ASSUME NEW i \in 1..(N + 1), NEW j \in 1..(N + 1), i <= j
       PROVE  Leq(work2[i], work2[j])
  <2>1. \A r \in Resources : work[i][r] <= work[j][r]
        BY <1>4, <1>14 DEF OrderFacts, N
  <2>2. \A r \in Resources : work[i][r] \in Int /\ work[j][r] \in Int
        BY <1>4 DEF OrderFacts, N
  <2>3. \A r \in Resources : Sub(avail, q)[r] = avail[r] - q[r]
        BY <1>6, VectorOps
  <2>4. ASSUME NEW r \in Resources PROVE work2[i][r] <= work2[j][r]
    <3>1. CASE i = 1 /\ j = 1
          BY <3>1, <2>3, <1>6, <1>7, <1>10
    <3>2. CASE i = 1 /\ j # 1
          BY <3>2, <2>1, <2>2, <2>3, <1>0, <1>5, <1>6, <1>7, <1>10
    <3>3. CASE i # 1
          BY <3>3, <1>14, <2>1, <1>10
    <3> QED BY <3>1, <3>2, <3>3
  <2>5. work2[i] \in Vector /\ work2[j] \in Vector
        BY <1>10
  <2> QED BY <2>4, <2>5, VectorOps
<1>15. FinishInOrder(S, Sub(avail, q), alloc2, nd2, order, work2)
      BY <1>10, <1>13, <1>14 DEF FinishInOrder, N
<1>16. Safe(S, Sub(avail, q), alloc2, nd2)
      BY <1>10, <1>15 DEF Safe, N
<1> QED BY <1>8, <1>16 DEF alloc2, nd2
-----------------------------------------------------------------------------
(* At the start nobody holds anything, so that each announced claim, which *)
(* is no more than the total, can be met in any order.                     *)
LEMMA StartIsSafe == Safe(Threads, Total, [t \in Threads |-> Zero], maxNeed)
<1> DEFINE N == Cardinality(Threads)
           zero == [t \in Threads |-> Zero]
           work == [k \in 1..(N + 1) |-> Total]
<1> USE CountsAreVectors
<1>0. N \in Nat /\ Total \in Counts /\ Total \in Vector
      BY ClaimsAssumption, SizeInNat DEF ClaimsAssumption
<1>1. PICK order : order \in Bijection(1..N, Threads)
  <2>1. ExistsBijection(1..N, Threads)
        BY ClaimsAssumption, FS_CardinalityType DEF ClaimsAssumption
  <2> QED BY <2>1 DEF ExistsBijection
<1>2. order \in [1..N -> Threads]
      BY <1>1 DEF Bijection, Injection
<1>3. order \in Orders(Threads)
  <2>1. \A i, j \in 1..N : order[i] = order[j] => i = j
        BY <1>1 DEF Bijection, Injection, IsInjective
  <2>2. \A t \in Threads : \E i \in 1..N : order[i] = t
        BY <1>1 DEF Bijection, Surjection
  <2> QED BY <2>1, <2>2, <1>2 DEF Orders
<1>4. work \in [1..(N + 1) -> Counts]
      BY <1>0
<1>5. Add(Total, Zero) = Total
  <2>1. \A r \in Resources : Add(Total, Zero)[r] = Total[r]
        BY <1>0, VectorOps DEF Vector, Zero
  <2> QED BY <2>1, <1>0, VectorOps, VectorEq
<1>6. Leq(Total, Total)
      BY <1>0, VectorOps DEF Vector
<1>7. FinishInOrder(Threads, Total, zero, maxNeed, order, work)
  <2>1. work[1] = Total
        BY <1>0
  <2>2. ASSUME NEW k \in 1..N
        PROVE  /\ Leq(maxNeed[order[k]], work[k])
               /\ work[k + 1] = Add(work[k], zero[order[k]])
    <3>1. work[k] = Total /\ work[k + 1] = Total /\ order[k] \in Threads
          BY <1>0, <1>2
    <3> QED BY <3>1, <1>5, ClaimsAssumption DEF ClaimsAssumption
  <2> QED BY <2>1, <2>2, <1>6 DEF FinishInOrder
<1> QED BY <1>3, <1>4, <1>7 DEF Safe

(* The books of the banker when the threads of S have not quit: the counts *)
(* are in bounds, what a thread holds and may still ask for adds up to     *)
(* what it announced, what it waits for is part of that, and the threads   *)
(* can finish one after the other.                                         *)
BankersBooks(S, avail, alloc, nd, waits) ==
    /\ S \subseteq Threads /\ avail \in Counts
    /\ alloc \in [Threads -> Counts] /\ nd \in [Threads -> Counts]
    /\ waits \in [Threads -> [Resources -> Nat] \cup {None}]
    /\ \A t \in S : /\ maxNeed[t] = Add(alloc[t], nd[t])
                    /\ waits[t] # None => Leq(waits[t], nd[t])
    /\ Safe(S, avail, alloc, nd)

(* In a safe state no more is free than the bound on the totals. *)
LEMMA SafeCounts ==
    ASSUME NEW S, IsFiniteSet(S), NEW avail, NEW alloc, NEW nd,
           Safe(S, avail, alloc, nd)
    PROVE  avail \in Counts
<1>1. PICK work \in [1..(Cardinality(S) + 1) -> Counts] : work[1] = avail
      BY DEF Safe, FinishInOrder
<1> QED BY <1>1, SizeInNat

(* The books are in order when they are opened, ... *)
LEMMA BooksOpen ==
    BankersBooks(Threads, Total, [t \in Threads |-> Zero], maxNeed,
                 [t \in Threads |-> None])
<1> USE CountsAreVectors, ClaimsAssumption DEF ClaimsAssumption
<1>1. Zero \in Counts
      BY DEF Zero, Counts
<1>2. ASSUME NEW t \in Threads PROVE maxNeed[t] = Add(Zero, maxNeed[t])
  <2>1. maxNeed[t] \in Counts
        OBVIOUS
  <2>2. \A r \in Resources : maxNeed[t][r] = Add(Zero, maxNeed[t])[r]
        BY <2>1, VectorOps DEF Zero, Counts
  <2> QED BY <2>1, <2>2, VectorOps, VectorEq
<1> QED BY <1>1, <1>2, StartIsSafe DEF BankersBooks

(* ... a thread that returns resources and asks for others keeps them so, *)
LEMMA BooksOfRequest ==
    ASSUME NEW S, NEW avail, NEW alloc, NEW nd, NEW waits,
           BankersBooks(S, avail, alloc, nd, waits),
           NEW t \in S, NEW back \in Counts, NEW want \in Counts,
           Leq(back, alloc[t]), Leq(want, nd[t])
    PROVE  BankersBooks(S, Add(avail, back), [alloc EXCEPT ![t] = Sub(@, back)],
                        [nd EXCEPT ![t] = Add(@, back)],
                        [waits EXCEPT ![t] = IF IsZero(want) THEN None ELSE want])
<1> USE CountsAreVectors, ClaimsAssumption DEF ClaimsAssumption, BankersBooks
<1> DEFINE alloc2 == [alloc EXCEPT ![t] = Sub(@, back)]
           nd2 == [nd EXCEPT ![t] = Add(@, back)]
           waits2 == [waits EXCEPT ![t] = IF IsZero(want) THEN None ELSE want]
<1>1. IsFiniteSet(S) /\ t \in Threads
      BY FS_Subset
<1>2. Safe(S, Add(avail, back), alloc2, nd2)
      BY <1>1, ReturnKeepsSafe
<1>3. Add(avail, back) \in Counts
      BY <1>1, <1>2, SafeCounts
<1>4. back \in [Resources -> Nat] /\ want \in [Resources -> Nat]
      BY DEF Counts
<1>5. /\ Sub(alloc[t], back) \in Counts /\ Add(nd[t], back) \in Counts
      /\ maxNeed[t] = Add(Sub(alloc[t], back), Add(nd[t], back))
      /\ Leq(nd[t], Add(nd[t], back))
      BY <1>1, <1>4, MoveClaim
<1>6. Leq(want, Add(nd[t], back))
      BY <1>1, <1>5, LeqOrder
<1>7. /\ alloc2 \in [Threads -> Counts] /\ nd2 \in [Threads -> Counts]
      /\ waits2 \in [Threads -> [Resources -> Nat] \cup {None}]
      BY <1>1, <1>4, <1>5
<1>8. ASSUME NEW u \in S
      PROVE  /\ maxNeed[u] = Add(alloc2[u], nd2[u])
             /\ waits2[u] # None => Leq(waits2[u], nd2[u])
      BY <1>1, <1>5, <1>6
<1> QED BY <1>2, <1>3, <1>7, <1>8

(* ... so does one that is given what it waits for, if that is safe, *)
LEMMA BooksOfGrant ==
    ASSUME NEW S, NEW avail, NEW alloc, NEW nd, NEW waits,
           BankersBooks(S, avail, alloc, nd, waits),
           NEW t \in S, waits[t] # None,
           Safe(S, Sub(avail, waits[t]), [alloc EXCEPT ![t] = Add(@, waits[t])],
                [nd EXCEPT ![t] = Sub(@, waits[t])])
    PROVE  BankersBooks(S, Sub(avail, waits[t]), [alloc EXCEPT ![t] = Add(@, waits[t])],
                        [nd EXCEPT ![t] = Sub(@, waits[t])], [waits EXCEPT ![t] = None])
<1> USE CountsAreVectors, ClaimsAssumption DEF ClaimsAssumption, BankersBooks
<1>1. IsFiniteSet(S) /\ t \in Threads
      BY FS_Subset
<1>2. Sub(avail, waits[t]) \in Counts
      BY <1>1, SafeCounts
<1>3. waits[t] \in [Resources -> Nat] /\ Leq(waits[t], nd[t])
      BY <1>1
<1>4. /\ Add(alloc[t], waits[t]) \in Counts
      /\ Sub(nd[t], waits[t]) \in Counts
      /\ maxNeed[t] = Add(Add(alloc[t], waits[t]), Sub(nd[t], waits[t]))
      BY <1>1, <1>3, MoveClaim
<1> QED BY <1>1, <1>2, <1>4

(* ... and one that quits.                                                 *)
LEMMA BooksOfQuit ==
    ASSUME NEW S, NEW avail, NEW alloc, NEW nd, NEW waits,
           BankersBooks(S, avail, alloc, nd, waits), NEW t \in S
    PROVE  BankersBooks(S \ {t}, Add(avail, alloc[t]), [alloc EXCEPT ![t] = Zero],
                        [nd EXCEPT ![t] = Zero], waits)
<1> USE CountsAreVectors, ClaimsAssumption DEF ClaimsAssumption, BankersBooks
<1>1. IsFiniteSet(S) /\ IsFiniteSet(S \ {t}) /\ t \in Threads /\ Zero \in Counts
      BY FS_Subset DEF Zero, Counts
<1>2. Safe(S \ {t}, Add(avail, alloc[t]), [alloc EXCEPT ![t] = Zero],
           [nd EXCEPT ![t] = Zero])
      BY <1>1, QuitKeepsSafe
<1>3. Add(avail, alloc[t]) \in Counts
      BY <1>1, <1>2, SafeCounts
<1> QED BY <1>1, <1>2, <1>3

(* When the books are in order and all the threads wait, one of them can   *)
(* be given what it waits for, and the threads can still finish.           *)
LEMMA BooksProceed ==
    ASSUME NEW S, NEW avail, NEW alloc, NEW nd, NEW waits,
           BankersBooks(S, avail, alloc, nd, waits), S # {},
           \A t \in S : waits[t] # None
    PROVE  \E t \in S :
              /\ Leq(waits[t], avail)
              /\ Safe(S, Sub(avail, waits[t]), [alloc EXCEPT ![t] = Add(@, waits[t])],
                      [nd EXCEPT ![t] = Sub(@, waits[t])])
<1> USE DEF BankersBooks
<1>1. IsFiniteSet(S)
      BY ClaimsAssumption, FS_Subset DEF ClaimsAssumption
<1>2. PICK t \in S : \A q \in [Resources -> Nat] : Leq(q, nd[t]) =>
            /\ Leq(q, avail)
            /\ Safe(S, Sub(avail, q), [alloc EXCEPT ![t] = Add(@, q)],
                    [nd EXCEPT ![t] = Sub(@, q)])
      BY <1>1, FirstCanBeGranted
<1>3. t \in Threads /\ waits[t] \in [Resources -> Nat] /\ Leq(waits[t], nd[t])
      OBVIOUS
<1> QED BY <1>2, <1>3

-----------------------------------------------------------------------------
(* The inductive invariant *)

Requests == [type : {"QUIT", "RELEASE", "ADDITIONAL"}, thread : Threads,
             resources : [Resources -> -Cap..Cap]]

Blocked == {"sent", "asleep"}

(* Whatever of a thread is on its way was sent before its QUIT or its last *)
(* ADDITIONAL request, and the thread has not been seen off.               *)
OnTheirWay ==
    /\ \A i, j \in DOMAIN requestQueue :
          i < j /\ requestQueue[i].thread = requestQueue[j].thread =>
             requestQueue[i].type = "RELEASE"
    /\ \A i \in DOMAIN requestQueue :
          LET e == requestQueue[i]
          IN  /\ e.thread \in Live
              /\ e.type = "QUIT" => tpc[e.thread] = "done"
              /\ e.type = "ADDITIONAL" => tpc[e.thread] \in Blocked
              /\ e.type = "ADDITIONAL" <=> ~IsZero(Wanted(e.resources))

(* A thread is pending at most once, for what its claim leaves it, is      *)
(* asleep or about to be, and has nothing on its way.                      *)
Pending ==
    /\ \A i, j \in DOMAIN Waiting : Waiting[i].thread = Waiting[j].thread => i = j
    /\ \A i \in DOMAIN Waiting :
          LET e == Waiting[i]
          IN  /\ tpc[e.thread] \in Blocked
              /\ e.resources \in Counts /\ ~IsZero(e.resources)
              /\ Leq(e.resources, need[e.thread])
              /\ held[e.thread] = Add(allocation[e.thread], e.resources)
              /\ \A j \in DOMAIN requestQueue : requestQueue[j].thread # e.thread

(* The master puts requests aside only while it goes through them, and     *)
(* counts the threads it has not seen off.                                 *)
Rounds ==
    /\ mpc \in {"receive", "done"} => tempQueue = <<>>
    /\ activeThreads = Cardinality(Live)

(* Nothing is lost. *)
Books ==
    /\ Tables(available, allocation, need)
    /\ \A t \in Live : Claimed(t, allocation, need) /\ Leq(held[t], maxNeed[t])
    /\ \A t \in Threads \ Live : allocation[t] = Zero /\ need[t] = Zero

(* b[k] is what thread t holds after the first k requests of the queue q,  *)
(* if it holds `a' before; it returns no more than it then holds, and asks *)
(* for no more than its claim then leaves it.                              *)
Runs(b, q, t, a) ==
    /\ b \in [0..Len(q) -> Counts]
    /\ b[0] = a
    /\ \A k \in 1..Len(q) : q[k].thread # t => b[k] = b[k - 1]
    /\ \A k \in 1..Len(q) : q[k].thread = t =>
          /\ Leq(Returned(q[k].resources), b[k - 1])
          /\ Leq(Wanted(q[k].resources), Sub(maxNeed[t], b[k - 1]))
          /\ b[k] = Add(b[k - 1], q[k].resources)

RunsTo(q, t, a, last) ==
    \E b \in [0..Len(q) -> Counts] : Runs(b, q, t, a) /\ b[Len(q)] = last

(* By its script a thread that is not pending holds what the master has    *)
(* booked for it and what its requests on their way will change.           *)
Scripts ==
    \A t \in Live :
        \E b \in [0..Len(requestQueue) -> Counts] :
            /\ Runs(b, requestQueue, t, allocation[t])
            /\ (\A i \in DOMAIN Waiting : Waiting[i].thread # t) =>
                  held[t] = b[Len(requestQueue)]

Inv == TypeOK /\ OnTheirWay /\ Pending /\ Rounds /\ Books /\ Scripts

-----------------------------------------------------------------------------
(* The queues *)

(* A queue is a function on its positions; an entry goes to the end of it, *)
LEMMA EntryAdded ==
    ASSUME NEW S, NEW s \in Seq(S), NEW e \in S
    PROVE  /\ Append(s, e) \in Seq(S)
           /\ Len(s) \in Nat /\ DOMAIN s = 1..Len(s)
           /\ Len(Append(s, e)) = Len(s) + 1
           /\ DOMAIN Append(s, e) = 1..(Len(s) + 1)
           /\ \A i \in 1..Len(s) : Append(s, e)[i] = s[i]
           /\ Append(s, e)[Len(s) + 1] = e
<1>1. /\ Append(s, e) \in Seq(S) /\ Len(Append(s, e)) = Len(s) + 1
      /\ \A i \in 1..Len(s) : Append(s, e)[i] = s[i]
      /\ Append(s, e)[Len(s) + 1] = e
      BY AppendProperties
<1> QED BY <1>1, LenProperties

(* ... and leaves it from the front.                                       *)
LEMMA EntryTaken ==
    ASSUME NEW S, NEW s \in Seq(S), s # <<>>
    PROVE  /\ Tail(s) \in Seq(S)
           /\ Len(s) \in Nat /\ Len(s) >= 1 /\ DOMAIN s = 1..Len(s)
           /\ Len(Tail(s)) = Len(s) - 1 /\ DOMAIN Tail(s) = 1..(Len(s) - 1)
           /\ Head(s) = s[1] /\ s[1] \in S
           /\ \A i \in 1..(Len(s) - 1) : Tail(s)[i] = s[i + 1]
<1>1. /\ Head(s) \in S /\ Tail(s) \in Seq(S) /\ Len(Tail(s)) = Len(s) - 1
      /\ \A i \in 1..Len(Tail(s)) : Tail(s)[i] = s[i + 1]
      BY HeadTailProperties
<1>2. Len(s) \in Nat \ {0}
      BY EmptySeq
<1>3. DOMAIN s = 1..Len(s) /\ DOMAIN Tail(s) = 1..Len(Tail(s))
      BY <1>1, LenProperties
<1>4. Head(s) = s[1]
      OBVIOUS
<1> QED BY <1>1, <1>2, <1>3, <1>4

(* The shape of the state, with what it says of the queues. *)
LEMMA Shapes ==
    ASSUME TypeOK
    PROVE  /\ DOMAIN tpc = Threads /\ tpc = [u \in Threads |-> tpc[u]]
           /\ allocation \in [Threads -> Counts] /\ need \in [Threads -> Counts]
           /\ held \in [Threads -> Counts] /\ available \in Counts
           /\ \A u \in Threads : /\ allocation[u] \in Counts /\ need[u] \in Counts
                                 /\ held[u] \in Counts /\ maxNeed[u] \in Counts
           /\ requestQueue \in Seq(Requests) /\ pendingQueue \in Seq(Requests)
           /\ tempQueue \in Seq(Requests)
           /\ DOMAIN requestQueue = 1..Len(requestQueue) /\ Len(requestQueue) \in Nat
           /\ \A i \in DOMAIN requestQueue : requestQueue[i] \in Requests
           /\ Waiting \in Seq(Requests)
           /\ Len(Waiting) = Len(pendingQueue) + Len(tempQueue) /\ Len(Waiting) \in Nat
           /\ Len(pendingQueue) \in Nat /\ Len(tempQueue) \in Nat
           /\ DOMAIN pendingQueue = 1..Len(pendingQueue)
           /\ DOMAIN tempQueue = 1..Len(tempQueue)
           /\ DOMAIN Waiting = 1..Len(Waiting)
           /\ \A i \in DOMAIN Waiting : Waiting[i] \in Requests
           /\ \A i \in 1..Len(Waiting) :
                 Waiting[i] = IF i <= Len(pendingQueue) THEN pendingQueue[i]
                              ELSE tempQueue[i - Len(pendingQueue)]
<1>1. /\ requestQueue \in Seq(Requests) /\ pendingQueue \in Seq(Requests)
      /\ tempQueue \in Seq(Requests)
      BY DEF TypeOK, Requests
<1>2. /\ Waiting \in Seq(Requests) /\ Len(Waiting) = Len(pendingQueue) + Len(tempQueue)
      /\ \A i \in 1..(Len(pendingQueue) + Len(tempQueue)) :
            Waiting[i] = IF i <= Len(pendingQueue) THEN pendingQueue[i]
                         ELSE tempQueue[i - Len(pendingQueue)]
      BY <1>1, ConcatProperties DEF Waiting
<1>3. /\ DOMAIN requestQueue = 1..Len(requestQueue) /\ Len(requestQueue) \in Nat
      /\ DOMAIN Waiting = 1..Len(Waiting) /\ Len(Waiting) \in Nat
      /\ Len(pendingQueue) \in Nat /\ Len(tempQueue) \in Nat
      /\ DOMAIN pendingQueue = 1..Len(pendingQueue)
      /\ DOMAIN tempQueue = 1..Len(tempQueue)
      BY <1>1, <1>2, LenProperties
<1>4. /\ \A i \in DOMAIN requestQueue : requestQueue[i] \in Requests
      /\ \A i \in DOMAIN Waiting : Waiting[i] \in Requests
      BY <1>1, <1>2, <1>3, ElementOfSeq
<1>5. /\ DOMAIN tpc = Threads /\ tpc = [u \in Threads |-> tpc[u]]
      /\ allocation \in [Threads -> Counts] /\ need \in [Threads -> Counts]
      /\ held \in [Threads -> Counts] /\ available \in Counts
      /\ \A u \in Threads : /\ allocation[u] \in Counts /\ need[u] \in Counts
                            /\ held[u] \in Counts /\ maxNeed[u] \in Counts
      BY ClaimsAssumption DEF TypeOK, ClaimsAssumption
<1> QED BY <1>1, <1>2, <1>3, <1>4, <1>5

(* When a pending request is granted the others move up, ...               *)
LEMMA WaitingTaken ==
    ASSUME TypeOK, pendingQueue # <<>>, pendingQueue' = Tail(pendingQueue),
           tempQueue' = tempQueue
    PROVE  /\ Head(pendingQueue) = Waiting[1] /\ 1 \in DOMAIN Waiting
           /\ DOMAIN Waiting = 1..Len(Waiting) /\ Len(Waiting) \in Nat
           /\ pendingQueue' \in Seq(Requests)
           /\ Len(pendingQueue') + Len(tempQueue') = Len(Waiting) - 1
           /\ DOMAIN Waiting' = 1..(Len(Waiting) - 1)
           /\ \A i \in 1..(Len(Waiting) - 1) : Waiting'[i] = Waiting[i + 1]
<1> DEFINE n == Len(Waiting)
           p == Len(pendingQueue)
<1>1. /\ pendingQueue \in Seq(Requests) /\ tempQueue \in Seq(Requests)
      /\ n = p + Len(tempQueue) /\ n \in Nat /\ p \in Nat /\ Len(tempQueue) \in Nat
      /\ DOMAIN Waiting = 1..n
      /\ \A i \in 1..n : Waiting[i] = IF i <= p THEN pendingQueue[i] ELSE tempQueue[i - p]
      BY Shapes
<1>2. /\ pendingQueue' \in Seq(Requests) /\ p >= 1 /\ Len(pendingQueue') = p - 1
      /\ Head(pendingQueue) = pendingQueue[1]
      /\ \A i \in 1..(p - 1) : pendingQueue'[i] = pendingQueue[i + 1]
      BY <1>1, EntryTaken
<1>3. /\ Waiting' \in Seq(Requests) /\ Len(Waiting') = Len(pendingQueue') + Len(tempQueue')
      /\ \A i \in 1..(Len(pendingQueue') + Len(tempQueue')) :
            Waiting'[i] = IF i <= Len(pendingQueue') THEN pendingQueue'[i]
                          ELSE tempQueue'[i - Len(pendingQueue')]
  <2>1. Waiting' = pendingQueue' \o tempQueue'
        BY DEF Waiting
  <2> QED BY <2>1, <1>1, <1>2, ConcatProperties
<1>4. DOMAIN Waiting' = 1..Len(Waiting')
      BY <1>3, LenProperties
<1> HIDE DEF n, p
<1>5. Waiting[1] = pendingQueue[1]
      BY <1>1, <1>2
<1>6. ASSUME NEW i \in 1..(n - 1) PROVE Waiting'[i] = Waiting[i + 1]
  <2>0. Len(pendingQueue') + Len(tempQueue') = n - 1
    <3>1. Len(tempQueue') = Len(tempQueue)
          OBVIOUS
    <3>2. /\ p \in Nat /\ Len(tempQueue) \in Nat /\ n = p + Len(tempQueue)
          /\ Len(pendingQueue') = p - 1
          BY <1>1, <1>2
    <3> QED BY <3>1, <3>2
  <2>1. Waiting'[i] = IF i <= p - 1 THEN pendingQueue'[i] ELSE tempQueue[i - (p - 1)]
        BY <2>0, <1>2, <1>3
  <2>2. Waiting[i + 1] = IF i + 1 <= p THEN pendingQueue[i + 1] ELSE tempQueue[i + 1 - p]
        BY <1>1
  <2>3. CASE i <= p - 1
        BY <2>1, <2>2, <2>3, <1>1, <1>2
  <2>4. CASE ~(i <= p - 1)
    <3>1. i - (p - 1) = i + 1 - p /\ ~(i + 1 <= p)
          BY <2>4, <1>1
    <3>2. Waiting'[i] = tempQueue[i - (p - 1)] /\ Waiting[i + 1] = tempQueue[i + 1 - p]
          BY <3>1, <2>1, <2>2, <2>4
    <3> QED BY <3>1, <3>2
  <2> QED BY <2>3, <2>4
<1>7. /\ Len(Waiting') = n - 1 /\ 1 \in 1..n
      /\ Len(pendingQueue') + Len(tempQueue') = n - 1
      BY <1>1, <1>2, <1>3
<1> QED BY <1>1, <1>2, <1>4, <1>5, <1>6, <1>7 DEF n

(* ... and when it is put aside it goes to the end.                        *)
LEMMA WaitingRotated ==
    ASSUME TypeOK, pendingQueue # <<>>, pendingQueue' = Tail(pendingQueue),
           tempQueue' = Append(tempQueue, Head(pendingQueue))
    PROVE  /\ 1 \in DOMAIN Waiting
           /\ DOMAIN Waiting = 1..Len(Waiting) /\ Len(Waiting) \in Nat
           /\ pendingQueue' \in Seq(Requests) /\ tempQueue' \in Seq(Requests)
           /\ Len(pendingQueue') + Len(tempQueue') = Len(Waiting)
           /\ DOMAIN Waiting' = 1..Len(Waiting)
           /\ \A i \in 1..(Len(Waiting) - 1) : Waiting'[i] = Waiting[i + 1]
           /\ Waiting'[Len(Waiting)] = Waiting[1]
<1> DEFINE n == Len(Waiting)
           p == Len(pendingQueue)
           m == Len(tempQueue)
<1>1. /\ pendingQueue \in Seq(Requests) /\ tempQueue \in Seq(Requests)
      /\ n = p + m /\ n \in Nat /\ p \in Nat /\ m \in Nat
      /\ DOMAIN Waiting = 1..n
      /\ \A i \in 1..n : Waiting[i] = IF i <= p THEN pendingQueue[i] ELSE tempQueue[i - p]
      BY Shapes
<1>2. /\ pendingQueue' \in Seq(Requests) /\ p >= 1 /\ Len(pendingQueue') = p - 1
      /\ Head(pendingQueue) = pendingQueue[1] /\ pendingQueue[1] \in Requests
      /\ \A i \in 1..(p - 1) : pendingQueue'[i] = pendingQueue[i + 1]
      BY <1>1, EntryTaken
<1>3. /\ tempQueue' \in Seq(Requests) /\ Len(tempQueue') = m + 1
      /\ \A i \in 1..m : tempQueue'[i] = tempQueue[i]
      /\ tempQueue'[m + 1] = pendingQueue[1]
      BY <1>1, <1>2, EntryAdded
<1>4. /\ Waiting' \in Seq(Requests) /\ Len(Waiting') = Len(pendingQueue') + Len(tempQueue')
      /\ \A i \in 1..(Len(pendingQueue') + Len(tempQueue')) :
            Waiting'[i] = IF i <= Len(pendingQueue') THEN pendingQueue'[i]
                          ELSE tempQueue'[i - Len(pendingQueue')]
  <2>1. Waiting' = pendingQueue' \o tempQueue'
        BY DEF Waiting
  <2>2. PICK P \in Seq(Requests), T \in Seq(Requests) : P = pendingQueue' /\ T = tempQueue'
        BY <1>2, <1>3
  <2>3. /\ P \o T \in Seq(Requests) /\ Len(P \o T) = Len(P) + Len(T)
        /\ \A i \in 1..(Len(P) + Len(T)) :
              (P \o T)[i] = IF i <= Len(P) THEN P[i] ELSE T[i - Len(P)]
        BY ONLY P \in Seq(Requests), T \in Seq(Requests), ConcatProperties
  <2> QED BY ONLY <2>1, <2>2, <2>3
<1>5. DOMAIN Waiting' = 1..Len(Waiting')
      BY <1>4, LenProperties
<1> HIDE DEF n, p, m
<1>6. /\ Len(Waiting') = n /\ 1 \in 1..n /\ n \in 1..n
      /\ Len(pendingQueue') + Len(tempQueue') = n
  <2>1. (p - 1) + (m + 1) = n /\ n >= 1
        BY <1>1, <1>2
  <2>2. Len(pendingQueue') + Len(tempQueue') = (p - 1) + (m + 1)
        BY <1>2, <1>3
  <2>3. Len(Waiting') = n
        BY <2>1, <2>2, <1>4
  <2>4. 1 \in 1..n /\ n \in 1..n
        BY <2>1, <1>1
  <2> QED BY <2>1, <2>2, <2>3, <2>4
<1>7. Waiting[1] = pendingQueue[1]
      BY <1>1, <1>2, <1>6
<1>8. \A i \in 1..n : Waiting'[i] = IF i <= p - 1 THEN pendingQueue'[i]
                                    ELSE tempQueue'[i - (p - 1)]
      BY <1>2, <1>4, <1>6
<1>9. ASSUME NEW i \in 1..(n - 1) PROVE Waiting'[i] = Waiting[i + 1]
  <2>1. Waiting[i + 1] = IF i + 1 <= p THEN pendingQueue[i + 1] ELSE tempQueue[i + 1 - p]
        BY <1>1
  <2>2. Waiting'[i] = IF i <= p - 1 THEN pendingQueue'[i] ELSE tempQueue'[i - (p - 1)]
    <3>1. i \in 1..n
          BY <1>1
    <3> QED BY <3>1, <1>8
  <2>3. CASE i <= p - 1
        BY <2>1, <2>2, <2>3, <1>1, <1>2
  <2>4. CASE ~(i <= p - 1)
    <3>1. i - (p - 1) = i + 1 - p /\ ~(i + 1 <= p) /\ i + 1 - p \in 1..m
          BY <2>4, <1>1
    <3>2. Waiting'[i] = tempQueue'[i - (p - 1)] /\ Waiting[i + 1] = tempQueue[i + 1 - p]
          BY <3>1, <2>1, <2>2, <2>4
    <3>3. tempQueue'[i + 1 - p] = tempQueue[i + 1 - p]
          BY <3>1, <1>3
    <3> QED BY <3>1, <3>2, <3>3
  <2> QED BY <2>3, <2>4
<1>10. Waiting'[n] = Waiting[1]
  <2>1. n - (p - 1) = m + 1 /\ ~(n <= p - 1)
        BY <1>1
  <2> QED BY <2>1, <1>3, <1>6, <1>7, <1>8
<1> QED BY <1>1, <1>2, <1>3, <1>5, <1>6, <1>9, <1>10 DEF n

(* No more requests are pending than there are threads. *)
LEMMA PendingFits ==
    ASSUME NEW w \in Seq(Requests), \A i, j \in DOMAIN w : w[i].thread = w[j].thread => i = j
    PROVE  Len(w) <= Cardinality(Threads)
<1> DEFINE n == Len(w)
           f == [i \in 1..n |-> w[i].thread]
<1>1. /\ n \in Nat /\ DOMAIN w = 1..n /\ \A i \in 1..n : w[i].thread \in Threads
  <2>1. n \in Nat /\ DOMAIN w = 1..n
        BY LenProperties
  <2>2. \A i \in 1..n : w[i] \in Requests
        BY ElementOfSeq
  <2> QED BY <2>1, <2>2 DEF Requests
<1>2. \A i, j \in 1..n : w[i].thread = w[j].thread => i = j
      BY <1>1
<1>3. f \in Injection(1..n, Threads)
      BY <1>1, <1>2 DEF Injection, IsInjective
<1>4. IsFiniteSet(Threads)
      BY ClaimsAssumption DEF ClaimsAssumption
<1>5. Cardinality(1..n) <= Cardinality(Threads)
      BY <1>3, <1>4, FS_Injection
<1>6. Cardinality(1..n) = n
  <2> HIDE DEF n
  <2>1. 1 \in Int /\ n \in Int
        BY <1>1
  <2>2. Cardinality(1..n) = IF 1 > n THEN 0 ELSE n - 1 + 1
        BY <2>1, FS_Interval
  <2> QED BY <2>2, <1>1
<1> QED BY <1>5, <1>6 DEF n

-----------------------------------------------------------------------------
(* The scripts *)

(* What is left of a claim is what the thread still needs. *)
LEMMA ClaimLeft ==
    ASSUME NEW m \in Counts, NEW a \in Counts, NEW n \in Counts, m = Add(a, n)
    PROVE  Sub(m, a) = n
<1> USE CountsAreVectors
<1>1. \A r \in Resources : m[r] \in Int /\ a[r] \in Int /\ n[r] \in Int
      BY DEF Vector
<1>2. /\ Sub(m, a) \in Vector
      /\ \A r \in Resources : Sub(m, a)[r] = m[r] - a[r] /\ m[r] = a[r] + n[r]
      BY VectorOps
<1>3. \A r \in Resources : Sub(m, a)[r] = n[r]
      BY <1>1, <1>2
<1> QED BY <1>2, <1>3, VectorEq

(* A script stays within the claim. *)
LEMMA ScriptStays ==
    ASSUME NEW m \in Counts, NEW a \in Counts, Leq(a, m), NEW q \in ScriptRequests(a, m)
    PROVE  /\ q \in [Resources -> -Cap..Cap]
           /\ Leq(Returned(q), a) /\ Leq(Wanted(q), Sub(m, a))
           /\ Add(a, q) \in Counts /\ Leq(Add(a, q), m)
<1> USE CountsAreVectors, ClaimsAssumption DEF ClaimsAssumption
<1> DEFINE n == Sub(m, a)
<1>1. \A r \in Resources : m[r] \in 0..Cap /\ a[r] \in 0..Cap /\ a[r] <= m[r]
  <2>1. \A r \in Resources : a[r] <= m[r]
        BY VectorOps
  <2> QED BY <2>1 DEF Counts
<1>2. /\ n \in Vector /\ \A r \in Resources : n[r] = m[r] - a[r]
      BY VectorOps
<1>3. n \in Counts
  <2>1. \A r \in Resources : n[r] \in 0..Cap
        BY <1>1, <1>2
  <2> QED BY <2>1, <1>2 DEF Counts, Vector
<1>4. m = Add(a, n)
  <2>1. Add(a, n) \in Vector /\ \A r \in Resources : Add(a, n)[r] = a[r] + n[r]
        BY <1>2, VectorOps
  <2>2. \A r \in Resources : m[r] = Add(a, n)[r]
        BY <2>1, <1>1, <1>2
  <2> QED BY <2>1, <2>2, VectorEq
<1>5. /\ q \in [Resources -> -Cap..Cap] /\ Leq(Returned(q), a) /\ Leq(Wanted(q), n)
      /\ Add(a, q) \in Counts
      BY <1>3, <1>4, ScriptFits
<1>6. Leq(Add(a, q), m)
  <2>1. /\ Wanted(q) \in Counts /\ Returned(q) \in Counts
        /\ \A r \in Resources : q[r] = Wanted(q)[r] - Returned(q)[r]
        BY <1>5, RequestHalves
  <2>2. q \in Vector
        BY <1>5 DEF Vector
  <2>3. /\ \A r \in Resources : Add(a, q)[r] = a[r] + q[r]
        /\ \A r \in Resources : Wanted(q)[r] <= n[r]
        BY <2>1, <2>2, <1>2, <1>5, VectorOps
  <2>4. \A r \in Resources : Wanted(q)[r] \in 0..Cap /\ Returned(q)[r] \in 0..Cap
        BY <2>1 DEF Counts
  <2>5. \A r \in Resources : Add(a, q)[r] <= m[r]
        BY <2>1, <2>3, <2>4, <1>1, <1>2
  <2> QED BY <2>5, <1>5, VectorOps
<1> QED BY <1>5, <1>6

(* A thread's next request continues its run, another thread's leaves it.  *)
LEMMA RunsAppended ==
    ASSUME NEW q \in Seq(Requests), NEW e \in Requests, NEW t, NEW a,
           NEW b, Runs(b, q, t, a),
           e.thread = t => /\ Leq(Returned(e.resources), b[Len(q)])
                           /\ Leq(Wanted(e.resources), Sub(maxNeed[t], b[Len(q)]))
                           /\ Add(b[Len(q)], e.resources) \in Counts
    PROVE  RunsTo(Append(q, e), t, a,
                  IF e.thread = t THEN Add(b[Len(q)], e.resources) ELSE b[Len(q)])
<1> DEFINE n == Len(q)
           p == Append(q, e)
           last == IF e.thread = t THEN Add(b[n], e.resources) ELSE b[n]
           c == [k \in 0..(n + 1) |-> IF k = n + 1 THEN last ELSE b[k]]
<1>1. /\ n \in Nat /\ Len(p) = n + 1 /\ \A i \in 1..n : p[i] = q[i] /\ p[n + 1] = e
      BY EntryAdded
<1>2. b \in [0..n -> Counts] /\ b[0] = a
      BY DEF Runs
<1>3. last \in Counts
      BY <1>1, <1>2
<1>4. c \in [0..(n + 1) -> Counts]
      BY <1>1, <1>2, <1>3
<1>5. c[n + 1] = last /\ \A k \in 0..n : c[k] = b[k]
      BY <1>1
<1>6. ASSUME NEW k \in 1..(n + 1)
      PROVE  /\ p[k].thread # t => c[k] = c[k - 1]
             /\ p[k].thread = t => /\ Leq(Returned(p[k].resources), c[k - 1])
                                   /\ Leq(Wanted(p[k].resources), Sub(maxNeed[t], c[k - 1]))
                                   /\ c[k] = Add(c[k - 1], p[k].resources)
  <2> HIDE DEF c, p
  <2>1. CASE k = n + 1
    <3>1. c[k - 1] = b[n] /\ c[k] = last /\ p[k] = e
      <4>1. k - 1 = n /\ n \in 0..n
            BY <2>1, <1>1
      <4>2. p[n + 1] = e
            BY EntryAdded DEF p
      <4> QED BY <4>1, <4>2, <2>1, <1>5
    <3> QED BY <3>1
  <2>2. CASE k # n + 1
    <3>1. k \in 1..n /\ k - 1 \in 0..n /\ k \in 0..n
          BY <2>2, <1>1
    <3>2. p[k] = q[k] /\ c[k] = b[k] /\ c[k - 1] = b[k - 1]
          BY <3>1, <1>1, <1>5
    <3> QED BY <3>1, <3>2 DEF Runs
  <2> QED BY <2>1, <2>2
<1> HIDE DEF c, p, last
<1>7. c[0] = a
      BY <1>1, <1>2, <1>5
<1>8. Runs(c, p, t, a)
      BY <1>1, <1>4, <1>6, <1>7 DEF Runs
<1> QED BY <1>1, <1>4, <1>5, <1>8 DEF p, last, RunsTo

(* A run goes on from what its first request leaves. *)
LEMMA RunsTaken ==
    ASSUME NEW q \in Seq(Requests), q # <<>>, NEW t, NEW a, NEW b, Runs(b, q, t, a)
    PROVE  RunsTo(Tail(q), t, b[1], b[Len(q)])
<1> DEFINE n == Len(q)
           p == Tail(q)
           c == [k \in 0..(n - 1) |-> b[k + 1]]
<1>1. /\ n \in Nat /\ n >= 1 /\ Len(p) = n - 1
      /\ \A i \in 1..(n - 1) : p[i] = q[i + 1]
      BY EntryTaken
<1>2. b \in [0..n -> Counts]
      BY DEF Runs
<1>3. c \in [0..(n - 1) -> Counts] /\ \A k \in 0..(n - 1) : c[k] = b[k + 1]
      BY <1>1, <1>2
<1> HIDE DEF c, p
<1>4. ASSUME NEW k \in 1..(n - 1)
      PROVE  /\ p[k].thread # t => c[k] = c[k - 1]
             /\ p[k].thread = t => /\ Leq(Returned(p[k].resources), c[k - 1])
                                   /\ Leq(Wanted(p[k].resources), Sub(maxNeed[t], c[k - 1]))
                                   /\ c[k] = Add(c[k - 1], p[k].resources)
  <2>1. /\ k + 1 \in 1..n /\ (k + 1) - 1 = k /\ (k - 1) + 1 = k
        /\ k \in 0..(n - 1) /\ k - 1 \in 0..(n - 1)
        BY <1>1
  <2>2. p[k] = q[k + 1] /\ c[k] = b[k + 1] /\ c[k - 1] = b[k]
        BY <2>1, <1>1, <1>3
  <2>3. /\ q[k + 1].thread # t => b[k + 1] = b[k]
        /\ q[k + 1].thread = t => /\ Leq(Returned(q[k + 1].resources), b[k])
                                  /\ Leq(Wanted(q[k + 1].resources), Sub(maxNeed[t], b[k]))
                                  /\ b[k + 1] = Add(b[k], q[k + 1].resources)
        BY <2>1 DEF Runs
  <2> QED BY <2>2, <2>3
<1>5. c[0] = b[1] /\ c[n - 1] = b[n]
      BY <1>1, <1>3
<1>6. Runs(c, p, t, b[1])
      BY <1>1, <1>3, <1>4, <1>5 DEF Runs
<1> QED BY <1>1, <1>3, <1>5, <1>6 DEF p, RunsTo

(* What the first request of a run does. *)
LEMMA RunsFirst ==
    ASSUME NEW q \in Seq(Requests), q # <<>>, NEW t, NEW a, NEW b, Runs(b, q, t, a)
    PROVE  /\ b[1] \in Counts
           /\ q[1].thread # t => b[1] = a
           /\ q[1].thread = t => /\ Leq(Returned(q[1].resources), a)
                                 /\ Leq(Wanted(q[1].resources), Sub(maxNeed[t], a))
                                 /\ b[1] = Add(a, q[1].resources)
<1>1. 1 \in 1..Len(q) /\ 1 \in 0..Len(q) /\ 1 - 1 = 0
      BY EntryTaken
<1> QED BY <1>1 DEF Runs

(* A run without requests stays where it is. *)
LEMMA RunsIdle ==
    ASSUME NEW q \in Seq(Requests), NEW t, \A i \in DOMAIN q : q[i].thread # t,
           NEW a \in Counts
    PROVE  RunsTo(q, t, a, a)
<1> DEFINE n == Len(q)
           c == [k \in 0..n |-> a]
<1>1. n \in Nat /\ DOMAIN q = 1..n
      BY LenProperties
<1>2. c \in [0..n -> Counts] /\ c[0] = a /\ c[n] = a /\ \A k \in 1..n : c[k] = c[k - 1]
      BY <1>1
<1> HIDE DEF c
<1>3. Runs(c, q, t, a)
      BY <1>1, <1>2 DEF Runs
<1> QED BY <1>2, <1>3 DEF RunsTo

(* A thread that has nothing in the queue has what it started from.        *)
LEMMA RunsNone ==
    ASSUME NEW q \in Seq(Requests), NEW t, \A i \in DOMAIN q : q[i].thread # t,
           NEW a, NEW b, Runs(b, q, t, a)
    PROVE  b[Len(q)] = a
<1> DEFINE n == Len(q)
           I == {k \in Nat : k <= n => b[k] = a}
<1>1. n \in Nat /\ DOMAIN q = 1..n
      BY LenProperties
<1>2. 0 \in I
      BY DEF Runs
<1>3. ASSUME NEW k \in I \cap Nat PROVE k + 1 \in I
  <2> SUFFICES ASSUME k + 1 <= n PROVE b[k + 1] = a
      OBVIOUS
  <2>1. k + 1 \in 1..n /\ (k + 1) - 1 = k /\ b[k] = a
        BY <1>1
  <2>2. b[k + 1] = b[(k + 1) - 1]
        BY <2>1, <1>1 DEF Runs
  <2> QED BY <2>1, <2>2
<1>4. n \in I
  <2> HIDE DEF I
  <2> QED BY <1>1, <1>2, <1>3, NumberInduction
<1> QED BY <1>1, <1>4

-----------------------------------------------------------------------------
(* Every step keeps the invariant *)

(* At the start nobody holds anything and nothing is on its way. *)
LEMMA InvInit == Init => Inv
<1> SUFFICES ASSUME Init PROVE Inv
    OBVIOUS
<1> USE ClaimsAssumption, ManagerAssumption, SessionAssumption, CountsAreVectors
    DEF ClaimsAssumption, ManagerAssumption, SessionAssumption, Init
<1>1. /\ Zero \in Counts /\ \A t \in Threads : maxNeed[t] \in Counts
      /\ Cardinality(Threads) \in Nat
      BY SizeInNat DEF Zero, Counts
<1>2. TypeOK
  <2>1. /\ requestQueue \in Seq(Requests) /\ pendingQueue \in Seq(Requests)
        /\ tempQueue \in Seq(Requests)
        /\ Len(requestQueue) = 0 /\ Len(pendingQueue) = 0 /\ Len(tempQueue) = 0
        BY EmptySeq
  <2> QED BY <1>1, <2>1 DEF TypeOK, Requests
<1>3. DOMAIN requestQueue = {} /\ DOMAIN Waiting = {}
      BY <1>2, Shapes, EmptySeq
<1>4. Live = Threads
      BY DEF Live
<1>5. OnTheirWay /\ Pending /\ Rounds
      BY <1>3, <1>4 DEF OnTheirWay, Pending, Rounds
<1>6. Books
  <2>1. ASSUME NEW t \in Threads
        PROVE  Add(Zero, maxNeed[t]) = maxNeed[t] /\ Leq(Zero, maxNeed[t])
    <3>1. maxNeed[t] \in Vector /\ Zero \in Vector
          BY <1>1
    <3>2. \A r \in Resources : Zero[r] = 0 /\ maxNeed[t][r] \in 0..Cap
          BY <1>1 DEF Zero, Counts
    <3>3. /\ Add(Zero, maxNeed[t]) \in Vector
          /\ \A r \in Resources : Add(Zero, maxNeed[t])[r] = Zero[r] + maxNeed[t][r]
          /\ Leq(Zero, maxNeed[t]) <=> \A r \in Resources : Zero[r] <= maxNeed[t][r]
          BY <3>1, VectorOps
    <3>4. \A r \in Resources : /\ Add(Zero, maxNeed[t])[r] = maxNeed[t][r]
                               /\ Zero[r] <= maxNeed[t][r]
          BY <3>2, <3>3
    <3> QED BY <3>1, <3>3, <3>4, VectorEq
  <2> QED BY <2>1, <1>1, <1>4, WorkStarts DEF Books, Tables, Claimed
<1>7. Scripts
  <2>1. ASSUME NEW t \in Live
        PROVE  \E b \in [0..Len(requestQueue) -> Counts] :
                  Runs(b, requestQueue, t, allocation[t]) /\ b[Len(requestQueue)] = held[t]
    <3>1. /\ requestQueue \in Seq(Requests)
          /\ \A i \in DOMAIN requestQueue : requestQueue[i].thread # t
          /\ allocation[t] \in Counts /\ held[t] = allocation[t]
          BY <1>1, <1>3, <1>4, EmptySeq
    <3> HIDE DEF Init
    <3>2. RunsTo(requestQueue, t, allocation[t], allocation[t])
          BY <3>1, RunsIdle
    <3> QED BY <3>1, <3>2 DEF RunsTo
  <2> QED BY <2>1 DEF Scripts
<1> QED BY <1>2, <1>5, <1>6, <1>7 DEF Inv

(* A thread that is to send a request is live, has only releases on their  *)
(* way, and nothing pending.                                               *)
LEMMA Awake ==
    ASSUME Inv, NEW t \in Threads, tpc[t] = "delay"
    PROVE  /\ t \in Live
           /\ \A i \in DOMAIN requestQueue :
                 requestQueue[i].thread = t => requestQueue[i].type = "RELEASE"
           /\ \A i \in DOMAIN Waiting : Waiting[i].thread # t
<1>1. \A i \in DOMAIN requestQueue :
         requestQueue[i].type \in {"QUIT", "RELEASE", "ADDITIONAL"}
      BY Shapes DEF Inv, Requests
<1> QED BY <1>1 DEF Inv, Live, OnTheirWay, Pending, Blocked

(* A request fits the script of its thread, ...                            *)
Fits(t, q) ==
    /\ Leq(Returned(q), held[t]) /\ Leq(Wanted(q), Sub(maxNeed[t], held[t]))
    /\ Add(held[t], q) \in Counts /\ Leq(Add(held[t], q), maxNeed[t])

(* ... and its type says where the thread goes on.                         *)
Sends(t, e, to) ==
    /\ e.thread = t
    /\ to = CASE e.type = "RELEASE" -> "delay" [] e.type = "ADDITIONAL" -> "sent"
              [] OTHER -> "done"
    /\ e.type = "ADDITIONAL" <=> ~IsZero(Wanted(e.resources))

(* Nobody goes by sending: a QUIT on its way keeps its thread live.        *)
LEMMA SendKeepsLive ==
    ASSUME Inv, NEW t \in Threads, NEW e \in Requests, NEW to,
           Send(t, e, to), Sends(t, e, to)
    PROVE  Live' = Live
<1> DEFINE n == Len(requestQueue)
<1>1. /\ tpc[t] = "delay"
      /\ requestQueue' = Append(requestQueue, e)
      /\ tpc' = [tpc EXCEPT ![t] = to]
      BY DEF Send
<1>2. /\ requestQueue \in Seq(Requests) /\ n \in Nat /\ DOMAIN requestQueue = 1..n
      /\ tpc = [u \in Threads |-> tpc[u]]
      BY Shapes DEF Inv
<1>3. /\ DOMAIN requestQueue' = 1..(n + 1)
      /\ \A i \in 1..n : requestQueue'[i] = requestQueue[i]
      /\ requestQueue'[n + 1] = e
      BY <1>1, <1>2, EntryAdded
<1>4. /\ tpc'[t] = to /\ \A u \in Threads : u # t => tpc'[u] = tpc[u]
      /\ e.type \in {"QUIT", "RELEASE", "ADDITIONAL"} /\ e.thread = t
      /\ to = "done" => e.type = "QUIT"
      BY <1>1, <1>2 DEF Sends, Requests
<1>5. t \in Live
      BY <1>1, Awake
<1> HIDE DEF n
<1>6. Live' = Live
  <2>1. t \in Live'
    <3>1. CASE to = "done"
      <4>1. e.type = "QUIT"
            BY <3>1, <1>4
      <4>2. n + 1 \in DOMAIN requestQueue'
            BY <1>2, <1>3
      <4> QED BY <4>1, <4>2, <1>3, <1>4 DEF Live
    <3>2. CASE to # "done"
          BY <3>2, <1>4 DEF Live
    <3> QED BY <3>1, <3>2
  <2>2. ASSUME NEW u \in Threads, u # t
        PROVE  u \in Live' <=> u \in Live
    <3>1. (\E i \in DOMAIN requestQueue' : requestQueue'[i].thread = u
                                           /\ requestQueue'[i].type = "QUIT")
          <=> (\E i \in DOMAIN requestQueue : requestQueue[i].thread = u
                                              /\ requestQueue[i].type = "QUIT")
      <4>1. \A i \in DOMAIN requestQueue :
               i \in DOMAIN requestQueue' /\ requestQueue'[i] = requestQueue[i]
            BY <1>2, <1>3
      <4>2. \A i \in DOMAIN requestQueue' :
               requestQueue'[i].thread = u => i \in DOMAIN requestQueue
            BY <2>2, <1>2, <1>3, <1>4
      <4> QED BY <4>1, <4>2
    <3> QED BY <2>2, <3>1, <1>4 DEF Live
  <2> QED BY <2>1, <2>2, <1>5 DEF Live
<1> QED BY <1>6

(* A request that fits the script of its thread joins the queue. *)
LEMMA SendKeeps ==
    ASSUME Inv, NEW t \in Threads, NEW e \in Requests, NEW to,
           Send(t, e, to), Sends(t, e, to), Fits(t, e.resources),
           held' = [held EXCEPT ![t] = Add(@, e.resources)],
           sent' \in [Threads -> 0..MaxRequests]
    PROVE  Inv' /\ Live' = Live
<1> DEFINE n == Len(requestQueue)
<1>1. /\ tpc[t] = "delay" /\ n < MAX_QUEUE_SIZE
      /\ requestQueue' = Append(requestQueue, e)
      /\ tpc' = [tpc EXCEPT ![t] = to]
      /\ UNCHANGED <<available, allocation, need, pendingQueue, tempQueue,
                     activeThreads, mpc>>
      BY DEF Send, tables
<1>2. Waiting' = Waiting
      BY <1>1 DEF Waiting
<1>3. /\ requestQueue \in Seq(Requests) /\ n \in Nat /\ DOMAIN requestQueue = 1..n
      /\ tpc = [u \in Threads |-> tpc[u]]
      /\ held \in [Threads -> Counts]
      /\ \A u \in Threads : allocation[u] \in Counts
      /\ \A i \in DOMAIN requestQueue : requestQueue[i] \in Requests
      /\ \A i \in DOMAIN Waiting : Waiting[i] \in Requests
      BY Shapes DEF Inv
<1>4. /\ requestQueue' \in Seq(Requests) /\ Len(requestQueue') = n + 1
      /\ DOMAIN requestQueue' = 1..(n + 1)
      /\ \A i \in 1..n : requestQueue'[i] = requestQueue[i]
      /\ requestQueue'[n + 1] = e
      BY <1>1, <1>3, EntryAdded
<1>5. /\ tpc'[t] = to /\ \A u \in Threads : u # t => tpc'[u] = tpc[u]
      /\ e.type \in {"QUIT", "RELEASE", "ADDITIONAL"} /\ e.thread = t
      /\ e.type = "RELEASE" => to = "delay"
      /\ e.type = "ADDITIONAL" => to = "sent"
      /\ e.type = "QUIT" => to = "done"
      /\ e.type = "ADDITIONAL" <=> ~IsZero(Wanted(e.resources))
      BY <1>1, <1>3 DEF Sends, Requests
<1>6. /\ held' \in [Threads -> Counts] /\ held'[t] = Add(held[t], e.resources)
      /\ \A u \in Threads : u # t => held'[u] = held[u]
      BY <1>3 DEF Fits
<1>7. /\ t \in Live
      /\ \A i \in DOMAIN requestQueue :
            requestQueue[i].thread = t => requestQueue[i].type = "RELEASE"
      /\ \A i \in DOMAIN Waiting : Waiting[i].thread # t
      BY <1>1, Awake
<1>8. TypeOK'
  <2>1. n + 1 <= MAX_QUEUE_SIZE
        BY <1>1, <1>3, ManagerAssumption, SessionAssumption DEF ManagerAssumption, SessionAssumption
  <2>2. to \in {"delay", "sent", "asleep", "done"}
        BY <1>5
  <2>3. tpc' \in [Threads -> {"delay", "sent", "asleep", "done"}]
        BY <2>2, <1>1 DEF Inv, TypeOK
  <2> QED BY <2>1, <2>3, <1>1, <1>4, <1>6 DEF Inv, TypeOK, Requests
<1> HIDE DEF n
<1>9. Live' = Live
      BY SendKeepsLive
<1>10. OnTheirWay'
  <2>1. \A i \in DOMAIN requestQueue' : i \in DOMAIN requestQueue \/ i = n + 1
        BY <1>3, <1>4
  <2>2. ASSUME NEW i \in DOMAIN requestQueue', NEW j \in DOMAIN requestQueue', i < j,
               requestQueue'[i].thread = requestQueue'[j].thread
        PROVE  requestQueue'[i].type = "RELEASE"
    <3>1. i \in DOMAIN requestQueue /\ requestQueue'[i] = requestQueue[i]
          BY <2>2, <1>3, <1>4
    <3>2. CASE j = n + 1
          BY <3>1, <3>2, <2>2, <1>4, <1>5, <1>7
    <3>3. CASE j \in DOMAIN requestQueue
      <4>1. requestQueue'[j] = requestQueue[j]
            BY <3>3, <1>3, <1>4
      <4> QED BY <3>1, <3>3, <4>1, <2>2 DEF Inv, OnTheirWay
    <3> QED BY <3>2, <3>3, <2>1
  <2>3. ASSUME NEW i \in DOMAIN requestQueue'
        PROVE  /\ requestQueue'[i].thread \in Live'
               /\ requestQueue'[i].type = "QUIT" => tpc'[requestQueue'[i].thread] = "done"
               /\ requestQueue'[i].type = "ADDITIONAL" =>
                     tpc'[requestQueue'[i].thread] \in Blocked
               /\ requestQueue'[i].type = "ADDITIONAL"
                     <=> ~IsZero(Wanted(requestQueue'[i].resources))
    <3>1. CASE i = n + 1
          BY <3>1, <1>4, <1>5, <1>7, <1>9 DEF Blocked
    <3>2. CASE i \in DOMAIN requestQueue
      <4>1. requestQueue'[i] = requestQueue[i] /\ requestQueue[i].thread \in Threads
            BY <3>2, <1>3, <1>4 DEF Requests
      <4> QED BY <3>2, <4>1, <1>5, <1>7, <1>9 DEF Inv, OnTheirWay
    <3> QED BY <3>1, <3>2, <2>1
  <2> QED BY <2>2, <2>3 DEF OnTheirWay
<1>11. Pending'
  <2>1. ASSUME NEW i \in DOMAIN Waiting
        PROVE  /\ tpc'[Waiting[i].thread] \in Blocked
               /\ Waiting[i].resources \in Counts /\ ~IsZero(Waiting[i].resources)
               /\ Leq(Waiting[i].resources, need'[Waiting[i].thread])
               /\ held'[Waiting[i].thread]
                     = Add(allocation'[Waiting[i].thread], Waiting[i].resources)
               /\ \A j \in DOMAIN requestQueue' :
                     requestQueue'[j].thread # Waiting[i].thread
    <3>1. Waiting[i].thread \in Threads /\ Waiting[i].thread # t
          BY <1>3, <1>7 DEF Requests
    <3>2. \A j \in DOMAIN requestQueue : requestQueue[j].thread # Waiting[i].thread
          BY DEF Inv, Pending
    <3>3. \A j \in DOMAIN requestQueue' : requestQueue'[j].thread # Waiting[i].thread
          BY <3>1, <3>2, <1>3, <1>4, <1>5
    <3> QED BY <3>1, <3>3, <1>1, <1>5, <1>6 DEF Inv, Pending
  <2> QED BY <2>1, <1>2 DEF Inv, Pending
<1>12. Rounds'
       BY <1>1, <1>9 DEF Inv, Rounds
<1>13. Books'
  <2>1. ASSUME NEW u \in Live PROVE Leq(held'[u], maxNeed[u])
        BY <2>1, <1>6 DEF Fits, Inv, Books, Live
  <2> QED BY <2>1, <1>1, <1>9 DEF Inv, Books
<1>14. Scripts'
  <2>1. ASSUME NEW u \in Live
        PROVE  \E c \in [0..Len(requestQueue') -> Counts] :
                  /\ Runs(c, requestQueue', u, allocation[u])
                  /\ (\A i \in DOMAIN Waiting : Waiting[i].thread # u) =>
                        held'[u] = c[Len(requestQueue')]
    <3>1. u \in Threads
          BY DEF Live
    <3>2. PICK b \in [0..n -> Counts] :
                  /\ Runs(b, requestQueue, u, allocation[u])
                  /\ (\A i \in DOMAIN Waiting : Waiting[i].thread # u) => held[u] = b[n]
          BY DEF Inv, Scripts, n
    <3>3. e.thread = u => /\ held[u] = b[n]
                          /\ Leq(Returned(e.resources), b[n])
                          /\ Leq(Wanted(e.resources), Sub(maxNeed[u], b[n]))
                          /\ Add(b[n], e.resources) \in Counts
          BY <3>2, <1>5, <1>7 DEF Fits
    <3>4. RunsTo(requestQueue', u, allocation[u],
                 IF e.thread = u THEN Add(b[n], e.resources) ELSE b[n])
      <4>1. /\ requestQueue \in Seq(Requests) /\ Runs(b, requestQueue, u, allocation[u])
            /\ e.thread = u => /\ Leq(Returned(e.resources), b[Len(requestQueue)])
                               /\ Leq(Wanted(e.resources),
                                      Sub(maxNeed[u], b[Len(requestQueue)]))
                               /\ Add(b[Len(requestQueue)], e.resources) \in Counts
            BY <3>2, <3>3, <1>3 DEF n
      <4>2. RunsTo(Append(requestQueue, e), u, allocation[u],
                   IF e.thread = u THEN Add(b[Len(requestQueue)], e.resources)
                   ELSE b[Len(requestQueue)])
            BY <4>1, RunsAppended
      <4> QED BY <4>2, <1>1 DEF n
    <3>5. PICK c \in [0..Len(requestQueue') -> Counts] :
              /\ Runs(c, requestQueue', u, allocation[u])
              /\ c[Len(requestQueue')]
                    = IF e.thread = u THEN Add(b[n], e.resources) ELSE b[n]
          BY <3>4 DEF RunsTo
    <3> QED BY <3>1, <3>2, <3>3, <3>5, <1>5, <1>6
  <2> QED BY <2>1, <1>1, <1>2, <1>9 DEF Scripts
<1> QED BY <1>8, <1>9, <1>10, <1>11, <1>12, <1>13, <1>14 DEF Inv

(* A thread sends what its script says. *)
LEMMA SendRKeeps ==
    ASSUME Inv, NEW t \in Threads, NEW q \in ScriptRequests(held[t], maxNeed[t]), SendR(t, q)
    PROVE  Inv' /\ Live' = Live
<1>1. /\ held \in [Threads -> Counts] /\ held[t] \in Counts /\ maxNeed[t] \in Counts
      /\ sent \in [Threads -> 0..MaxRequests]
      BY Shapes DEF Inv, TypeOK
<1>2. t \in Live /\ Leq(held[t], maxNeed[t])
  <2>1. tpc[t] = "delay"
        BY DEF SendR, Send
  <2> QED BY <2>1, Awake DEF Inv, Books
<1>3. Fits(t, q) /\ q \in [Resources -> -Cap..Cap]
      BY <1>1, <1>2, ScriptStays DEF Fits
<1>4. sent' \in [Threads -> 0..MaxRequests]
      BY <1>1, ManagerAssumption, SessionAssumption DEF SendR, ManagerAssumption, SessionAssumption
<1> DEFINE e(type) == [type |-> type, thread |-> t, resources |-> q]
<1>5. /\ \A type \in {"RELEASE", "ADDITIONAL"} :
            /\ e(type) \in Requests /\ e(type).thread = t /\ e(type).resources = q
            /\ e(type).type = type
      BY <1>3 DEF Requests
<1>6. CASE IsZero(Wanted(q))
  <2>1. Send(t, e("RELEASE"), "delay") /\ held' = [held EXCEPT ![t] = Add(@, q)]
        BY <1>6 DEF SendR
  <2> HIDE DEF e
  <2>2. Sends(t, e("RELEASE"), "delay")
        BY <1>5, <1>6 DEF Sends
  <2> QED BY <2>1, <2>2, <1>3, <1>4, <1>5, SendKeeps
<1>7. CASE ~IsZero(Wanted(q))
  <2>1. Send(t, e("ADDITIONAL"), "sent") /\ held' = [held EXCEPT ![t] = Add(@, q)]
        BY <1>7 DEF SendR
  <2> HIDE DEF e
  <2>2. Sends(t, e("ADDITIONAL"), "sent")
        BY <1>5, <1>7 DEF Sends
  <2> QED BY <2>1, <2>2, <1>3, <1>4, <1>5, SendKeeps
<1> QED BY <1>6, <1>7

(* Asking for nothing changes nothing. *)
LEMMA NothingAsked ==
    ASSUME NEW a \in Counts, NEW m \in Counts, Leq(a, m)
    PROVE  /\ Zero \in [Resources -> -Cap..Cap] /\ IsZero(Wanted(Zero))
           /\ Leq(Returned(Zero), a) /\ Leq(Wanted(Zero), Sub(m, a)) /\ Add(a, Zero) = a
<1> USE CountsAreVectors, ClaimsAssumption DEF ClaimsAssumption
<1>1. \A r \in Resources : a[r] \in 0..Cap /\ m[r] \in 0..Cap /\ a[r] <= m[r]
  <2>1. \A r \in Resources : a[r] <= m[r]
        BY VectorOps
  <2> QED BY <2>1 DEF Counts
<1>2. /\ Zero \in [Resources -> -Cap..Cap] /\ Wanted(Zero) = Zero /\ Returned(Zero) = Zero
      /\ \A r \in Resources : Zero[r] = 0
      BY DEF Zero, Wanted, Returned
<1>3. IsZero(Zero)
      BY DEF IsZero, Zero
<1>4. /\ Add(a, Zero) \in Vector /\ Sub(m, a) \in Vector
      /\ \A r \in Resources : Add(a, Zero)[r] = a[r] + Zero[r] /\ Sub(m, a)[r] = m[r] - a[r]
      BY VectorOps
<1>5. Leq(Zero, a) /\ Leq(Zero, Sub(m, a))
  <2>1. \A r \in Resources : Zero[r] <= a[r] /\ Zero[r] <= Sub(m, a)[r]
        BY <1>1, <1>2, <1>4
  <2> QED BY <2>1, <1>4, VectorOps
<1>6. Add(a, Zero) = a
  <2>1. \A r \in Resources : Add(a, Zero)[r] = a[r]
        BY <1>1, <1>2, <1>4
  <2> QED BY <2>1, <1>4, VectorEq
<1> QED BY <1>2, <1>3, <1>5, <1>6

(* A thread sends its QUIT, the last of its requests. *)
LEMMA SendQKeeps ==
    ASSUME Inv, NEW t \in Threads, SendQ(t)
    PROVE  Inv' /\ Live' = Live
<1> DEFINE e == [type |-> "QUIT", thread |-> t, resources |-> Zero]
<1>1. /\ Send(t, e, "done") /\ UNCHANGED <<held, sent>>
      BY DEF SendQ, script
<1>2. /\ held \in [Threads -> Counts] /\ held[t] \in Counts /\ maxNeed[t] \in Counts
      /\ sent' \in [Threads -> 0..MaxRequests]
      BY <1>1, Shapes DEF Inv, TypeOK
<1>3. t \in Live /\ Leq(held[t], maxNeed[t])
  <2>1. tpc[t] = "delay"
        BY <1>1 DEF Send
  <2> QED BY <2>1, Awake DEF Inv, Books
<1>4. /\ Zero \in [Resources -> -Cap..Cap] /\ IsZero(Wanted(Zero))
      /\ Leq(Returned(Zero), held[t]) /\ Leq(Wanted(Zero), Sub(maxNeed[t], held[t]))
      /\ Add(held[t], Zero) = held[t]
      BY <1>2, <1>3, NothingAsked
<1>5. /\ e \in Requests /\ e.resources = Zero /\ e.thread = t /\ e.type = "QUIT"
      BY <1>4 DEF Requests
<1> HIDE DEF e
<1>6. Sends(t, e, "done") /\ Fits(t, e.resources)
      BY <1>2, <1>3, <1>4, <1>5 DEF Sends, Fits
<1>7. held' = [held EXCEPT ![t] = Add(@, e.resources)]
      BY <1>1, <1>2, <1>4, <1>5
<1> QED BY <1>1, <1>2, <1>5, <1>6, <1>7, SendKeeps

(* A full queue ends the process. *)
LEMMA OverflowKeeps ==
    ASSUME Inv, NEW t \in Threads, Overflow(t)
    PROVE  Inv'
<1> USE DEF Overflow, tables, script, Inv
<1>1. TypeOK'
      BY DEF TypeOK
<1>2. Live' = Live /\ Waiting' = Waiting
      BY DEF Live, Waiting
<1>3. OnTheirWay' /\ Pending' /\ Rounds'
      BY <1>2 DEF OnTheirWay, Pending, Rounds
<1>4. Books' /\ Scripts'
      BY <1>2 DEF Books, Scripts
<1> QED BY <1>1, <1>3, <1>4

(* A thread goes to sleep. *)
LEMMA SleepKeeps ==
    ASSUME Inv, NEW t \in Threads, Sleep(t)
    PROVE  Inv'
<1> USE DEF Sleep, tables, script, Inv
<1>1. /\ tpc[t] = "sent" /\ tpc'[t] = "asleep" /\ \A u \in Threads : u # t => tpc'[u] = tpc[u]
      /\ \A i \in DOMAIN requestQueue : requestQueue[i].thread \in Threads
      /\ \A i \in DOMAIN Waiting : Waiting[i].thread \in Threads
      BY Shapes DEF Requests
<1>2. TypeOK'
      BY DEF TypeOK
<1>3. Live' = Live /\ Waiting' = Waiting
      BY <1>1 DEF Live, Waiting
<1>4. OnTheirWay' /\ Pending' /\ Rounds'
      BY <1>1, <1>3 DEF OnTheirWay, Pending, Rounds, Blocked
<1>5. Books' /\ Scripts'
      BY <1>3 DEF Books, Scripts
<1> QED BY <1>2, <1>4, <1>5

(* The request that the master takes comes from a live thread that waits   *)
(* for nothing else; if it is not a release, nothing follows it.           *)
LEMMA HeadIs ==
    ASSUME Inv, requestQueue # <<>>
    PROVE  LET e == Head(requestQueue)
           IN  /\ e = requestQueue[1] /\ e \in Requests /\ e.thread \in Live
               /\ e.thread \in Threads /\ e.type \in {"QUIT", "RELEASE", "ADDITIONAL"}
               /\ e.type = "QUIT" => tpc[e.thread] = "done"
               /\ e.type = "ADDITIONAL" => tpc[e.thread] \in Blocked
               /\ e.type = "ADDITIONAL" <=> ~IsZero(Wanted(e.resources))
               /\ \A i \in DOMAIN Waiting : Waiting[i].thread # e.thread
               /\ e.type # "RELEASE" => \A i \in DOMAIN requestQueue :
                                           i # 1 => requestQueue[i].thread # e.thread
<1> DEFINE e == Head(requestQueue)
<1>1. /\ requestQueue \in Seq(Requests) /\ DOMAIN requestQueue = 1..Len(requestQueue)
      /\ \A i \in DOMAIN Waiting : Waiting[i] \in Requests
      BY Shapes DEF Inv
<1>2. e = requestQueue[1] /\ e \in Requests /\ 1 \in DOMAIN requestQueue
      BY <1>1, EntryTaken
<1>3. e.thread \in Threads /\ e.type \in {"QUIT", "RELEASE", "ADDITIONAL"}
      BY <1>2 DEF Requests
<1>4. /\ e.thread \in Live
      /\ e.type = "QUIT" => tpc[e.thread] = "done"
      /\ e.type = "ADDITIONAL" => tpc[e.thread] \in Blocked
      /\ e.type = "ADDITIONAL" <=> ~IsZero(Wanted(e.resources))
      BY <1>2 DEF Inv, OnTheirWay
<1>5. \A i \in DOMAIN Waiting : Waiting[i].thread # e.thread
      BY <1>2 DEF Inv, Pending
<1>6. ASSUME e.type # "RELEASE", NEW i \in DOMAIN requestQueue, i # 1
      PROVE  requestQueue[i].thread # e.thread
  <2>1. 1 < i
        BY <1>1, <1>6
  <2> QED BY <2>1, <1>2, <1>6 DEF Inv, OnTheirWay
<1> QED BY <1>2, <1>3, <1>4, <1>5, <1>6

(* Taking a request leaves the others in order, and only a QUIT changes    *)
(* who is live.                                                            *)
LEMMA HeadTaken ==
    ASSUME Inv, requestQueue # <<>>, requestQueue' = Tail(requestQueue), tpc' = tpc
    PROVE  LET e == Head(requestQueue)
               n == Len(requestQueue)
           IN  /\ n \in Nat /\ n >= 1 /\ DOMAIN requestQueue = 1..n
               /\ requestQueue' \in Seq(Requests) /\ Len(requestQueue') = n - 1
               /\ DOMAIN requestQueue' = 1..(n - 1)
               /\ \A i \in 1..(n - 1) : requestQueue'[i] = requestQueue[i + 1]
               /\ Live' = IF e.type = "QUIT" THEN Live \ {e.thread} ELSE Live
               /\ OnTheirWay'
<1> DEFINE e == Head(requestQueue)
           n == Len(requestQueue)
<1>1. requestQueue \in Seq(Requests)
      BY Shapes DEF Inv
<1>2. /\ n \in Nat /\ n >= 1 /\ DOMAIN requestQueue = 1..n
      /\ requestQueue' \in Seq(Requests) /\ Len(requestQueue') = n - 1
      /\ DOMAIN requestQueue' = 1..(n - 1)
      /\ e = requestQueue[1]
      /\ \A i \in 1..(n - 1) : requestQueue'[i] = requestQueue[i + 1]
      BY <1>1, EntryTaken
<1>3. /\ e.thread \in Live
      /\ e.type = "QUIT" => tpc[e.thread] = "done"
      /\ e.type = "QUIT" => \A i \in DOMAIN requestQueue :
                               i # 1 => requestQueue[i].thread # e.thread
      BY HeadIs
<1> HIDE DEF e, n
<1>4. \A i \in 1..(n - 1) : i + 1 \in 1..n /\ i + 1 # 1
      BY <1>2
<1>5. \A i \in 1..n : i # 1 => i - 1 \in 1..(n - 1) /\ (i - 1) + 1 = i
      BY <1>2
<1>6. ASSUME NEW u \in Threads
      PROVE  u \in Live' <=> u \in Live /\ ~(e.type = "QUIT" /\ e.thread = u)
  <2> DEFINE Quits(i) == requestQueue[i].thread = u /\ requestQueue[i].type = "QUIT"
             R(i) == requestQueue'[i].thread = u /\ requestQueue'[i].type = "QUIT"
  <2>1. \A i \in 1..(n - 1) : R(i) <=> Quits(i + 1)
        BY <1>2
  <2>2. Quits(1) <=> e.type = "QUIT" /\ e.thread = u
        BY <1>2
  <2>3. e.type = "QUIT" /\ e.thread = u => \A i \in 1..n : i # 1 => ~Quits(i)
        BY <1>2, <1>3
  <2>4. u \in Live <=> tpc[u] # "done" \/ \E i \in 1..n : Quits(i)
        BY <1>2 DEF Live
  <2>5. u \in Live' <=> tpc[u] # "done" \/ \E i \in 1..(n - 1) : R(i)
        BY <1>2 DEF Live
  <2>6. e.type = "QUIT" /\ e.thread = u => tpc[u] = "done"
        BY <1>3
  <2> HIDE DEF Quits, R
  <2>7. (\E i \in 1..(n - 1) : R(i)) => \E i \in 1..n : i # 1 /\ Quits(i)
        BY <2>1, <1>4
  <2>8. (\E i \in 1..n : i # 1 /\ Quits(i)) => \E i \in 1..(n - 1) : R(i)
    <3>1. ASSUME NEW i \in 1..n, i # 1, Quits(i) PROVE \E j \in 1..(n - 1) : R(j)
      <4>1. i - 1 \in 1..(n - 1) /\ (i - 1) + 1 = i
            BY <3>1, <1>5
      <4>2. R(i - 1) <=> Quits((i - 1) + 1)
            BY <4>1, <2>1
      <4> QED BY <4>1, <4>2, <3>1
    <3> QED BY <3>1
  <2> QED BY <2>2, <2>3, <2>4, <2>5, <2>6, <2>7, <2>8
<1>7. Live' = IF e.type = "QUIT" THEN Live \ {e.thread} ELSE Live
  <2>1. Live \subseteq Threads /\ Live' \subseteq Threads
        BY DEF Live
  <2> QED BY <2>1, <1>6
<1>8. OnTheirWay'
  <2>1. ASSUME NEW i \in 1..(n - 1), NEW j \in 1..(n - 1), i < j,
               requestQueue'[i].thread = requestQueue'[j].thread
        PROVE  requestQueue'[i].type = "RELEASE"
    <3>1. i + 1 < j + 1 /\ i + 1 \in 1..n /\ j + 1 \in 1..n
          BY <2>1, <1>2
    <3> QED BY <3>1, <2>1, <1>2 DEF Inv, OnTheirWay
  <2>2. ASSUME NEW i \in 1..(n - 1)
        PROVE  /\ requestQueue'[i].thread \in Live'
               /\ requestQueue'[i].type = "QUIT" => tpc'[requestQueue'[i].thread] = "done"
               /\ requestQueue'[i].type = "ADDITIONAL" =>
                     tpc'[requestQueue'[i].thread] \in Blocked
               /\ requestQueue'[i].type = "ADDITIONAL"
                     <=> ~IsZero(Wanted(requestQueue'[i].resources))
    <3> DEFINE f == requestQueue[i + 1]
    <3>1. i + 1 \in 1..n /\ i + 1 # 1 /\ requestQueue'[i] = f
          BY <1>2, <1>4
    <3>2. /\ f.thread \in Live
          /\ f.type = "QUIT" => tpc[f.thread] = "done"
          /\ f.type = "ADDITIONAL" => tpc[f.thread] \in Blocked
          /\ f.type = "ADDITIONAL" <=> ~IsZero(Wanted(f.resources))
          BY <3>1, <1>2 DEF Inv, OnTheirWay
    <3>3. e.type = "QUIT" => f.thread # e.thread
          BY <3>1, <1>2, <1>3
    <3> HIDE DEF f
    <3> QED BY <3>1, <3>2, <3>3, <1>7
  <2> QED BY <2>1, <2>2, <1>2 DEF OnTheirWay
<1> QED BY <1>2, <1>7, <1>8 DEF e, n

(* How many threads are live. *)
LEMMA LiveCounted ==
    /\ IsFiniteSet(Live) /\ Cardinality(Live) \in Nat /\ Cardinality(Threads) \in Nat
    /\ Cardinality(Live) <= Cardinality(Threads)
<1>1. IsFiniteSet(Threads) /\ Live \subseteq Threads
      BY ClaimsAssumption DEF ClaimsAssumption, Live
<1> QED BY <1>1, FS_Subset, SizeInNat

(* A thread that the master takes no request of, or that waits for nothing *)
(* else, is where its script says.                                         *)
LEMMA OtherScript ==
    ASSUME Inv, requestQueue # <<>>, requestQueue' = Tail(requestQueue), NEW u \in Live,
           Head(requestQueue).thread # u, allocation'[u] = allocation[u], held' = held
    PROVE  \E c \in [0..Len(requestQueue') -> Counts] :
              /\ Runs(c, requestQueue', u, allocation'[u])
              /\ (\A i \in DOMAIN Waiting : Waiting[i].thread # u) =>
                    held'[u] = c[Len(requestQueue')]
<1>1. requestQueue \in Seq(Requests) /\ Head(requestQueue) = requestQueue[1]
      BY Shapes, EntryTaken DEF Inv
<1>2. PICK b \in [0..Len(requestQueue) -> Counts] :
              /\ Runs(b, requestQueue, u, allocation[u])
              /\ (\A i \in DOMAIN Waiting : Waiting[i].thread # u) =>
                    held[u] = b[Len(requestQueue)]
      BY DEF Inv, Scripts
<1>3. b[1] = allocation[u]
      BY <1>1, <1>2, RunsFirst
<1>4. RunsTo(requestQueue', u, b[1], b[Len(requestQueue)])
      BY <1>1, <1>2, RunsTaken
<1>5. PICK c \in [0..Len(requestQueue') -> Counts] :
              Runs(c, requestQueue', u, b[1]) /\ c[Len(requestQueue')] = b[Len(requestQueue)]
      BY <1>4 DEF RunsTo
<1> QED BY <1>2, <1>3, <1>5

(* The master books a QUIT: all that the thread held is free again.        *)
LEMMA QuitKeeps ==
    ASSUME Inv, ReceiveQuit
    PROVE  Inv'
<1> DEFINE t == Head(requestQueue).thread
           n == Len(requestQueue)
<1>1. /\ requestQueue # <<>> /\ mpc = "receive"
      /\ Head(requestQueue).type = "QUIT"
      /\ available' = Add(available, allocation[t])
      /\ allocation' = [allocation EXCEPT ![t] = Zero]
      /\ need' = [need EXCEPT ![t] = Zero]
      /\ activeThreads' = activeThreads - 1
      /\ requestQueue' = Tail(requestQueue)
      /\ mpc' \in {"receive", "second", "done"}
      /\ UNCHANGED <<pendingQueue, tempQueue, tpc, held, sent>>
      BY DEF ReceiveQuit, AfterBooking, script
<1>2. /\ t \in Live /\ t \in Threads
      /\ \A i \in DOMAIN Waiting : Waiting[i].thread # t
      BY <1>1, HeadIs
<1>3. /\ n \in Nat /\ n >= 1 /\ DOMAIN requestQueue = 1..n
      /\ requestQueue' \in Seq(Requests) /\ Len(requestQueue') = n - 1
      /\ DOMAIN requestQueue' = 1..(n - 1)
      /\ \A i \in 1..(n - 1) : requestQueue'[i] = requestQueue[i + 1]
      /\ Live' = Live \ {t}
      /\ OnTheirWay'
      BY <1>1, HeadTaken
<1> HIDE DEF t, n
<1>4. /\ allocation \in [Threads -> Counts] /\ need \in [Threads -> Counts]
      /\ \A i \in DOMAIN Waiting : Waiting[i].thread \in Threads
      BY Shapes DEF Inv, Requests
<1>5. /\ allocation'[t] = Zero /\ need'[t] = Zero
      /\ \A u \in Threads : u # t => allocation'[u] = allocation[u] /\ need'[u] = need[u]
      BY <1>1, <1>2, <1>4
<1>6. Tables(available', allocation', need')
      BY <1>1, <1>2, QuitKeepsTables DEF Inv, Books
<1>7. activeThreads' = Cardinality(Live') /\ activeThreads' \in 0..Cardinality(Threads)
  <2>1. /\ IsFiniteSet(Live) /\ Cardinality(Live) \in Nat /\ Cardinality(Threads) \in Nat
        /\ Cardinality(Live) <= Cardinality(Threads)
        BY LiveCounted
  <2>2. IsFiniteSet(Live') /\ Cardinality(Live') = Cardinality(Live) - 1
        BY <2>1, <1>2, <1>3, FS_RemoveElement
  <2>3. Cardinality(Live') \in Nat
        BY <2>2, SizeInNat
  <2> QED BY <2>1, <2>2, <2>3, <1>1 DEF Inv, Rounds
<1>8. TypeOK'
  <2>1. n - 1 <= MAX_QUEUE_SIZE
        BY <1>3, ManagerAssumption, SessionAssumption DEF Inv, TypeOK, ManagerAssumption, SessionAssumption, n
  <2> QED BY <2>1, <1>1, <1>3, <1>6, <1>7 DEF Inv, TypeOK, Requests, Tables
<1>9. Waiting' = Waiting
      BY <1>1 DEF Waiting
<1>10. Pending'
  <2>1. ASSUME NEW i \in DOMAIN Waiting
        PROVE  \A j \in DOMAIN requestQueue' :
                  requestQueue'[j].thread # Waiting[i].thread
    <3>1. \A j \in 1..n : requestQueue[j].thread # Waiting[i].thread
          BY <1>3 DEF Inv, Pending
    <3>2. \A j \in 1..(n - 1) : j + 1 \in 1..n
          BY <1>3
    <3> QED BY <3>1, <3>2, <1>3
  <2> QED BY <2>1, <1>1, <1>2, <1>4, <1>5, <1>9 DEF Inv, Pending
<1>11. Rounds'
       BY <1>1, <1>7 DEF Inv, Rounds
<1>12. Books'
  <2>1. \A u \in Live' : Claimed(u, allocation', need') /\ Leq(held'[u], maxNeed[u])
        BY <1>1, <1>3, <1>5 DEF Inv, Books, Live, Claimed
  <2>2. \A u \in Threads \ Live' : allocation'[u] = Zero /\ need'[u] = Zero
        BY <1>3, <1>5 DEF Inv, Books
  <2> QED BY <2>1, <2>2, <1>6 DEF Books
<1>13. Scripts'
  <2>1. ASSUME NEW u \in Live'
        PROVE  \E c \in [0..Len(requestQueue') -> Counts] :
                  /\ Runs(c, requestQueue', u, allocation'[u])
                  /\ (\A i \in DOMAIN Waiting' : Waiting'[i].thread # u) =>
                        held'[u] = c[Len(requestQueue')]
    <3>1. u \in Live /\ u # t /\ u \in Threads
          BY <1>3 DEF Live
    <3> QED BY <3>1, <1>1, <1>5, <1>9, OtherScript DEF t
  <2> QED BY <2>1 DEF Scripts
<1> QED BY <1>3, <1>8, <1>10, <1>11, <1>12, <1>13 DEF Inv

(* What booking a request does to the tables, and what it leaves to grant. *)
LEMMA HeadBooked ==
    ASSUME Inv, requestQueue # <<>>, Head(requestQueue).type # "QUIT",
           Book(Head(requestQueue).thread, Head(requestQueue).resources)
    PROVE  LET t == Head(requestQueue).thread
               q == Head(requestQueue).resources
           IN  /\ Tables(available', allocation', need')
               /\ Claimed(t, allocation', need')
               /\ allocation'[t] = Sub(allocation[t], Returned(q))
               /\ \A u \in Threads : u # t => /\ allocation'[u] = allocation[u]
                                              /\ need'[u] = need[u]
               /\ q \in [Resources -> -Cap..Cap]
               /\ Returned(q) \in Counts /\ Wanted(q) \in Counts
               /\ Leq(Returned(q), allocation[t]) /\ Leq(Wanted(q), need[t])
               /\ Leq(Wanted(q), need'[t])
               /\ Add(allocation[t], q) = Add(allocation'[t], Wanted(q))
               /\ IsZero(Wanted(q)) => Add(allocation[t], q) = allocation'[t]
<1> DEFINE e == Head(requestQueue)
           t == e.thread
           q == e.resources
<1>1. /\ e = requestQueue[1] /\ e \in Requests /\ t \in Live /\ t \in Threads
      BY HeadIs
<1>2. q \in [Resources -> -Cap..Cap]
      BY <1>1 DEF Requests
<1>3. /\ requestQueue \in Seq(Requests)
      /\ allocation \in [Threads -> Counts] /\ need \in [Threads -> Counts]
      /\ allocation[t] \in Counts /\ need[t] \in Counts /\ maxNeed[t] \in Counts
      BY <1>1, Shapes DEF Inv
<1>4. Claimed(t, allocation, need)
      BY <1>1 DEF Inv, Books
<1>5. /\ Leq(Returned(q), allocation[t])
      /\ Leq(Wanted(q), need[t])
  <2>1. PICK b \in [0..Len(requestQueue) -> Counts] : Runs(b, requestQueue, t, allocation[t])
        BY <1>1 DEF Inv, Scripts
  <2>2. /\ Leq(Returned(q), allocation[t])
        /\ Leq(Wanted(q), Sub(maxNeed[t], allocation[t]))
        BY <2>1, <1>1, <1>3, RunsFirst
  <2>3. Sub(maxNeed[t], allocation[t]) = need[t]
        BY <1>3, <1>4, ClaimLeft DEF Claimed
  <2> QED BY <2>2, <2>3
<1>6. Returned(q) \in Counts /\ Wanted(q) \in Counts
      BY <1>2, RequestHalves
<1>7. /\ available' = Add(available, Returned(q))
      /\ allocation' = [allocation EXCEPT ![t] = Sub(@, Returned(q))]
      /\ need' = [need EXCEPT ![t] = Add(@, Returned(q))]
      BY DEF Book
<1> HIDE DEF e, t, q
<1>8. /\ allocation'[t] = Sub(allocation[t], Returned(q))
      /\ need'[t] = Add(need[t], Returned(q))
      /\ \A u \in Threads : u # t => allocation'[u] = allocation[u] /\ need'[u] = need[u]
      BY <1>1, <1>3, <1>7
<1>9. Tables(available', allocation', need') /\ Claimed(t, allocation', need')
  <2>1. Tables(available, allocation, need)
        BY DEF Inv, Books
  <2> QED BY <2>1, <1>1, <1>4, <1>5, <1>6, <1>7, BookKeepsTables
<1>10. /\ Leq(Wanted(q), Add(need[t], Returned(q)))
       /\ Add(allocation[t], q) = Add(Sub(allocation[t], Returned(q)), Wanted(q))
       /\ IsZero(Wanted(q)) => Add(allocation[t], q) = Sub(allocation[t], Returned(q))
       BY <1>2, <1>3, <1>5, BookedRequest
<1> QED BY <1>2, <1>5, <1>6, <1>8, <1>9, <1>10 DEF e, t, q

(* The master books a release. *)
LEMMA ReleaseKeeps ==
    ASSUME Inv, ReceiveRelease
    PROVE  Inv'
<1> DEFINE t == Head(requestQueue).thread
           q == Head(requestQueue).resources
           n == Len(requestQueue)
<1>1. /\ requestQueue # <<>> /\ mpc = "receive"
      /\ Head(requestQueue).type = "RELEASE"
      /\ Book(t, q)
      /\ requestQueue' = Tail(requestQueue)
      /\ mpc' \in {"receive", "second", "done"}
      /\ UNCHANGED <<pendingQueue, tempQueue, activeThreads, tpc, held, sent>>
      BY DEF ReceiveRelease, AfterBooking, script
<1>2. /\ t \in Live /\ t \in Threads /\ IsZero(Wanted(q))
      /\ Head(requestQueue) = requestQueue[1]
      /\ \A i \in DOMAIN Waiting : Waiting[i].thread # t
      BY <1>1, HeadIs
<1>3. /\ n \in Nat /\ n >= 1 /\ DOMAIN requestQueue = 1..n
      /\ requestQueue' \in Seq(Requests) /\ Len(requestQueue') = n - 1
      /\ DOMAIN requestQueue' = 1..(n - 1)
      /\ \A i \in 1..(n - 1) : requestQueue'[i] = requestQueue[i + 1]
      /\ Live' = Live
      /\ OnTheirWay'
      BY <1>1, HeadTaken
<1>4. /\ Tables(available', allocation', need') /\ Claimed(t, allocation', need')
      /\ \A u \in Threads : u # t => allocation'[u] = allocation[u] /\ need'[u] = need[u]
      /\ Add(allocation[t], q) = allocation'[t]
      BY <1>1, <1>2, HeadBooked
<1>5. /\ \A i \in DOMAIN Waiting : Waiting[i].thread \in Threads
      /\ requestQueue \in Seq(Requests)
      BY Shapes DEF Inv, Requests
<1>6. TypeOK'
  <2>1. n - 1 <= MAX_QUEUE_SIZE
        BY <1>3, ManagerAssumption, SessionAssumption DEF Inv, TypeOK, ManagerAssumption, SessionAssumption
  <2> HIDE DEF t, q, n
  <2> QED BY <2>1, <1>1, <1>3, <1>4 DEF Inv, TypeOK, Requests, Tables
<1>7. Waiting' = Waiting
      BY <1>1 DEF Waiting
<1>8. Pending'
  <2>1. ASSUME NEW i \in DOMAIN Waiting
        PROVE  \A j \in DOMAIN requestQueue' :
                  requestQueue'[j].thread # Waiting[i].thread
    <3>1. \A j \in 1..n : requestQueue[j].thread # Waiting[i].thread
          BY <1>3 DEF Inv, Pending
    <3>2. \A j \in 1..(n - 1) : j + 1 \in 1..n
          BY <1>3
    <3> QED BY <3>1, <3>2, <1>3
  <2> HIDE DEF t, q, n
  <2> QED BY <2>1, <1>1, <1>2, <1>4, <1>5, <1>7 DEF Inv, Pending
<1>9. Rounds'
      BY <1>1, <1>3 DEF Inv, Rounds
<1>10. Books'
  <2> HIDE DEF t, q, n
  <2>1. \A u \in Live' : Claimed(u, allocation', need') /\ Leq(held'[u], maxNeed[u])
        BY <1>1, <1>3, <1>4 DEF Inv, Books, Live, Claimed
  <2>2. \A u \in Threads \ Live' : allocation'[u] = Zero /\ need'[u] = Zero
        BY <1>2, <1>3, <1>4 DEF Inv, Books
  <2> QED BY <2>1, <2>2, <1>4 DEF Books
<1>11. Scripts'
  <2>1. ASSUME NEW u \in Live'
        PROVE  \E c \in [0..Len(requestQueue') -> Counts] :
                  /\ Runs(c, requestQueue', u, allocation'[u])
                  /\ (\A i \in DOMAIN Waiting' : Waiting'[i].thread # u) =>
                        held'[u] = c[Len(requestQueue')]
    <3>1. u \in Live /\ u \in Threads
          BY <1>3 DEF Live
    <3>2. CASE u # t
          BY <3>1, <3>2, <1>1, <1>4, <1>7, OtherScript
    <3>3. CASE u = t
      <4>1. PICK b \in [0..n -> Counts] :
                    /\ Runs(b, requestQueue, u, allocation[u])
                    /\ (\A i \in DOMAIN Waiting : Waiting[i].thread # u) => held[u] = b[n]
            BY <3>1 DEF Inv, Scripts
      <4>2. b[1] = allocation'[u] /\ held[u] = b[n]
        <5>1. b[1] = Add(allocation[u], q)
              BY <4>1, <3>3, <1>1, <1>2, <1>5, RunsFirst
        <5> QED BY <5>1, <4>1, <3>3, <1>2, <1>4
      <4>3. RunsTo(requestQueue', u, b[1], b[n])
            BY <4>1, <1>1, <1>5, RunsTaken
      <4>4. PICK c \in [0..Len(requestQueue') -> Counts] :
                    Runs(c, requestQueue', u, b[1]) /\ c[Len(requestQueue')] = b[n]
            BY <4>3 DEF RunsTo
      <4> QED BY <4>2, <4>4, <1>1
    <3> QED BY <3>2, <3>3
  <2> QED BY <2>1 DEF Scripts
<1> QED BY <1>3, <1>6, <1>8, <1>9, <1>10, <1>11 DEF Inv

(* What the master keeps of a request is a request again, ... *)
LEMMA AskedFits ==
    ASSUME NEW e \in Requests, Wanted(e.resources) \in Counts
    PROVE  LET w == [e EXCEPT !.resources = Wanted(@)]
           IN  w \in Requests /\ w.thread = e.thread /\ w.resources = Wanted(e.resources)
<1> DEFINE w == [e EXCEPT !.resources = Wanted(@)]
<1>1. Wanted(e.resources) \in [Resources -> -Cap..Cap]
  <2>1. 0..Cap \subseteq -Cap..Cap
        BY ClaimsAssumption DEF ClaimsAssumption
  <2> QED BY <2>1 DEF Counts
<1>2. w = [type |-> e.type, thread |-> e.thread, resources |-> Wanted(e.resources)]
      BY DEF Requests
<1> HIDE DEF w
<1>3. e.type \in {"QUIT", "RELEASE", "ADDITIONAL"} /\ e.thread \in Threads
      BY DEF Requests
<1>4. w \in Requests /\ w.thread = e.thread /\ w.resources = Wanted(e.resources)
      BY <1>1, <1>2, <1>3 DEF Requests
<1> QED BY <1>4 DEF w

(* ... and is the last one waiting.                                        *)
LEMMA WaitingAdded ==
    ASSUME TypeOK, tempQueue = <<>>, NEW w \in Requests,
           pendingQueue' = Append(pendingQueue, w), tempQueue' = tempQueue
    PROVE  Waiting' = Append(Waiting, w) /\ Waiting' = pendingQueue'
<1>1. pendingQueue \in Seq(Requests)
      BY Shapes
<1>2. Waiting = pendingQueue
      BY <1>1, ConcatEmptySeq DEF Waiting
<1>3. pendingQueue' \in Seq(Requests)
      BY <1>1, EntryAdded
<1>4. Waiting' = pendingQueue'
      BY <1>3, ConcatEmptySeq DEF Waiting
<1> QED BY <1>2, <1>4

(* The master books a request and keeps what it asks for. *)
LEMMA AdditionalKeeps ==
    ASSUME Inv, ReceiveAdditional
    PROVE  Inv'
<1> DEFINE e == Head(requestQueue)
           t == e.thread
           q == e.resources
           n == Len(requestQueue)
           w == [e EXCEPT !.resources = Wanted(@)]
           m == Len(Waiting)
<1>1. /\ requestQueue # <<>> /\ mpc = "receive"
      /\ e.type = "ADDITIONAL"
      /\ Book(t, q)
      /\ requestQueue' = Tail(requestQueue)
      /\ pendingQueue' = Append(pendingQueue, w)
      /\ mpc' = "first"
      /\ UNCHANGED <<tempQueue, activeThreads, tpc, held, sent>>
      BY DEF ReceiveAdditional, script
<1>2. /\ t \in Live /\ t \in Threads /\ ~IsZero(Wanted(q)) /\ tpc[t] \in Blocked
      /\ e = requestQueue[1] /\ e \in Requests
      /\ \A i \in DOMAIN Waiting : Waiting[i].thread # t
      /\ \A i \in DOMAIN requestQueue : i # 1 => requestQueue[i].thread # t
      BY <1>1, HeadIs
<1>3. /\ n \in Nat /\ n >= 1 /\ DOMAIN requestQueue = 1..n
      /\ requestQueue' \in Seq(Requests) /\ Len(requestQueue') = n - 1
      /\ DOMAIN requestQueue' = 1..(n - 1)
      /\ \A i \in 1..(n - 1) : requestQueue'[i] = requestQueue[i + 1]
      /\ Live' = Live
      /\ OnTheirWay'
      BY <1>1, HeadTaken
<1>4. /\ Tables(available', allocation', need') /\ Claimed(t, allocation', need')
      /\ \A u \in Threads : u # t => allocation'[u] = allocation[u] /\ need'[u] = need[u]
      /\ Wanted(q) \in Counts /\ Leq(Wanted(q), need'[t])
      /\ Add(allocation[t], q) = Add(allocation'[t], Wanted(q))
      BY <1>1, HeadBooked
<1>5. /\ \A i \in DOMAIN Waiting : Waiting[i].thread \in Threads
      /\ requestQueue \in Seq(Requests) /\ Waiting \in Seq(Requests)
      /\ pendingQueue \in Seq(Requests) /\ tempQueue \in Seq(Requests)
      BY Shapes DEF Inv, Requests
<1>6. w \in Requests /\ w.thread = t /\ w.resources = Wanted(q)
      BY <1>2, <1>4, AskedFits
<1> HIDE DEF w
<1>7. tempQueue = <<>>
      BY <1>1 DEF Inv, Rounds
<1>8. Waiting' = Append(Waiting, w) /\ Waiting' = pendingQueue'
      BY <1>1, <1>6, <1>7, WaitingAdded DEF Inv
<1>9. /\ m \in Nat /\ DOMAIN Waiting = 1..m
      /\ Waiting' \in Seq(Requests) /\ DOMAIN Waiting' = 1..(m + 1)
      /\ Len(Waiting') = m + 1
      /\ \A i \in 1..m : Waiting'[i] = Waiting[i]
      /\ Waiting'[m + 1] = w
  <2> HIDE DEF e, t, q, n
  <2>1. w \in Requests /\ Waiting \in Seq(Requests)
        BY <1>5, <1>6
  <2>2. /\ m \in Nat /\ DOMAIN Waiting = 1..m
        /\ Append(Waiting, w) \in Seq(Requests) /\ DOMAIN Append(Waiting, w) = 1..(m + 1)
        /\ Len(Append(Waiting, w)) = m + 1
        /\ \A i \in 1..m : Append(Waiting, w)[i] = Waiting[i]
        /\ Append(Waiting, w)[m + 1] = w
        BY <2>1, EntryAdded
  <2> QED BY <2>2, <1>8
<1>10. held[t] = Add(allocation'[t], Wanted(q))
  <2>1. PICK b \in [0..n -> Counts] :
                    /\ Runs(b, requestQueue, t, allocation[t])
                    /\ (\A i \in DOMAIN Waiting : Waiting[i].thread # t) => held[t] = b[n]
        BY <1>2 DEF Inv, Scripts
  <2>2. b[1] = Add(allocation[t], q)
        BY <2>1, <1>1, <1>2, <1>5, RunsFirst
  <2>3. RunsTo(requestQueue', t, b[1], b[n])
        BY <2>1, <1>1, <1>5, RunsTaken
  <2>4. PICK c \in [0..Len(requestQueue') -> Counts] :
                Runs(c, requestQueue', t, b[1]) /\ c[Len(requestQueue')] = b[n]
        BY <2>3 DEF RunsTo
  <2>5. \A i \in DOMAIN requestQueue' : requestQueue'[i].thread # t
    <3>1. \A i \in 1..(n - 1) : i + 1 \in 1..n /\ i + 1 # 1
          BY <1>3
    <3> HIDE DEF e, t, q, n
    <3> QED BY <3>1, <1>2, <1>3
  <2>6. c[Len(requestQueue')] = b[1]
        BY <2>4, <2>5, <1>3, RunsNone
  <2> QED BY <2>1, <2>2, <2>4, <2>6, <1>2, <1>4
<1> HIDE DEF e, t, q, n, m
<1>11. Pending'
  <2>1. \A i \in 1..(m + 1) : i \in 1..m \/ i = m + 1
        BY <1>9
  <2>2. ASSUME NEW i \in 1..(m + 1), NEW j \in 1..(m + 1),
               Waiting'[i].thread = Waiting'[j].thread
        PROVE  i = j
    <3>1. CASE i \in 1..m /\ j \in 1..m
          BY <3>1, <2>2, <1>9 DEF Inv, Pending
    <3>2. CASE i = m + 1 \/ j = m + 1
          BY <3>2, <2>1, <2>2, <1>2, <1>6, <1>9
    <3> QED BY <3>1, <3>2, <2>1
  <2>3. \A j \in 1..(n - 1) : j + 1 \in 1..n /\ j + 1 # 1
        BY <1>3
  <2>4. ASSUME NEW i \in 1..(m + 1)
        PROVE  LET f == Waiting'[i]
               IN  /\ tpc'[f.thread] \in Blocked
                   /\ f.resources \in Counts /\ ~IsZero(f.resources)
                   /\ Leq(f.resources, need'[f.thread])
                   /\ held'[f.thread] = Add(allocation'[f.thread], f.resources)
                   /\ \A j \in DOMAIN requestQueue' : requestQueue'[j].thread # f.thread
    <3>1. CASE i = m + 1
      <4>1. \A j \in DOMAIN requestQueue' : requestQueue'[j].thread # t
            BY <2>3, <1>2, <1>3
      <4> QED BY <3>1, <4>1, <1>1, <1>2, <1>4, <1>6, <1>9, <1>10
    <3>2. CASE i \in 1..m
      <4> DEFINE f == Waiting[i]
      <4>1. Waiting'[i] = f /\ f.thread \in Threads /\ f.thread # t
            BY <3>2, <1>2, <1>5, <1>9
      <4>2. /\ tpc[f.thread] \in Blocked
            /\ f.resources \in Counts /\ ~IsZero(f.resources)
            /\ Leq(f.resources, need[f.thread])
            /\ held[f.thread] = Add(allocation[f.thread], f.resources)
            /\ \A j \in DOMAIN requestQueue : requestQueue[j].thread # f.thread
            BY <3>2, <1>9 DEF Inv, Pending
      <4> HIDE DEF f
      <4>3. \A j \in DOMAIN requestQueue' : requestQueue'[j].thread # f.thread
            BY <4>2, <2>3, <1>3
      <4> QED BY <4>1, <4>2, <4>3, <1>1, <1>4
    <3> QED BY <3>1, <3>2, <2>1
  <2> QED BY <2>2, <2>4, <1>9 DEF Pending
<1>12. TypeOK'
  <2>1. n - 1 <= MAX_QUEUE_SIZE
        BY <1>3, ManagerAssumption, SessionAssumption DEF Inv, TypeOK, ManagerAssumption, SessionAssumption, n
  <2>2. m + 1 <= Cardinality(Threads)
        BY <1>9, <1>11, PendingFits DEF Pending
  <2>3. /\ pendingQueue' \in Seq(Requests) /\ tempQueue' = <<>>
        /\ Len(pendingQueue') = m + 1
        BY <1>1, <1>7, <1>8, <1>9
  <2>4. Len(pendingQueue') + Len(tempQueue') <= MAX_QUEUE_SIZE
    <3>1. Len(tempQueue') = 0
          BY <2>3
    <3>2. Cardinality(Threads) \in Nat
          BY LiveCounted
    <3> QED BY <3>1, <3>2, <2>2, <2>3, <1>9, ManagerAssumption, SessionAssumption DEF ManagerAssumption, SessionAssumption
  <2> QED BY <2>1, <2>3, <2>4, <1>1, <1>3, <1>4, <1>5 DEF Inv, TypeOK, Requests, Tables
<1>13. Rounds'
      BY <1>1, <1>3 DEF Inv, Rounds
<1>14. Books'
  <2>1. \A u \in Live' : Claimed(u, allocation', need') /\ Leq(held'[u], maxNeed[u])
        BY <1>1, <1>3, <1>4 DEF Inv, Books, Live, Claimed
  <2>2. \A u \in Threads \ Live' : allocation'[u] = Zero /\ need'[u] = Zero
        BY <1>2, <1>3, <1>4 DEF Inv, Books
  <2> QED BY <2>1, <2>2, <1>4 DEF Books
<1>15. Scripts'
  <2>1. ASSUME NEW u \in Live'
        PROVE  \E c \in [0..Len(requestQueue') -> Counts] :
                  /\ Runs(c, requestQueue', u, allocation'[u])
                  /\ (\A i \in DOMAIN Waiting' : Waiting'[i].thread # u) =>
                        held'[u] = c[Len(requestQueue')]
    <3>1. u \in Live /\ u \in Threads
          BY <1>3 DEF Live
    <3>2. CASE u # t
      <4>1. PICK c \in [0..Len(requestQueue') -> Counts] :
              /\ Runs(c, requestQueue', u, allocation'[u])
              /\ (\A i \in DOMAIN Waiting : Waiting[i].thread # u) =>
                    held'[u] = c[Len(requestQueue')]
            BY <3>1, <3>2, <1>1, <1>4, OtherScript DEF e, t
      <4>2. \A i \in DOMAIN Waiting : i \in DOMAIN Waiting' /\ Waiting'[i] = Waiting[i]
            BY <1>9
      <4> QED BY <4>1, <4>2
    <3>3. CASE u = t
      <4>1. /\ allocation'[t] \in Counts
            /\ \A i \in DOMAIN requestQueue' : requestQueue'[i].thread # t
        <5>1. \A i \in 1..(n - 1) : i + 1 \in 1..n /\ i + 1 # 1
              BY <1>3
        <5> QED BY <5>1, <1>2, <1>3, <1>4 DEF Tables
      <4>2. RunsTo(requestQueue', t, allocation'[t], allocation'[t])
            BY <4>1, <1>3, RunsIdle
      <4>3. m + 1 \in DOMAIN Waiting' /\ Waiting'[m + 1].thread = t
            BY <1>6, <1>9
      <4> QED BY <3>3, <4>2, <4>3 DEF RunsTo
    <3> QED BY <3>2, <3>3
  <2> QED BY <2>1 DEF Scripts
<1> QED BY <1>3, <1>11, <1>12, <1>13, <1>14, <1>15 DEF Inv

(* The master grants the pending request at hand, and wakes its thread if  *)
(* it sleeps.                                                              *)
LEMMA GrantKeeps ==
    ASSUME Inv, NEW pass \in {"first", "second"}, GrantFirst(pass)
    PROVE  Inv'
<1> DEFINE e == Head(pendingQueue)
           t == e.thread
           q == e.resources
           m == Len(Waiting)
<1>1. /\ mpc = pass /\ pendingQueue # <<>>
      /\ Leq(q, available)
      /\ available' = Sub(available, q)
      /\ allocation' = [allocation EXCEPT ![t] = Add(@, q)]
      /\ need' = [need EXCEPT ![t] = Sub(@, q)]
      /\ tpc' = [tpc EXCEPT ![t] = IF @ = "asleep" THEN "delay" ELSE @]
      /\ pendingQueue' = Tail(pendingQueue)
      /\ UNCHANGED <<requestQueue, tempQueue, activeThreads, mpc, held, sent>>
      BY DEF GrantFirst, CanGrant, script
<1>2. /\ e = Waiting[1] /\ 1 \in DOMAIN Waiting
      /\ DOMAIN Waiting = 1..m /\ m \in Nat
      /\ pendingQueue' \in Seq(Requests)
      /\ Len(pendingQueue') + Len(tempQueue') = m - 1
      /\ DOMAIN Waiting' = 1..(m - 1)
      /\ \A i \in 1..(m - 1) : Waiting'[i] = Waiting[i + 1]
      BY <1>1, WaitingTaken DEF Inv
<1>3. /\ \A i \in 1..m : Waiting[i].thread \in Threads
      /\ tpc = [u \in Threads |-> tpc[u]]
      /\ allocation \in [Threads -> Counts] /\ need \in [Threads -> Counts]
      /\ \A i \in DOMAIN requestQueue : requestQueue[i].thread \in Threads
      /\ requestQueue \in Seq(Requests)
      BY <1>2, Shapes DEF Inv, Requests
<1> HIDE DEF m
<1>4. /\ t \in Threads /\ tpc[t] \in Blocked
      /\ q \in Counts /\ Leq(q, need[t])
      /\ held[t] = Add(allocation[t], q)
      /\ \A j \in DOMAIN requestQueue : requestQueue[j].thread # t
      BY <1>2, <1>3 DEF Inv, Pending
<1>5. \A i \in 1..m : i # 1 => Waiting[i].thread # t
      BY <1>2 DEF Inv, Pending
<1> HIDE DEF e, t, q
<1>6. t \in Live
      BY <1>4 DEF Live, Blocked
<1>7. Tables(available', allocation', need') /\ Claimed(t, allocation', need')
  <2>1. Tables(available, allocation, need) /\ Claimed(t, allocation, need)
        BY <1>6 DEF Inv, Books
  <2> QED BY <2>1, <1>1, <1>4, GrantKeepsTables
<1>8. /\ allocation'[t] = Add(allocation[t], q)
      /\ \A u \in Threads : u # t => allocation'[u] = allocation[u] /\ need'[u] = need[u]
      BY <1>1, <1>3, <1>4
<1>9. /\ tpc'[t] \in {"sent", "delay"} /\ \A u \in Threads : u # t => tpc'[u] = tpc[u]
      /\ tpc' \in [Threads -> {"delay", "sent", "asleep", "done"}]
  <2>1. /\ tpc'[t] \in {"sent", "delay"} /\ \A u \in Threads : u # t => tpc'[u] = tpc[u]
        BY <1>1, <1>3, <1>4 DEF Blocked
  <2> QED BY <2>1, <1>1 DEF Inv, TypeOK
<1>10. TypeOK'
  <2>1. m - 1 <= MAX_QUEUE_SIZE
    <3>1. m <= MAX_QUEUE_SIZE
          BY Shapes DEF Inv, TypeOK, m
    <3> QED BY <3>1, <1>2, ManagerAssumption, SessionAssumption DEF ManagerAssumption, SessionAssumption
  <2> QED BY <2>1, <1>1, <1>2, <1>7, <1>9 DEF Inv, TypeOK, Requests, Tables
<1>11. Live' = Live
      BY <1>1, <1>4, <1>9 DEF Live, Blocked
<1>12. OnTheirWay'
      BY <1>1, <1>3, <1>4, <1>9, <1>11 DEF Inv, OnTheirWay
<1>13. \A i \in 1..(m - 1) : i + 1 \in 1..m /\ i + 1 # 1
      BY <1>2
<1>14. Pending'
  <2>1. ASSUME NEW i \in 1..(m - 1), NEW j \in 1..(m - 1),
               Waiting'[i].thread = Waiting'[j].thread
        PROVE  i = j
    <3>1. /\ i + 1 \in DOMAIN Waiting /\ j + 1 \in DOMAIN Waiting
          /\ Waiting[i + 1].thread = Waiting[j + 1].thread
          BY <2>1, <1>2, <1>13
    <3>2. i + 1 = j + 1
          BY <3>1 DEF Inv, Pending
    <3> QED BY <3>2, <1>2
  <2>2. ASSUME NEW i \in 1..(m - 1)
        PROVE  LET f == Waiting'[i]
               IN  /\ tpc'[f.thread] \in Blocked
                   /\ f.resources \in Counts /\ ~IsZero(f.resources)
                   /\ Leq(f.resources, need'[f.thread])
                   /\ held'[f.thread] = Add(allocation'[f.thread], f.resources)
                   /\ \A j \in DOMAIN requestQueue' : requestQueue'[j].thread # f.thread
    <3> DEFINE f == Waiting[i + 1]
    <3>1. Waiting'[i] = f /\ f.thread \in Threads /\ f.thread # t
          BY <1>2, <1>3, <1>5, <1>13
    <3>2. /\ tpc[f.thread] \in Blocked
          /\ f.resources \in Counts /\ ~IsZero(f.resources)
          /\ Leq(f.resources, need[f.thread])
          /\ held[f.thread] = Add(allocation[f.thread], f.resources)
          /\ \A j \in DOMAIN requestQueue : requestQueue[j].thread # f.thread
          BY <1>2, <1>13 DEF Inv, Pending
    <3> HIDE DEF f
    <3> QED BY <3>1, <3>2, <1>1, <1>8, <1>9
  <2> QED BY <2>1, <2>2, <1>2 DEF Pending
<1>15. Rounds'
      BY <1>1, <1>11 DEF Inv, Rounds
<1>16. Books'
  <2>1. \A u \in Live' : Claimed(u, allocation', need') /\ Leq(held'[u], maxNeed[u])
        BY <1>1, <1>7, <1>8, <1>11 DEF Inv, Books, Live, Claimed
  <2>2. \A u \in Threads \ Live' : allocation'[u] = Zero /\ need'[u] = Zero
        BY <1>6, <1>8, <1>11 DEF Inv, Books
  <2> QED BY <2>1, <2>2, <1>7 DEF Books
<1>17. Scripts'
  <2>1. ASSUME NEW u \in Live'
        PROVE  \E c \in [0..Len(requestQueue') -> Counts] :
                  /\ Runs(c, requestQueue', u, allocation'[u])
                  /\ (\A i \in DOMAIN Waiting' : Waiting'[i].thread # u) =>
                        held'[u] = c[Len(requestQueue')]
    <3>1. u \in Live /\ u \in Threads
          BY <1>11 DEF Live
    <3>2. CASE u # t
      <4>1. PICK c \in [0..Len(requestQueue) -> Counts] :
              /\ Runs(c, requestQueue, u, allocation[u])
              /\ (\A i \in DOMAIN Waiting : Waiting[i].thread # u) =>
                    held[u] = c[Len(requestQueue)]
            BY <3>1 DEF Inv, Scripts
      <4>2. ASSUME \A i \in DOMAIN Waiting' : Waiting'[i].thread # u, NEW i \in DOMAIN Waiting
            PROVE  Waiting[i].thread # u
        <5>1. CASE i = 1
              BY <5>1, <3>2, <1>2 DEF t
        <5>2. CASE i # 1
          <6>1. i - 1 \in 1..(m - 1) /\ (i - 1) + 1 = i
                BY <5>2, <1>2
          <6> QED BY <6>1, <4>2, <1>2
        <5> QED BY <5>1, <5>2
      <4> QED BY <4>1, <4>2, <3>1, <3>2, <1>1, <1>8
    <3>3. CASE u = t
      <4>1. allocation'[t] \in Counts
            BY <1>4, <1>7 DEF Tables
      <4>2. RunsTo(requestQueue, t, allocation'[t], allocation'[t])
            BY <4>1, <1>3, <1>4, RunsIdle
      <4> QED BY <3>3, <4>2, <1>1, <1>4, <1>8 DEF RunsTo
    <3> QED BY <3>2, <3>3
  <2> QED BY <2>1 DEF Scripts
<1> QED BY <1>10, <1>12, <1>14, <1>15, <1>16, <1>17 DEF Inv

(* The master puts the pending request at hand aside. *)
LEMMA DeferKeeps ==
    ASSUME Inv, NEW pass \in {"first", "second"}, DeferFirst(pass)
    PROVE  Inv'
<1> DEFINE m == Len(Waiting)
           old(i) == IF i = m THEN 1 ELSE i + 1
<1>1. /\ mpc = pass /\ pendingQueue # <<>>
      /\ tempQueue' = Append(tempQueue, Head(pendingQueue))
      /\ pendingQueue' = Tail(pendingQueue)
      /\ UNCHANGED <<available, allocation, need, requestQueue, activeThreads, mpc, tpc,
                     held, sent>>
      BY DEF DeferFirst, tables, script
<1>2. /\ 1 \in DOMAIN Waiting
      /\ DOMAIN Waiting = 1..m /\ m \in Nat
      /\ pendingQueue' \in Seq(Requests) /\ tempQueue' \in Seq(Requests)
      /\ Len(pendingQueue') + Len(tempQueue') = m
      /\ DOMAIN Waiting' = 1..m
      /\ \A i \in 1..(m - 1) : Waiting'[i] = Waiting[i + 1]
      /\ Waiting'[m] = Waiting[1]
      BY <1>1, WaitingRotated DEF Inv
<1>3. m <= MAX_QUEUE_SIZE
      BY Shapes DEF Inv, TypeOK
<1> HIDE DEF m
<1>4. \A i \in 1..m : old(i) \in 1..m /\ Waiting'[i] = Waiting[old(i)]
  <2>1. ASSUME NEW i \in 1..m PROVE old(i) \in 1..m /\ Waiting'[i] = Waiting[old(i)]
    <3>1. CASE i = m
          BY <3>1, <1>2
    <3>2. CASE i # m
      <4>1. i \in 1..(m - 1) /\ i + 1 \in 1..m
            BY <3>2, <1>2
      <4> QED BY <4>1, <3>2, <1>2
    <3> QED BY <3>1, <3>2
  <2> QED BY <2>1
<1>5. \A i, j \in 1..m : old(i) = old(j) => i = j
      BY <1>2
<1>6. ASSUME NEW k \in 1..m PROVE \E i \in 1..m : old(i) = k
  <2>1. CASE k = 1
    <3>1. m \in 1..m /\ old(m) = 1
          BY <1>2
    <3> QED BY <3>1, <2>1
  <2>2. CASE k # 1
    <3>1. k - 1 \in 1..m /\ k - 1 # m /\ (k - 1) + 1 = k
          BY <2>2, <1>2
    <3> QED BY <3>1
  <2> QED BY <2>1, <2>2
<1> HIDE DEF old
<1>7. TypeOK'
      BY <1>1, <1>2, <1>3 DEF Inv, TypeOK, Requests
<1>8. Live' = Live
      BY <1>1 DEF Live
<1>9. OnTheirWay' /\ Rounds' /\ Books'
      BY <1>1, <1>8 DEF Inv, OnTheirWay, Rounds, Books
<1>10. Pending'
  <2>1. ASSUME NEW i \in 1..m, NEW j \in 1..m, Waiting'[i].thread = Waiting'[j].thread
        PROVE  i = j
    <3>1. /\ old(i) \in DOMAIN Waiting /\ old(j) \in DOMAIN Waiting
          /\ Waiting[old(i)].thread = Waiting[old(j)].thread
          BY <2>1, <1>2, <1>4
    <3>2. old(i) = old(j)
          BY <3>1 DEF Inv, Pending
    <3> QED BY <3>2, <1>5
  <2>2. ASSUME NEW i \in 1..m
        PROVE  LET f == Waiting'[i]
               IN  /\ tpc[f.thread] \in Blocked
                   /\ f.resources \in Counts /\ ~IsZero(f.resources)
                   /\ Leq(f.resources, need[f.thread])
                   /\ held[f.thread] = Add(allocation[f.thread], f.resources)
                   /\ \A j \in DOMAIN requestQueue : requestQueue[j].thread # f.thread
    <3>1. old(i) \in DOMAIN Waiting /\ Waiting'[i] = Waiting[old(i)]
          BY <1>2, <1>4
    <3> QED BY <3>1 DEF Inv, Pending
  <2> QED BY <2>1, <2>2, <1>1, <1>2 DEF Pending
<1>11. Scripts'
  <2>1. ASSUME NEW u, \A i \in DOMAIN Waiting' : Waiting'[i].thread # u,
               NEW k \in DOMAIN Waiting
        PROVE  Waiting[k].thread # u
    <3>1. PICK i \in 1..m : old(i) = k
          BY <1>2, <1>6
    <3>2. i \in DOMAIN Waiting' /\ Waiting'[i] = Waiting[k]
          BY <3>1, <1>2, <1>4
    <3> QED BY <3>2, <2>1
  <2> QED BY <2>1, <1>1, <1>8 DEF Inv, Scripts
<1> QED BY <1>7, <1>9, <1>10, <1>11 DEF Inv

(* At the end of a pass the same requests wait, in the same order.         *)
LEMMA PassEnded ==
    ASSUME Inv, NEW pass, EndPass(pass)
    PROVE  Waiting' = Waiting
<1>1. /\ pendingQueue = <<>> /\ pendingQueue' = tempQueue /\ tempQueue' = <<>>
      BY DEF EndPass
<1>2. pendingQueue \in Seq(Requests) /\ tempQueue \in Seq(Requests)
      BY Shapes DEF Inv
<1>3. Waiting = tempQueue
      BY <1>1, <1>2, ConcatEmptySeq DEF Waiting
<1>4. Waiting' = tempQueue
      BY <1>1, <1>2, ConcatEmptySeq DEF Waiting
<1> QED BY <1>3, <1>4

(* The master ends a pass: what it has put aside is pending again.         *)
LEMMA EndPassKeeps ==
    ASSUME Inv, NEW pass \in {"first", "second"}, EndPass(pass)
    PROVE  Inv'
<1>1. /\ pendingQueue = <<>> /\ pendingQueue' = tempQueue /\ tempQueue' = <<>>
      /\ mpc' \in {"receive", "second", "done"}
      /\ UNCHANGED <<available, allocation, need, requestQueue, activeThreads, tpc,
                     held, sent>>
      BY DEF EndPass, AfterBooking, tables, script
<1>2. pendingQueue \in Seq(Requests) /\ tempQueue \in Seq(Requests)
      BY Shapes DEF Inv
<1>3. Waiting' = Waiting
      BY PassEnded
<1>4. TypeOK'
  <2>1. Len(pendingQueue') + Len(tempQueue') <= MAX_QUEUE_SIZE /\ tempQueue' \in Seq(Requests)
    <3>1. Len(pendingQueue) = 0 /\ Len(tempQueue') = 0 /\ Len(pendingQueue') = Len(tempQueue)
          BY <1>1
    <3>2. Len(pendingQueue) + Len(tempQueue) <= MAX_QUEUE_SIZE /\ Len(tempQueue) \in Nat
          BY Shapes DEF Inv, TypeOK
    <3> QED BY <3>1, <3>2, <1>1, EmptySeq
  <2> QED BY <2>1, <1>1, <1>2 DEF Inv, TypeOK, Requests
<1>5. Live' = Live
      BY <1>1 DEF Live
<1>6. OnTheirWay' /\ Pending' /\ Rounds'
      BY <1>1, <1>3, <1>5 DEF Inv, OnTheirWay, Pending, Rounds
<1>7. Books' /\ Scripts'
      BY <1>1, <1>3, <1>5 DEF Inv, Books, Scripts
<1> QED BY <1>4, <1>6, <1>7 DEF Inv

(* No step breaks the invariant, ... *)
LEMMA InvNext == Inv /\ [Next]_vars => Inv'
<1> SUFFICES ASSUME Inv, [Next]_vars PROVE Inv'
    OBVIOUS
<1>1. CASE Master
  <2>1. CASE ReceiveQuit \/ ReceiveRelease \/ ReceiveAdditional
        BY <2>1, QuitKeeps, ReleaseKeeps, AdditionalKeeps
  <2>2. ASSUME NEW pass \in {"first", "second"},
               GrantFirst(pass) \/ DeferFirst(pass) \/ EndPass(pass)
        PROVE  Inv'
        BY <2>2, GrantKeeps, DeferKeeps, EndPassKeeps
  <2> QED BY <2>1, <2>2, <1>1 DEF Master
<1>2. CASE \E t \in Threads : UserStep(t)
  <2>1. PICK t \in Threads : UserStep(t)
        BY <1>2
  <2>2. CASE \E q \in ScriptRequests(held[t], maxNeed[t]) : SendR(t, q)
        BY <2>2, SendRKeeps
  <2>3. CASE SendQ(t) \/ Overflow(t) \/ Sleep(t)
        BY <2>3, SendQKeeps, OverflowKeeps, SleepKeeps
  <2> QED BY <2>1, <2>2, <2>3 DEF UserStep
<1>3. CASE UNCHANGED vars
  <2>1. TypeOK' /\ Live' = Live /\ Waiting' = Waiting
        BY <1>3 DEF vars, Inv, TypeOK, Live, Waiting
  <2>2. OnTheirWay' /\ Pending' /\ Rounds'
        BY <2>1, <1>3 DEF vars, Inv, OnTheirWay, Pending, Rounds
  <2>3. Books' /\ Scripts'
        BY <2>1, <1>3 DEF vars, Inv, Books, Scripts
  <2> QED BY <2>1, <2>2, <2>3 DEF Inv
<1> QED BY <1>1, <1>2, <1>3 DEF Next

(* ... so that it always holds. *)
THEOREM Invariance == Spec => []Inv
BY InvInit, InvNext, PTL DEF Spec

(* Every count stays between zero and the total, and the master's queues   *)
(* never overflow: only a user thread can meet the exit in enqueueRequest. *)
THEOREM TypeCorrect == Spec => []TypeOK
<1>1. Inv => TypeOK
      BY DEF Inv
<1> QED BY <1>1, Invariance, PTL

-----------------------------------------------------------------------------
(* The books *)

(* What thread t has, after all the requests of the queue q for it. *)
HeldBy(q, t, base) ==
    FoldLeft(LAMBDA sum, p : IF p.thread = t THEN Add(sum, p.resources) ELSE sum, base, q)

(* g[k] is what it has after the first k entries; that is how the fold     *)
(* that Conserved states adds them up.                                     *)
HeldAfter(g, q, t, base) ==
    /\ g[0] = base
    /\ \A k \in 1..Len(q) : g[k] = IF q[k].thread = t THEN Add(g[k - 1], q[k].resources)
                                   ELSE g[k - 1]

(* The sum over the queue in Conserved is the last of these. *)
LEMMA FoldIs ==
    ASSUME NEW q \in Seq(Requests), NEW t, NEW base, NEW g, HeldAfter(g, q, t, base)
    PROVE  HeldBy(q, t, base) = g[Len(q)]
<1> DEFINE n == Len(q)
           who == [k \in 1..n |-> q[k].thread]
           what == [k \in 1..n |-> q[k].resources]
           is(f) == f = [s \in SUBSET DOMAIN q |->
                            IF s = {} THEN base
                            ELSE IF q[Max(s)].thread = t
                                 THEN Add(f[s \ {Max(s)}], q[Max(s)].resources)
                                 ELSE f[s \ {Max(s)}]]
           it == CHOOSE f : is(f)
<1>1. n \in Nat /\ DOMAIN q = 1..n
      BY LenProperties
<1>2. HeldBy(q, t, base) = it[DOMAIN q]
      BY DEF HeldBy, FoldLeft, MapThenFoldSet
<1>3. ASSUME NEW f PROVE is(f) <=> Along(f, base, who, what, t, SUBSET (1..n))
  <2> DEFINE a(s) == IF s = {} THEN base
                     ELSE IF q[Max(s)].thread = t THEN Add(f[s \ {Max(s)}], q[Max(s)].resources)
                     ELSE f[s \ {Max(s)}]
             b(s) == IF s = {} THEN base
                     ELSE IF who[Max(s)] = t THEN Add(f[s \ {Max(s)}], what[Max(s)])
                     ELSE f[s \ {Max(s)}]
  <2>1. ASSUME NEW s \in SUBSET (1..n) PROVE a(s) = b(s)
    <3>1. CASE s = {}
          BY <3>1
    <3>2. CASE s # {}
      <4>1. Max(s) \in 1..n
            BY <1>1, <3>2, LastPosition
      <4>2. who[Max(s)] = q[Max(s)].thread /\ what[Max(s)] = q[Max(s)].resources
            BY <4>1
      <4> HIDE DEF who, what
      <4> QED BY <4>2
    <3> QED BY <3>1, <3>2
  <2>2. is(f) <=> f = [s \in SUBSET (1..n) |-> a(s)]
        BY <1>1
  <2>3. Along(f, base, who, what, t, SUBSET (1..n)) <=> f = [s \in SUBSET (1..n) |-> b(s)]
        BY DEF Along
  <2> HIDE DEF a, b, is
  <2>4. [s \in SUBSET (1..n) |-> a(s)] = [s \in SUBSET (1..n) |-> b(s)]
        BY <2>1
  <2> QED BY <2>2, <2>3, <2>4
<1> HIDE DEF n, who, what, is
<1>4. Along(it, base, who, what, t, SUBSET (1..n))
  <2>1. \E f : Along(f, base, who, what, t, SUBSET (1..n))
        BY <1>1, AlongExists
  <2>2. \E f : is(f)
        BY <2>1, <1>3
  <2> QED BY <2>2, <1>3
<1> HIDE DEF it
<1>5. Reached(g, base, who, what, t, n)
  <2>1. \A k \in 1..n : who[k] = q[k].thread /\ what[k] = q[k].resources
        BY DEF who, what
  <2> QED BY <2>1 DEF n, Reached, HeldAfter
<1>6. it[1..n] = g[n]
  <2>1. n \in Nat
        BY <1>1
  <2>2. ComesTo(it, n, g)
        BY <2>1, <1>4, <1>5, AlongIs
  <2> QED BY <2>2 DEF ComesTo
<1> QED BY <1>1, <1>2, <1>6 DEF n

(* The books agree with the scripts: a thread holds, by its script, what   *)
(* is booked for it and what its requests on their way or pending will     *)
(* change.                                                                 *)
LEMMA BooksAgree == Inv => Conserved
<1> SUFFICES ASSUME Inv PROVE Conserved
    OBVIOUS
<1>1. ASSUME NEW t \in Live
      PROVE  held[t] = HeldBy(requestQueue \o Waiting, t, allocation[t])
  <2> DEFINE n == Len(requestQueue)
             m == Len(Waiting)
             q == requestQueue \o Waiting
  <2>1. /\ n \in Nat /\ DOMAIN requestQueue = 1..n /\ requestQueue \in Seq(Requests)
        /\ m \in Nat /\ DOMAIN Waiting = 1..m /\ Waiting \in Seq(Requests)
        /\ t \in Threads
        BY Shapes DEF Inv, Live
  <2>2. /\ q \in Seq(Requests) /\ Len(q) = n + m
        /\ \A i \in 1..(n + m) : q[i] = IF i <= n THEN requestQueue[i] ELSE Waiting[i - n]
        BY <2>1, ConcatProperties
  <2>3. PICK b \in [0..n -> Counts] :
                /\ Runs(b, requestQueue, t, allocation[t])
                /\ (\A i \in DOMAIN Waiting : Waiting[i].thread # t) => held[t] = b[n]
        BY DEF Inv, Scripts
  <2>4. PICK j \in 1..(m + 1) :
                /\ \A i \in 1..m : Waiting[i].thread = t <=> i = j
                /\ held[t] = IF j = m + 1 THEN b[n] ELSE Add(b[n], Waiting[j].resources)
    <3> HIDE DEF n, m, q
    <3>1. CASE \A i \in 1..m : Waiting[i].thread # t
      <4>1. m + 1 \in 1..(m + 1) /\ m + 1 \notin 1..m
            BY <2>1
      <4>2. held[t] = b[n]
            BY <3>1, <2>1, <2>3
      <4> QED BY <4>1, <4>2, <3>1
    <3>2. CASE \E i \in 1..m : Waiting[i].thread = t
      <4>1. PICK j \in 1..m : Waiting[j].thread = t
            BY <3>2
      <4>2. \A i \in 1..m : Waiting[i].thread = t <=> i = j
            BY <4>1, <2>1 DEF Inv, Pending
      <4>3. /\ held[t] = Add(allocation[t], Waiting[j].resources)
            /\ \A i \in DOMAIN requestQueue : requestQueue[i].thread # t
            BY <4>1, <2>1 DEF Inv, Pending
      <4>4. b[n] = allocation[t]
            BY <4>3, <2>1, <2>3, RunsNone DEF n
      <4>5. j \in 1..(m + 1) /\ j # m + 1
            BY <2>1
      <4> QED BY <4>2, <4>3, <4>4, <4>5
    <3> QED BY <3>1, <3>2
  <2> DEFINE g == [k \in 0..(n + m) |-> IF k <= n THEN b[k]
                                        ELSE IF j <= k - n THEN held[t] ELSE b[n]]
  <2> HIDE DEF n, m, q
  <2>5. \A k \in 0..(n + m) : g[k] = IF k <= n THEN b[k]
                                     ELSE IF j <= k - n THEN held[t] ELSE b[n]
        BY <2>1
  <2> HIDE DEF g
  <2>6. g[0] = allocation[t]
    <3>1. b[0] = allocation[t]
          BY <2>3 DEF Runs
    <3>2. 0 \in 0..(n + m) /\ 0 <= n
          BY <2>1
    <3> QED BY <3>1, <3>2, <2>5
  <2>7. g[n + m] = held[t]
    <3>1. n + m \in 0..(n + m) /\ (n + m) - n = m
          BY <2>1
    <3>2. CASE m = 0
          BY <3>1, <3>2, <2>1, <2>4, <2>5
    <3>3. CASE m # 0
      <4>1. ~(n + m <= n)
            BY <3>3, <2>1
      <4>2. g[n + m] = IF j <= m THEN held[t] ELSE b[n]
            BY <3>1, <4>1, <2>5
      <4>3. CASE j <= m
            BY <4>2, <4>3
      <4>4. CASE ~(j <= m)
        <5>1. j = m + 1
              BY <4>4, <2>1
        <5> QED BY <4>2, <4>4, <5>1, <2>4
      <4> QED BY <4>3, <4>4
    <3> QED BY <3>2, <3>3
  <2>8. ASSUME NEW k \in 1..(n + m)
        PROVE  g[k] = IF q[k].thread = t THEN Add(g[k - 1], q[k].resources) ELSE g[k - 1]
    <3>1. k \in 0..(n + m) /\ k - 1 \in 0..(n + m)
          BY <2>1
    <3>2. CASE k <= n
      <4>1. k \in 1..n /\ k - 1 <= n
            BY <3>2, <2>1
      <4>2. q[k] = requestQueue[k] /\ g[k] = b[k] /\ g[k - 1] = b[k - 1]
            BY <3>1, <3>2, <4>1, <2>2, <2>5
      <4>3. /\ requestQueue[k].thread # t => b[k] = b[k - 1]
            /\ requestQueue[k].thread = t => b[k] = Add(b[k - 1], requestQueue[k].resources)
            BY <4>1, <2>3 DEF Runs, n
      <4> QED BY <4>2, <4>3
    <3>3. CASE ~(k <= n)
      <4> DEFINE i == k - n
      <4>1. i \in 1..m /\ (k - 1) - n = i - 1
            BY <3>3, <2>1
      <4>2. q[k] = Waiting[i] /\ g[k] = IF j <= i THEN held[t] ELSE b[n]
            BY <3>1, <3>3, <2>2, <2>5
      <4>3. g[k - 1] = IF j <= i - 1 THEN held[t] ELSE b[n]
        <5>1. CASE k - 1 <= n
          <6>1. k - 1 = n /\ i = 1
                BY <5>1, <3>3, <2>1
          <6>2. g[k - 1] = b[n] /\ ~(j <= i - 1)
                BY <6>1, <3>1, <2>1, <2>5
          <6> QED BY <6>2
        <5>2. CASE ~(k - 1 <= n)
              BY <5>2, <4>1, <3>1, <2>5
        <5> QED BY <5>1, <5>2
      <4> HIDE DEF i
      <4>4. CASE i = j
        <5>1. j <= i /\ ~(j <= i - 1) /\ j # m + 1
              BY <4>1, <4>4, <2>1
        <5> QED BY <4>1, <4>2, <4>3, <4>4, <5>1, <2>4
      <4>5. CASE i # j
        <5>1. j <= i <=> j <= i - 1
              BY <4>1, <4>5, <2>1
        <5> QED BY <4>1, <4>2, <4>3, <4>5, <5>1, <2>4
      <4> QED BY <4>4, <4>5
    <3> QED BY <3>2, <3>3
  <2>9. HeldBy(q, t, allocation[t]) = g[Len(q)]
    <3>1. HeldAfter(g, q, t, allocation[t])
          BY <2>2, <2>6, <2>8 DEF HeldAfter
    <3> QED BY <3>1, <2>2, FoldIs
  <2> QED BY <2>2, <2>7, <2>9 DEF q
<1> QED BY <1>1 DEF Inv, Conserved, Books, Tables, Claimed, HeldBy

(* Nothing is created or lost, although the threads run ahead of the       *)
(* master: several requests of one thread may be on their way at once.     *)
THEOREM ConservedAlways == Spec => []Conserved
BY BooksAgree, Invariance, PTL

-----------------------------------------------------------------------------
(* The banker *)

(* What each thread waits for in a queue w. *)
WaitsIn(w) ==
    [t \in Threads |-> IF \E i \in DOMAIN w : w[i].thread = t
                       THEN w[CHOOSE i \in DOMAIN w : w[i].thread = t].resources
                       ELSE None]

(* No thread is in the queue w twice. *)
Once(w) == \A i, j \in DOMAIN w : w[i].thread = w[j].thread => i = j

(* That is its request if it is queued, since it is queued once.           *)
LEMMA WaitsFor ==
    ASSUME NEW w, Once(w), NEW t \in Threads
    PROVE  /\ (\A i \in DOMAIN w : w[i].thread # t) => WaitsIn(w)[t] = None
           /\ \A i \in DOMAIN w : w[i].thread = t => WaitsIn(w)[t] = w[i].resources
<1>1. (\A i \in DOMAIN w : w[i].thread # t) => WaitsIn(w)[t] = None
      BY DEF WaitsIn
<1>2. ASSUME NEW i \in DOMAIN w, w[i].thread = t
      PROVE  WaitsIn(w)[t] = w[i].resources
  <2>1. (CHOOSE k \in DOMAIN w : w[k].thread = t) = i
        BY <1>2 DEF Once
  <2> QED BY <2>1, <1>2 DEF WaitsIn
<1> QED BY <1>1, <1>2

(* A thread waits for the same in two queues that have the same entries of *)
(* it, in whatever order.                                                  *)
LEMMA SameWait ==
    ASSUME NEW w, NEW v, Once(w), Once(v), NEW t \in Threads,
           \A i \in DOMAIN w : w[i].thread = t => \E j \in DOMAIN v : v[j] = w[i],
           \A i \in DOMAIN v : v[i].thread = t => \E j \in DOMAIN w : w[j] = v[i]
    PROVE  WaitsIn(w)[t] = WaitsIn(v)[t]
<1>1. CASE \A i \in DOMAIN w : w[i].thread # t
  <2>1. \A i \in DOMAIN v : v[i].thread # t
        BY <1>1
  <2> QED BY <1>1, <2>1, WaitsFor
<1>2. CASE \E i \in DOMAIN w : w[i].thread = t
  <2>1. PICK i \in DOMAIN w : w[i].thread = t
        BY <1>2
  <2>2. PICK j \in DOMAIN v : v[j] = w[i]
        BY <2>1
  <2>3. WaitsIn(w)[t] = w[i].resources /\ WaitsIn(v)[t] = v[j].resources
        BY <2>1, <2>2, WaitsFor
  <2> QED BY <2>2, <2>3
<1> QED BY <1>1, <1>2

(* The banker's copies of the operators are the operators. *)
LEMMA SameOperators ==
    /\ \A u, w : /\ Banker!Add(u, w) = Add(u, w) /\ Banker!Sub(u, w) = Sub(u, w)
                 /\ Banker!Leq(u, w) <=> Leq(u, w)
                 /\ Banker!IsZero(u) <=> IsZero(u)
    /\ Banker!Counts = Counts /\ Banker!Zero = Zero
BY DEF Banker!Add, Banker!Sub, Banker!Leq, Banker!IsZero, Banker!Counts, Banker!Zero,
       Add, Sub, Leq, IsZero, Counts, Zero

(* ... and a state is safe for it when it is safe.                         *)
LEMMA SameSafe ==
    ASSUME NEW S, NEW a, NEW b, NEW c
    PROVE  Banker!Safe(S, a, b, c) <=> Safe(S, a, b, c)
BY DEF Banker!Safe, Safe, Banker!Orders, Orders, Banker!FinishInOrder, FinishInOrder,
       Banker!Leq, Leq, Banker!Add, Add, Banker!Counts, Counts,
       Banker!Cardinality, Cardinality

(* What the banker says of the steps, with the master's queues for what    *)
(* the threads wait for.                                                   *)
LEMMA BankerSteps ==
    /\ [t \in Threads |-> PendingOf(t)] = WaitsIn(Waiting)
    /\ \A t \in Threads : \A back, want \in Counts :
          Banker!Request(t, back, want) <=>
             /\ t \in Live
             /\ WaitsIn(Waiting)[t] = None
             /\ Leq(back, allocation[t])
             /\ Leq(want, need[t])
             /\ available' = Add(available, back)
             /\ allocation' = [allocation EXCEPT ![t] = Sub(@, back)]
             /\ need' = [need EXCEPT ![t] = Add(@, back)]
             /\ WaitsIn(Waiting)' = [WaitsIn(Waiting) EXCEPT
                                        ![t] = IF IsZero(want) THEN None ELSE want]
             /\ Live' = Live
<1>1. [t \in Threads |-> PendingOf(t)] = WaitsIn(Waiting)
      BY DEF WaitsIn, PendingOf, IsPending
<1>2. [t \in Threads |-> PendingOf(t)]' = WaitsIn(Waiting)'
      BY DEF WaitsIn, PendingOf, IsPending
<1> QED BY <1>1, <1>2, SameOperators DEF Banker!Request

(* At the start the banker's books are the master's. *)
LEMMA BankerInit == Init => Banker!Init
<1> SUFFICES ASSUME Init PROVE Banker!Init
    OBVIOUS
<1>1. DOMAIN Waiting = {}
  <2>1. Len(pendingQueue) = 0 /\ Len(tempQueue) = 0
        BY EmptySeq DEF Init
  <2>2. DOMAIN Waiting = 1..Len(Waiting) /\ Len(Waiting) = Len(pendingQueue) + Len(tempQueue)
        BY InvInit, Shapes DEF Inv
  <2> QED BY <2>1, <2>2
<1>2. Live = Threads
      BY DEF Init, Live
<1>3. [t \in Threads |-> PendingOf(t)] = [t \in Threads |-> None]
      BY <1>1 DEF PendingOf, IsPending
<1> QED BY <1>2, <1>3, SameOperators DEF Init, Banker!Init

(* No thread is pending twice. *)
LEMMA PendingOnce == Inv => Once(Waiting)
BY DEF Inv, Pending, Once

(* Booking a request is the banker's Request, ... *)
LEMMA BooksRelease ==
    ASSUME Inv, ReceiveRelease
    PROVE  Banker!Next
<1> DEFINE t == Head(requestQueue).thread
           q == Head(requestQueue).resources
<1>1. /\ requestQueue # <<>> /\ Head(requestQueue).type = "RELEASE"
      /\ Book(t, q)
      /\ requestQueue' = Tail(requestQueue)
      /\ UNCHANGED <<pendingQueue, tempQueue, tpc>>
      BY DEF ReceiveRelease
<1>2. /\ t \in Live /\ t \in Threads /\ IsZero(Wanted(q))
      /\ \A i \in DOMAIN Waiting : Waiting[i].thread # t
      BY <1>1, HeadIs
<1>3. Live' = Live /\ Waiting' = Waiting
      BY <1>1, HeadTaken DEF Waiting
<1>4. /\ Returned(q) \in Counts /\ Wanted(q) \in Counts
      /\ Leq(Returned(q), allocation[t]) /\ Leq(Wanted(q), need[t])
      BY <1>1, HeadBooked
<1>5. WaitsIn(Waiting)[t] = None
      BY <1>2, PendingOnce, WaitsFor
<1>6. /\ available' = Add(available, Returned(q))
      /\ allocation' = [allocation EXCEPT ![t] = Sub(@, Returned(q))]
      /\ need' = [need EXCEPT ![t] = Add(@, Returned(q))]
      BY <1>1 DEF Book
<1> HIDE DEF t, q
<1>7. WaitsIn(Waiting)' = [WaitsIn(Waiting) EXCEPT ![t] = IF IsZero(Wanted(q)) THEN None
                                                          ELSE Wanted(q)]
      BY <1>2, <1>3, <1>5 DEF WaitsIn
<1>8. Banker!Request(t, Returned(q), Wanted(q))
      BY <1>2, <1>3, <1>4, <1>5, <1>6, <1>7, BankerSteps
<1>9. \E back, want \in Banker!Counts : Banker!Request(t, back, want)
  <2>1. Returned(q) \in Banker!Counts /\ Wanted(q) \in Banker!Counts
        BY <1>4, SameOperators
  <2> QED BY <1>8, <2>1 DEF Banker!Request
<1> QED BY <1>2, <1>9 DEF Banker!Next

(* An ADDITIONAL request (lines 262-289) is booked: the banker takes back  *)
(* what it returns and keeps what it asks for as pending.                  *)
LEMMA BooksAdditional ==
    ASSUME Inv, Inv', ReceiveAdditional
    PROVE  Banker!Next
<1> DEFINE e == Head(requestQueue)
           t == e.thread
           q == e.resources
           w == [e EXCEPT !.resources = Wanted(@)]
           m == Len(Waiting)
<1>1. /\ requestQueue # <<>> /\ mpc = "receive" /\ e.type = "ADDITIONAL"
      /\ Book(t, q)
      /\ requestQueue' = Tail(requestQueue)
      /\ pendingQueue' = Append(pendingQueue, w)
      /\ UNCHANGED <<tempQueue, tpc>>
      BY DEF ReceiveAdditional
<1>2. /\ t \in Live /\ t \in Threads /\ ~IsZero(Wanted(q)) /\ e \in Requests
      /\ \A i \in DOMAIN Waiting : Waiting[i].thread # t
      BY <1>1, HeadIs
<1>3. Live' = Live
      BY <1>1, HeadTaken
<1>4. /\ Returned(q) \in Counts /\ Wanted(q) \in Counts
      /\ Leq(Returned(q), allocation[t]) /\ Leq(Wanted(q), need[t])
      BY <1>1, HeadBooked
<1>5. w \in Requests /\ w.thread = t /\ w.resources = Wanted(q)
      BY <1>1, <1>2, <1>4, AskedFits
<1>6. WaitsIn(Waiting)[t] = None
      BY <1>2, PendingOnce, WaitsFor
<1>7. /\ available' = Add(available, Returned(q))
      /\ allocation' = [allocation EXCEPT ![t] = Sub(@, Returned(q))]
      /\ need' = [need EXCEPT ![t] = Add(@, Returned(q))]
      BY <1>1 DEF Book
<1>8. Waiting' = Append(Waiting, w)
      BY <1>1, <1>5, WaitingAdded DEF Inv, Rounds
<1>9. /\ m \in Nat /\ DOMAIN Waiting = 1..m
      /\ DOMAIN Waiting' = 1..(m + 1)
      /\ \A i \in 1..m : Waiting'[i] = Waiting[i]
      /\ Waiting'[m + 1] = w
  <2>1. Waiting \in Seq(Requests)
        BY Shapes DEF Inv
  <2> HIDE DEF e, w
  <2> QED BY <2>1, <1>5, <1>8, EntryAdded
<1> HIDE DEF e, t, q, w, m
<1>10. Once(Waiting) /\ Once(Waiting')
      BY DEF Inv, Pending, Once
<1>11. WaitsIn(Waiting)' = [WaitsIn(Waiting) EXCEPT ![t] = IF IsZero(Wanted(q)) THEN None
                                                           ELSE Wanted(q)]
  <2>1. /\ m + 1 \in DOMAIN Waiting'
        /\ \A i \in DOMAIN Waiting : i \in DOMAIN Waiting' /\ Waiting'[i] = Waiting[i]
        /\ \A i \in DOMAIN Waiting' : i \in DOMAIN Waiting \/ i = m + 1
        BY <1>9
  <2>2. WaitsIn(Waiting')[t] = Wanted(q)
        BY <2>1, <1>2, <1>5, <1>9, <1>10, WaitsFor
  <2>3. ASSUME NEW u \in Threads, u # t
        PROVE  WaitsIn(Waiting)[u] = WaitsIn(Waiting')[u]
    <3>1. /\ \A i \in DOMAIN Waiting : \E j \in DOMAIN Waiting' : Waiting'[j] = Waiting[i]
          /\ \A i \in DOMAIN Waiting' : Waiting'[i].thread = u =>
                \E j \in DOMAIN Waiting : Waiting[j] = Waiting'[i]
          BY <2>1, <2>3, <1>5, <1>9
    <3> QED BY <3>1, <1>10, SameWait
  <2>4. /\ WaitsIn(Waiting) = [u \in Threads |-> WaitsIn(Waiting)[u]]
        /\ WaitsIn(Waiting)' = [u \in Threads |-> WaitsIn(Waiting')[u]]
        BY DEF WaitsIn
  <2> QED BY <2>2, <2>3, <2>4, <1>2
<1>12. Banker!Request(t, Returned(q), Wanted(q))
       BY <1>2, <1>3, <1>4, <1>6, <1>7, <1>11, BankerSteps
<1>13. \E back, want \in Banker!Counts : Banker!Request(t, back, want)
  <2>1. Returned(q) \in Banker!Counts /\ Wanted(q) \in Banker!Counts
        BY <1>4, SameOperators
  <2> QED BY <1>12, <2>1 DEF Banker!Request
<1> QED BY <1>2, <1>13 DEF Banker!Next

(* ... a QUIT is its Quit, ... *)
LEMMA BooksQuit ==
    ASSUME Inv, ReceiveQuit
    PROVE  Banker!Next
<1> DEFINE t == Head(requestQueue).thread
<1>1. /\ requestQueue # <<>> /\ Head(requestQueue).type = "QUIT"
      /\ available' = Add(available, allocation[t])
      /\ allocation' = [allocation EXCEPT ![t] = Zero]
      /\ need' = [need EXCEPT ![t] = Zero]
      /\ requestQueue' = Tail(requestQueue)
      /\ UNCHANGED <<pendingQueue, tempQueue, tpc>>
      BY DEF ReceiveQuit
<1>2. /\ t \in Live /\ t \in Threads
      /\ \A i \in DOMAIN Waiting : Waiting[i].thread # t
      BY <1>1, HeadIs
<1>3. Live' = Live \ {t} /\ Waiting' = Waiting
      BY <1>1, HeadTaken DEF Waiting
<1> HIDE DEF t
<1>4. PendingOf(t) = None /\ [u \in Threads |-> PendingOf(u)]' = [u \in Threads |-> PendingOf(u)]
      BY <1>2, <1>3 DEF PendingOf, IsPending
<1>5. Banker!Quit(t)
      BY <1>1, <1>2, <1>3, <1>4, SameOperators DEF Banker!Quit
<1> QED BY <1>2, <1>5 DEF Banker!Next

(* ... and granting is its Grant: the check of the code, which goes over   *)
(* all threads, leaves a state that is safe for those that are live.       *)
LEMMA GrantSafe ==
    ASSUME Inv, NEW avail, NEW alloc, NEW nd, Tables(avail, alloc, nd),
           \A u \in Threads \ Live : alloc[u] = Zero
    PROVE  issafe(Threads, avail, alloc, nd) => Safe(Live, avail, alloc, nd)
<1>1. Threads \in SUBSET Threads /\ Live \in SUBSET Threads /\ Total \in Counts
      BY ClaimsAssumption DEF ClaimsAssumption, Live
<1> QED BY <1>1, SafetyCheckSound DEF Tables

(* A grant of either pass is the banker's grant: the request fits, and the *)
(* state after it is safe.                                                 *)
LEMMA ServesGrant ==
    ASSUME Inv, Inv', NEW pass \in {"first", "second"}, GrantFirst(pass), Avoid
    PROVE  Banker!Next
<1> DEFINE e == Head(pendingQueue)
           t == e.thread
           q == e.resources
           m == Len(Waiting)
<1>1. /\ pendingQueue # <<>>
      /\ Leq(q, available)
      /\ issafe(Threads, available', allocation', need')
      /\ available' = Sub(available, q)
      /\ allocation' = [allocation EXCEPT ![t] = Add(@, q)]
      /\ need' = [need EXCEPT ![t] = Sub(@, q)]
      /\ tpc' = [tpc EXCEPT ![t] = IF @ = "asleep" THEN "delay" ELSE @]
      /\ pendingQueue' = Tail(pendingQueue)
      /\ UNCHANGED <<requestQueue, tempQueue>>
      BY DEF GrantFirst, CanGrant, isSafeState
<1>2. /\ e = Waiting[1] /\ 1 \in DOMAIN Waiting
      /\ DOMAIN Waiting = 1..m /\ m \in Nat
      /\ DOMAIN Waiting' = 1..(m - 1)
      /\ \A i \in 1..(m - 1) : Waiting'[i] = Waiting[i + 1]
      BY <1>1, WaitingTaken DEF Inv
<1>3. /\ \A i \in DOMAIN Waiting : Waiting[i].thread \in Threads
      /\ tpc = [u \in Threads |-> tpc[u]]
      BY Shapes DEF Inv, Requests
<1> HIDE DEF m
<1>4. t \in Threads /\ tpc[t] \in Blocked /\ q \in Counts
      BY <1>2, <1>3 DEF Inv, Pending
<1>5. Once(Waiting) /\ Once(Waiting')
      BY DEF Inv, Pending, Once
<1> HIDE DEF e, t, q
<1>6. /\ tpc'[t] \in {"sent", "delay"} /\ \A u \in Threads : u # t => tpc'[u] = tpc[u]
      BY <1>1, <1>3, <1>4 DEF Blocked
<1>7. t \in Live /\ Live' = Live
      BY <1>1, <1>4, <1>6 DEF Live, Blocked
<1>8. WaitsIn(Waiting)[t] = q
      BY <1>2, <1>4, <1>5, WaitsFor DEF t, q
<1>9. WaitsIn(Waiting)' = [WaitsIn(Waiting) EXCEPT ![t] = None]
  <2>1. \A i \in DOMAIN Waiting : i # 1 => Waiting[i].thread # t
        BY <1>2, <1>5 DEF Once, t
  <2>2. \A i \in DOMAIN Waiting' :
           i + 1 \in DOMAIN Waiting /\ i + 1 # 1 /\ Waiting'[i] = Waiting[i + 1]
        BY <1>2
  <2>3. \A i \in DOMAIN Waiting : i # 1 =>
           i - 1 \in DOMAIN Waiting' /\ Waiting'[i - 1] = Waiting[i]
    <3>1. \A i \in 1..m : i # 1 => i - 1 \in 1..(m - 1) /\ (i - 1) + 1 = i
          BY <1>2
    <3>2. \A i \in 1..m : i # 1 => Waiting'[i - 1] = Waiting[(i - 1) + 1]
          BY <3>1, <1>2
    <3> QED BY <3>1, <3>2, <1>2
  <2>4. WaitsIn(Waiting')[t] = None
        BY <2>1, <2>2, <1>4, <1>5, WaitsFor
  <2>5. ASSUME NEW u \in Threads, u # t
        PROVE  WaitsIn(Waiting)[u] = WaitsIn(Waiting')[u]
    <3>1. Waiting[1].thread = t
          BY <1>2 DEF t
    <3>2. /\ \A i \in DOMAIN Waiting : Waiting[i].thread = u =>
                \E j \in DOMAIN Waiting' : Waiting'[j] = Waiting[i]
          /\ \A i \in DOMAIN Waiting' : \E j \in DOMAIN Waiting : Waiting[j] = Waiting'[i]
          BY <3>1, <2>2, <2>3, <2>5
    <3> QED BY <3>2, <1>5, SameWait
  <2>6. /\ WaitsIn(Waiting) = [u \in Threads |-> WaitsIn(Waiting)[u]]
        /\ WaitsIn(Waiting)' = [u \in Threads |-> WaitsIn(Waiting')[u]]
        BY DEF WaitsIn
  <2> QED BY <2>4, <2>5, <2>6, <1>4
<1>10. Safe(Live, available', allocation', need')
  <2>1. Tables(available', allocation', need') /\ \A u \in Threads \ Live : allocation'[u] = Zero
        BY <1>7 DEF Inv, Books
  <2> QED BY <2>1, <1>1, GrantSafe
<1>11. q # None
       BY <1>4, ClaimsAssumption DEF ClaimsAssumption, Counts
<1>12. Banker!Grant(t)
  <2>1. /\ [u \in Threads |-> PendingOf(u)] = WaitsIn(Waiting)
        /\ [u \in Threads |-> PendingOf(u)]' = WaitsIn(Waiting)'
        BY DEF WaitsIn, PendingOf, IsPending
  <2>2. PendingOf(t) = q
    <3>1. [u \in Threads |-> PendingOf(u)][t] = PendingOf(t)
          BY <1>4
    <3> QED BY <3>1, <2>1, <1>8
  <2>3. Banker!Safe(Live, Sub(available, q), [allocation EXCEPT ![t] = Add(@, q)],
                    [need EXCEPT ![t] = Sub(@, q)])
        BY <1>1, <1>10, SameSafe
  <2> QED BY <2>1, <2>2, <2>3, <1>1, <1>4, <1>7, <1>9, <1>11, SameOperators
          DEF Banker!Grant, Banker!Grantable
<1> QED BY <1>4, <1>12 DEF Banker!Next, Banker!Grant, Banker!Grantable

(* Every other step leaves the banker's books alone: what is put aside is  *)
(* pending still, ...                                                      *)
LEMMA RestLeaves ==
    ASSUME Inv, Inv', NEW pass \in {"first", "second"}, DeferFirst(pass) \/ EndPass(pass)
    PROVE  UNCHANGED Banker!vars
<1>1. UNCHANGED <<available, allocation, need, requestQueue, tpc>>
      BY DEF DeferFirst, EndPass, tables
<1>2. Live' = Live
      BY <1>1 DEF Live
<1>3. Once(Waiting) /\ Once(Waiting')
      BY DEF Inv, Pending, Once
<1>4. /\ \A i \in DOMAIN Waiting : \E j \in DOMAIN Waiting' : Waiting'[j] = Waiting[i]
      /\ \A i \in DOMAIN Waiting' : \E j \in DOMAIN Waiting : Waiting[j] = Waiting'[i]
  <2>1. CASE DeferFirst(pass)
    <3> DEFINE m == Len(Waiting)
    <3>1. /\ pendingQueue # <<>> /\ pendingQueue' = Tail(pendingQueue)
          /\ tempQueue' = Append(tempQueue, Head(pendingQueue))
          BY <2>1 DEF DeferFirst
    <3>2. /\ 1 \in DOMAIN Waiting /\ DOMAIN Waiting = 1..m /\ m \in Nat
          /\ DOMAIN Waiting' = 1..m
          /\ \A i \in 1..(m - 1) : Waiting'[i] = Waiting[i + 1]
          /\ Waiting'[m] = Waiting[1]
          BY <3>1, WaitingRotated DEF Inv
    <3> HIDE DEF m
    <3>3. m \in 1..m
          BY <3>2
    <3>4. \A i \in 1..m : i # m => i \in 1..(m - 1) /\ i + 1 \in 1..m
          BY <3>2
    <3>5. \A i \in 1..m : i # 1 => i - 1 \in 1..(m - 1) /\ i - 1 \in 1..m /\ (i - 1) + 1 = i
          BY <3>2
    <3>6. \A i \in 1..m : i # 1 => Waiting'[i - 1] = Waiting[(i - 1) + 1]
          BY <3>2, <3>5
    <3>7. ASSUME NEW i \in 1..m PROVE \E j \in 1..m : Waiting'[j] = Waiting[i]
      <4>1. CASE i = 1
            BY <4>1, <3>2, <3>3
      <4>2. CASE i # 1
            BY <4>2, <3>5, <3>6
      <4> QED BY <4>1, <4>2
    <3>8. ASSUME NEW i \in 1..m PROVE \E j \in 1..m : Waiting[j] = Waiting'[i]
      <4>1. CASE i = m
            BY <4>1, <3>2
      <4>2. CASE i # m
            BY <4>2, <3>2, <3>4
      <4> QED BY <4>1, <4>2
    <3> QED BY <3>2, <3>7, <3>8
  <2>2. CASE EndPass(pass)
        BY <2>2, PassEnded
  <2> QED BY <2>1, <2>2
<1>5. WaitsIn(Waiting)' = WaitsIn(Waiting)
  <2>1. \A u \in Threads : WaitsIn(Waiting)[u] = WaitsIn(Waiting')[u]
        BY <1>3, <1>4, SameWait
  <2>2. /\ WaitsIn(Waiting) = [u \in Threads |-> WaitsIn(Waiting)[u]]
        /\ WaitsIn(Waiting)' = [u \in Threads |-> WaitsIn(Waiting')[u]]
        BY DEF WaitsIn
  <2> QED BY <2>1, <2>2
<1>6. [u \in Threads |-> PendingOf(u)]' = [u \in Threads |-> PendingOf(u)]
      BY <1>5 DEF WaitsIn, PendingOf, IsPending
<1> QED BY <1>1, <1>2, <1>6 DEF Banker!vars

(* ... and a user thread changes the queue of requests only.               *)
LEMMA UserLeaves ==
    ASSUME Inv, NEW t \in Threads, UserStep(t)
    PROVE  UNCHANGED Banker!vars
<1>1. Live' = Live
  <2>1. CASE \E q \in ScriptRequests(held[t], maxNeed[t]) : SendR(t, q)
        BY <2>1, SendRKeeps
  <2>2. CASE SendQ(t)
        BY <2>2, SendQKeeps
  <2>3. CASE Overflow(t) \/ Sleep(t)
    <3>1. /\ requestQueue' = requestQueue /\ DOMAIN tpc = Threads
          /\ \A u \in Threads : tpc'[u] # "done" <=> tpc[u] # "done"
          BY <2>3, Shapes DEF Overflow, Sleep, Inv, TypeOK
    <3> QED BY <3>1 DEF Live
  <2> QED BY <2>1, <2>2, <2>3 DEF UserStep
<1>2. UNCHANGED <<available, allocation, need, pendingQueue, tempQueue>>
      BY DEF UserStep, SendR, SendQ, Send, Overflow, Sleep, tables
<1>3. [u \in Threads |-> PendingOf(u)]' = [u \in Threads |-> PendingOf(u)]
      BY <1>2 DEF PendingOf, IsPending, Waiting
<1> QED BY <1>1, <1>2, <1>3 DEF Banker!vars

(* Every step of the master and of the threads is a step of the banker, or *)
(* nothing to it.                                                          *)
LEMMA BankerNext == Inv /\ Inv' /\ [Next]_vars => [Avoid => Banker!Next]_(Banker!vars)
<1> SUFFICES ASSUME Inv, Inv', [Next]_vars, Avoid
             PROVE  Banker!Next \/ UNCHANGED Banker!vars
    OBVIOUS
<1>1. CASE ReceiveRelease \/ ReceiveAdditional \/ ReceiveQuit
      BY <1>1, BooksRelease, BooksAdditional, BooksQuit
<1>2. CASE \E pass \in {"first", "second"} : GrantFirst(pass) \/ DeferFirst(pass) \/ EndPass(pass)
      BY <1>2, ServesGrant, RestLeaves
<1>3. CASE \E t \in Threads : UserStep(t)
      BY <1>3, UserLeaves
<1>4. CASE UNCHANGED vars
      BY <1>4 DEF vars, Banker!vars, Live, PendingOf, IsPending, Waiting
<1> QED BY <1>1, <1>2, <1>3, <1>4 DEF Next, Master

(* Under avoidance the master is the banker: what it books and grants are  *)
(* steps of Banker, and it grants nothing that leaves the state unsafe,    *)
(* although requests that it has not seen yet are queued meanwhile.        *)
THEOREM Refinement == Spec => ImplementsBanker
BY Invariance, BankerInit, BankerNext, PTL DEF Spec, ImplementsBanker

-----------------------------------------------------------------------------
(* Two passes are enough *)

(* What granting entry e would leave. *)
Allocates(e) == [allocation EXCEPT ![e.thread] = Add(@, e.resources)]
Takes(e)     == [need EXCEPT ![e.thread] = Sub(@, e.resources)]
Leaves(e)    == Sub(available, e.resources)

SafeAfter(e) == Safe(Live, Leaves(e), Allocates(e), Takes(e))

(* The tables stay tables if a pending request that is free is granted,    *)
(* and the check of the code is exact, although it goes over all threads.  *)
GrantsFit ==
    \A i \in DOMAIN Waiting : Leq(Waiting[i].resources, available) =>
        /\ Tables(Leaves(Waiting[i]), Allocates(Waiting[i]), Takes(Waiting[i]))
        /\ isSafeState(Waiting[i].thread, Waiting[i].resources) <=> SafeAfter(Waiting[i])

(* This holds of every pending request: it is part of its thread's need.   *)
LEMMA GrantFits == Inv => GrantsFit
<1> SUFFICES ASSUME Inv, NEW i \in DOMAIN Waiting, Leq(Waiting[i].resources, available)
             PROVE  /\ Tables(Leaves(Waiting[i]), Allocates(Waiting[i]), Takes(Waiting[i]))
                    /\ isSafeState(Waiting[i].thread, Waiting[i].resources)
                          <=> SafeAfter(Waiting[i])
    BY DEF GrantsFit
<1> DEFINE e == Waiting[i]
           t == e.thread
           q == e.resources
<1>1. /\ t \in Threads /\ t \in Live /\ q \in Counts /\ Leq(q, need[t]) /\ Leq(q, available)
  <2>1. t \in Threads
        BY Shapes DEF Inv, Requests
  <2>2. tpc[t] \in Blocked /\ q \in Counts /\ Leq(q, need[t])
        BY DEF Inv, Pending
  <2> QED BY <2>1, <2>2 DEF Live, Blocked
<1> HIDE DEF e
<1>2. Tables(Leaves(e), Allocates(e), Takes(e))
  <2>1. Tables(available, allocation, need) /\ Claimed(t, allocation, need)
        BY <1>1 DEF Inv, Books
  <2> HIDE DEF t, q
  <2>2. Tables(Sub(available, q), [allocation EXCEPT ![t] = Add(@, q)],
               [need EXCEPT ![t] = Sub(@, q)])
        BY <2>1, <1>1, GrantKeepsTables
  <2> QED BY <2>2 DEF Leaves, Allocates, Takes, t, q
<1>3. \A u \in Threads \ Live : Allocates(e)[u] = Zero /\ Takes(e)[u] = Zero
  <2>1. \A u \in Threads : u # t => /\ Allocates(e)[u] = allocation[u]
                                    /\ Takes(e)[u] = need[u]
        BY Shapes DEF Inv, Allocates, Takes
  <2> QED BY <2>1, <1>1 DEF Inv, Books
<1>4. isSafeState(t, q) <=> issafe(Threads, Leaves(e), Allocates(e), Takes(e))
      BY DEF isSafeState, Leaves, Allocates, Takes
<1>5. issafe(Threads, Leaves(e), Allocates(e), Takes(e)) => SafeAfter(e)
      BY <1>2, <1>3, GrantSafe DEF SafeAfter
<1>6. SafeAfter(e) => issafe(Threads, Leaves(e), Allocates(e), Takes(e))
  <2>1. Threads \in SUBSET Threads /\ Live \in SUBSET Threads
        BY DEF Live
  <2> QED BY <2>1, <1>2, <1>3, SafetyCheckComplete DEF SafeAfter, Tables
<1>7. /\ Tables(Leaves(e), Allocates(e), Takes(e))
      /\ isSafeState(t, q) <=> SafeAfter(e)
      BY <1>2, <1>4, <1>5, <1>6
<1> QED BY <1>7 DEF e

(* No request that a pass has put aside could be granted: granting another *)
(* one since has left less free, and has left no order that would serve    *)
(* this one where there was none.                                          *)
Passed ==
    /\ mpc \in {"first", "second"} =>
          \A i \in DOMAIN tempQueue : ~CanGrant(tempQueue[i])
    /\ mpc \in {"receive", "done"} =>
          \A i \in DOMAIN pendingQueue : ~CanGrant(pendingQueue[i])

(* What can be granted after a grant could have been granted before it     *)
(* (EarlierGrantSafe).                                                     *)
LEMMA GrantKeepsRefusal ==
    ASSUME Inv, Inv', NEW pass \in {"first", "second"}, GrantFirst(pass), Avoid' = Avoid,
           NEW i \in DOMAIN Waiting', CanGrant(Waiting[i])'
    PROVE  CanGrant(Waiting'[i])
<1> DEFINE e == Head(pendingQueue)
           t == e.thread
           q == e.resources
           f == Waiting'[i]
           u == f.thread
           p == f.resources
           m == Len(Waiting)
<1>1. /\ pendingQueue # <<>>
      /\ Leq(q, available)
      /\ available' = Sub(available, q)
      /\ allocation' = [allocation EXCEPT ![t] = Add(@, q)]
      /\ need' = [need EXCEPT ![t] = Sub(@, q)]
      /\ tpc' = [tpc EXCEPT ![t] = IF @ = "asleep" THEN "delay" ELSE @]
      /\ pendingQueue' = Tail(pendingQueue)
      /\ UNCHANGED <<requestQueue, tempQueue>>
      BY DEF GrantFirst, CanGrant
<1>2. /\ e = Waiting[1] /\ 1 \in DOMAIN Waiting
      /\ DOMAIN Waiting = 1..m /\ m \in Nat
      /\ DOMAIN Waiting' = 1..(m - 1)
      /\ \A k \in 1..(m - 1) : Waiting'[k] = Waiting[k + 1]
      BY <1>1, WaitingTaken DEF Inv
<1> HIDE DEF m
<1>3. i + 1 \in DOMAIN Waiting /\ i + 1 # 1 /\ f = Waiting[i + 1]
      BY <1>2
<1>4. /\ t \in Threads /\ q \in Counts /\ tpc[t] \in Blocked
      /\ u \in Threads /\ p \in Counts /\ u # t
  <2>1. \A k \in DOMAIN Waiting : Waiting[k].thread \in Threads
        BY Shapes DEF Inv, Requests
  <2> HIDE DEF e, f
  <2> QED BY <2>1, <1>2, <1>3 DEF Inv, Pending
<1>5. /\ available \in Counts /\ allocation \in [Threads -> Counts]
      /\ need \in [Threads -> Counts] /\ tpc = [x \in Threads |-> tpc[x]]
      BY Shapes DEF Inv
<1> HIDE DEF e, f
<1>6. Live' = Live /\ t \in Live
  <2>1. tpc'[t] # "done" /\ \A x \in Threads : x # t => tpc'[x] = tpc[x]
        BY <1>1, <1>4, <1>5 DEF Blocked
  <2> QED BY <2>1, <1>1, <1>4 DEF Live, Blocked
<1>7. /\ Leq(p, available')
      /\ Avoid => isSafeState(Waiting[i].thread, Waiting[i].resources)'
      BY DEF CanGrant, f
<1>8. Leq(p, available)
  <2>1. /\ available \in Vector /\ q \in Vector /\ p \in Vector /\ available' \in Vector
        /\ available' \in Counts
        BY <1>1, <1>4, <1>5, CountsAreVectors, VectorOps DEF Inv, TypeOK
  <2>2. \A r \in Resources : p[r] <= available'[r]
        BY <2>1, <1>7, VectorOps
  <2>3. \A r \in Resources : available'[r] = available[r] - q[r]
        BY <2>1, <1>1, VectorOps
  <2>4. \A r \in Resources : q[r] \in Nat /\ p[r] \in Nat /\ available[r] \in Nat
        BY <1>4, <1>5, ClaimsAssumption DEF Counts, ClaimsAssumption
  <2>5. \A r \in Resources : p[r] <= available[r]
        BY <2>2, <2>3, <2>4
  <2> QED BY <2>1, <2>5, VectorOps
<1>9. ASSUME Avoid PROVE SafeAfter(f)
  <2>1. GrantsFit'
        BY GrantFits, PTL
  <2>2. Leq(Waiting[i].resources, available)'
        BY <1>7 DEF f
  <2>3. /\ Tables(Leaves(Waiting[i]), Allocates(Waiting[i]), Takes(Waiting[i]))'
        /\ SafeAfter(Waiting[i])'
        BY <2>1, <2>2, <1>7, <1>9 DEF GrantsFit
  <2>4. /\ Sub(available', p) \in Counts
        /\ [allocation' EXCEPT ![u] = Add(@, p)] \in [Threads -> Counts]
        /\ [need' EXCEPT ![u] = Sub(@, p)] \in [Threads -> Counts]
        /\ SafeToGrant(Live, u, p, available', allocation', need')
        BY <2>3, <1>6 DEF Tables, SafeAfter, SafeToGrant, Leaves, Allocates, Takes, f
  <2>5. /\ Live \in SUBSET Threads
        /\ Grants(t, q, available, allocation, need, available', allocation', need')
        BY <1>1 DEF Live, Grants
  <2> HIDE DEF t, q, u, p
  <2>6. SafeToGrant(Live, u, p, available, allocation, need)
        BY <2>4, <2>5, <1>4, <1>5, <1>6, EarlierGrantSafe
  <2> QED BY <2>6 DEF SafeAfter, SafeToGrant, Leaves, Allocates, Takes, u, p
<1>10. isSafeState(u, p) <=> SafeAfter(f)
       BY <1>3, <1>8, GrantFits DEF GrantsFit
<1> QED BY <1>8, <1>9, <1>10 DEF CanGrant, f

(* Nothing is pending at the start. *)
LEMMA PassedInit == Init => Passed
<1> SUFFICES ASSUME Init PROVE Passed
    OBVIOUS
<1>1. DOMAIN pendingQueue = {}
      BY EmptySeq DEF Init
<1> QED BY <1>1 DEF Init, Passed

(* The passes put aside only what cannot be granted, and between them      *)
(* nothing is given back.                                                  *)
LEMMA PassedNext == Inv /\ Inv' /\ Passed /\ [Next]_vars => Passed'
<1> SUFFICES ASSUME Inv, Inv', Passed, [Next]_vars PROVE Passed'
    OBVIOUS
<1>0. /\ pendingQueue \in Seq(Requests) /\ tempQueue \in Seq(Requests)
      /\ Len(tempQueue) \in Nat /\ DOMAIN tempQueue = 1..Len(tempQueue)
      /\ Avoid' = Avoid
  <2>1. Avoid' = Avoid
        BY DEF Next, Master, UserStep, vars
  <2> QED BY <2>1, Shapes DEF Inv
<1>1. ASSUME UNCHANGED tables, NEW e, CanGrant(e)' PROVE CanGrant(e)
      BY <1>0, <1>1 DEF CanGrant, isSafeState, tables
<1>2. ASSUME UNCHANGED <<tables, pendingQueue, tempQueue>>, mpc' = mpc \/ mpc' = "overflow"
      PROVE  Passed'
      BY <1>0, <1>2 DEF Passed, CanGrant, isSafeState, tables
<1>3. CASE ReceiveQuit \/ ReceiveRelease \/ ReceiveAdditional
  <2>1. mpc = "receive" /\ tempQueue' = tempQueue
        BY <1>3 DEF ReceiveQuit, ReceiveRelease, ReceiveAdditional
  <2>2. tempQueue = <<>> /\ DOMAIN tempQueue = {}
        BY <2>1, EmptySeq DEF Inv, Rounds
  <2>3. mpc' \in {"first", "second"} \/ (pendingQueue' = pendingQueue /\ Len(pendingQueue) <= 0)
    <3>1. Len(pendingQueue) \in Nat
          BY <1>0, LenProperties
    <3> QED BY <3>1, <1>3 DEF ReceiveQuit, ReceiveRelease, ReceiveAdditional, AfterBooking
  <2>4. Len(pendingQueue) <= 0 => DOMAIN pendingQueue = {}
        BY <1>0, LenProperties
  <2>5. mpc' \in {"first", "second", "receive", "done"}
        BY <1>3 DEF ReceiveQuit, ReceiveRelease, ReceiveAdditional, AfterBooking
  <2> QED BY <2>1, <2>2, <2>3, <2>4, <2>5 DEF Passed
<1>4. ASSUME NEW pass \in {"first", "second"}, GrantFirst(pass)
      PROVE  Passed'
  <2>1. /\ mpc = pass /\ mpc' = mpc /\ tempQueue' = tempQueue
        /\ pendingQueue # <<>> /\ pendingQueue' = Tail(pendingQueue)
        BY <1>4 DEF GrantFirst
  <2> DEFINE n == Len(pendingQueue')
  <2>2. /\ n \in Nat
        /\ \A i \in 1..Len(tempQueue) : n + i \in DOMAIN Waiting' /\ Waiting'[n + i] = tempQueue[i]
    <3>1. pendingQueue' \in Seq(Requests) /\ Waiting' = pendingQueue' \o tempQueue
          BY <2>1, <1>0, EntryTaken DEF Waiting
    <3>2. /\ n \in Nat
          /\ DOMAIN Waiting' = 1..Len(Waiting')
          /\ Len(Waiting') = n + Len(tempQueue)
          /\ \A i \in 1..(n + Len(tempQueue)) :
                Waiting'[i] = IF i <= n THEN pendingQueue'[i] ELSE tempQueue[i - n]
          BY <3>1, <1>0, LenProperties, ConcatProperties
    <3> HIDE DEF n
    <3>3. \A i \in 1..Len(tempQueue) : /\ n + i \in 1..Len(Waiting') /\ ~(n + i <= n)
                                       /\ (n + i) - n = i
          BY <3>2, <1>0
    <3> QED BY <3>2, <3>3
  <2> HIDE DEF n
  <2>3. ASSUME NEW i \in DOMAIN tempQueue PROVE ~CanGrant(tempQueue[i])'
    <3>1. PICK k \in DOMAIN Waiting' : Waiting'[k] = tempQueue[i]
          BY <2>2, <1>0
    <3>2. ~CanGrant(Waiting'[k])
          BY <3>1, <2>1 DEF Passed
    <3>3. CanGrant(Waiting[k])' => CanGrant(Waiting'[k])
          BY <3>1, <1>0, <1>4, GrantKeepsRefusal
    <3>4. CanGrant(tempQueue[i])' => CanGrant(Waiting[k])'
          BY <3>1, <2>1 DEF CanGrant, isSafeState
    <3> QED BY <3>2, <3>3, <3>4
  <2> QED BY <2>1, <2>3 DEF Passed
<1>5. ASSUME NEW pass \in {"first", "second"}, DeferFirst(pass)
      PROVE  Passed'
  <2>1. /\ mpc = pass /\ mpc' = mpc /\ UNCHANGED tables
        /\ pendingQueue # <<>> /\ ~CanGrant(Head(pendingQueue))
        /\ tempQueue' = Append(tempQueue, Head(pendingQueue))
        BY <1>5 DEF DeferFirst
  <2>2. Head(pendingQueue) \in Requests
        BY <2>1, <1>0, EntryTaken
  <2>3. /\ DOMAIN tempQueue' = 1..(Len(tempQueue) + 1)
        /\ \A i \in 1..Len(tempQueue) : tempQueue'[i] = tempQueue[i]
        /\ tempQueue'[Len(tempQueue) + 1] = Head(pendingQueue)
        BY <2>1, <2>2, <1>0, EntryAdded
  <2>4. \A i \in 1..(Len(tempQueue) + 1) : i \in 1..Len(tempQueue) \/ i = Len(tempQueue) + 1
        BY <1>0
  <2>5. \A i \in DOMAIN tempQueue' : ~CanGrant(tempQueue'[i])
        BY <2>1, <2>3, <2>4, <1>0 DEF Passed
  <2> QED BY <2>1, <2>5, <1>0 DEF Passed, CanGrant, isSafeState, tables
<1>6. ASSUME NEW pass \in {"first", "second"}, EndPass(pass)
      PROVE  Passed'
  <2>1. /\ mpc = pass /\ UNCHANGED tables /\ pendingQueue' = tempQueue /\ tempQueue' = <<>>
        BY <1>6 DEF EndPass
  <2>2. DOMAIN tempQueue' = {}
        BY <2>1, EmptySeq
  <2>3. \A i \in DOMAIN pendingQueue' : ~CanGrant(pendingQueue'[i])
        BY <2>1 DEF Passed
  <2> QED BY <2>1, <2>2, <2>3, <1>0 DEF Passed, CanGrant, isSafeState, tables
<1>7. CASE \E t \in Threads : UserStep(t)
  <2>1. /\ UNCHANGED <<tables, pendingQueue, tempQueue>>
        /\ mpc' = mpc \/ mpc' = "overflow"
        BY <1>7 DEF UserStep, SendR, SendQ, Send, Overflow, Sleep
  <2> QED BY <1>2, <2>1
<1>8. CASE UNCHANGED vars
      BY <1>2, <1>8 DEF vars, tables
<1> QED BY <1>3, <1>4, <1>5, <1>6, <1>7, <1>8 DEF Next, Master

-----------------------------------------------------------------------------
(* Why a session hangs *)

(* What the banker's threads wait for is what they have pending. *)
LEMMA WaitsAre ==
    /\ [t \in Threads |-> PendingOf(t)] = WaitsIn(Waiting)
    /\ [t \in Threads |-> PendingOf(t)]' = WaitsIn(Waiting)'
BY DEF WaitsIn, PendingOf, IsPending

(* The master's books, and what its threads wait for, as a banker keeps     *)
(* them.                                                                   *)
InOrder == BankersBooks(Live, available, allocation, need, WaitsIn(Waiting))

(* They are in order at the start, ... *)
LEMMA InOrderInit == Init => InOrder
<1> SUFFICES ASSUME Banker!Init PROVE InOrder
    BY BankerInit
<1> QED BY BooksOpen, SameOperators, WaitsAre DEF Banker!Init, InOrder

(* ... and under avoidance every step is one of the banker's, who keeps    *)
(* them in order.                                                          *)
LEMMA InOrderNext ==
    InOrder /\ Avoid /\ [Avoid => Banker!Next]_(Banker!vars) => InOrder'
<1> SUFFICES ASSUME InOrder, [Banker!Next]_(Banker!vars) PROVE InOrder'
    OBVIOUS
<1> DEFINE waits == WaitsIn(Waiting)
<1> USE SameOperators
<1>1. ASSUME NEW t \in Threads, NEW back \in Counts, NEW want \in Counts,
             Banker!Request(t, back, want)
      PROVE  InOrder'
  <2>1. /\ t \in Live /\ Leq(back, allocation[t]) /\ Leq(want, need[t])
        /\ available' = Add(available, back)
        /\ allocation' = [allocation EXCEPT ![t] = Sub(@, back)]
        /\ need' = [need EXCEPT ![t] = Add(@, back)]
        /\ waits' = [waits EXCEPT ![t] = IF IsZero(want) THEN None ELSE want]
        /\ Live' = Live
        BY <1>1, WaitsAre DEF Banker!Request
  <2>2. BankersBooks(Live, available, allocation, need, waits)
        BY DEF InOrder
  <2> HIDE DEF waits
  <2>3. BankersBooks(Live', available', allocation', need', waits')
        BY <2>1, <2>2, BooksOfRequest
  <2> QED BY <2>3 DEF InOrder, waits
<1>2. ASSUME NEW t \in Threads, Banker!Grant(t) PROVE InOrder'
  <2>1. /\ t \in Live /\ waits[t] # None
        /\ Safe(Live, Sub(available, waits[t]), [allocation EXCEPT ![t] = Add(@, waits[t])],
                [need EXCEPT ![t] = Sub(@, waits[t])])
        /\ available' = Sub(available, waits[t])
        /\ allocation' = [allocation EXCEPT ![t] = Add(@, waits[t])]
        /\ need' = [need EXCEPT ![t] = Sub(@, waits[t])]
        /\ waits' = [waits EXCEPT ![t] = None]
        /\ Live' = Live
        BY <1>2, SameSafe, WaitsAre DEF Banker!Grant, Banker!Grantable
  <2>2. BankersBooks(Live, available, allocation, need, waits)
        BY DEF InOrder
  <2> HIDE DEF waits
  <2>3. BankersBooks(Live', available', allocation', need', waits')
        BY <2>1, <2>2, BooksOfGrant
  <2> QED BY <2>3 DEF InOrder, waits
<1>3. ASSUME NEW t \in Threads, Banker!Quit(t) PROVE InOrder'
  <2>1. /\ t \in Live
        /\ available' = Add(available, allocation[t])
        /\ allocation' = [allocation EXCEPT ![t] = Zero]
        /\ need' = [need EXCEPT ![t] = Zero]
        /\ waits' = waits
        /\ Live' = Live \ {t}
        BY <1>3, WaitsAre DEF Banker!Quit
  <2>2. BankersBooks(Live, available, allocation, need, waits)
        BY DEF InOrder
  <2> HIDE DEF waits
  <2>3. BankersBooks(Live', available', allocation', need', waits')
        BY <2>1, <2>2, BooksOfQuit
  <2> QED BY <2>3 DEF InOrder, waits
<1>4. CASE UNCHANGED Banker!vars
  <2>1. /\ available' = available /\ allocation' = allocation /\ need' = need
        /\ waits' = waits /\ Live' = Live
        BY <1>4, WaitsAre DEF Banker!vars
  <2>2. BankersBooks(Live, available, allocation, need, waits)
        BY DEF InOrder
  <2> HIDE DEF waits
  <2>3. BankersBooks(Live', available', allocation', need', waits')
        BY <2>1, <2>2
  <2> QED BY <2>3 DEF InOrder, waits
<1> QED BY <1>1, <1>2, <1>3, <1>4 DEF Banker!Next

(* The books stay in order. *)
LEMMA InOrderAlways == Spec => [](Avoid => InOrder)
<1>1. Init => (Avoid => InOrder)
      BY InOrderInit
<1>2. Inv /\ Inv' /\ (Avoid => InOrder) /\ [Next]_vars => (Avoid => InOrder)'
  <2>1. [Next]_vars => Avoid' = Avoid
        BY DEF Next, Master, UserStep, vars
  <2> QED BY <2>1, BankerNext, InOrderNext
<1> QED BY <1>1, <1>2, Invariance, PTL DEF Spec

(* Under avoidance the live threads can always finish one after the other, *)
(* whatever requests come in and are granted.                              *)
AlwaysSafe == Avoid => Safe(Live, available, allocation, need)

THEOREM SafetyKept == Spec => []AlwaysSafe
<1>1. (Avoid => InOrder) => AlwaysSafe
      BY DEF InOrder, BankersBooks, AlwaysSafe
<1> QED BY <1>1, InOrderAlways, PTL

(* The master waits for a request only while there is somebody to make it. *)
Attended == mpc = "receive" => Live # {}

(* The master counts the threads that have quit and stops at the last.     *)
LEMMA AttendedNext == Inv /\ Inv' /\ Attended /\ [Next]_vars => Attended'
<1> SUFFICES ASSUME Inv, Inv', Attended, [Next]_vars, mpc' = "receive" PROVE Live' # {}
    BY DEF Attended
<1>1. activeThreads' > 0 => Live' # {}
  <2>1. Cardinality({}) = 0
        BY FS_EmptySet
  <2> QED BY <2>1 DEF Inv, Rounds
<1>2. CASE mpc = "receive" /\ activeThreads' = activeThreads
  <2>1. activeThreads \in Nat /\ activeThreads > 0
    <3>1. IsFiniteSet(Live) /\ Cardinality(Live) \in Nat
          BY LiveCounted
    <3>2. Cardinality(Live) # 0
          BY <3>1, <1>2, FS_EmptySet DEF Attended
    <3> QED BY <3>1, <3>2 DEF Inv, Rounds
  <2> QED BY <2>1, <1>1, <1>2
<1>3. CASE ReceiveQuit \/ ReceiveRelease \/ ReceiveAdditional
      BY <1>1, <1>3 DEF ReceiveQuit, ReceiveRelease, ReceiveAdditional, AfterBooking
<1>4. ASSUME NEW pass \in {"first", "second"},
             GrantFirst(pass) \/ DeferFirst(pass) \/ EndPass(pass)
      PROVE  Live' # {}
      BY <1>1, <1>4 DEF GrantFirst, DeferFirst, EndPass, AfterBooking
<1>5. CASE \E t \in Threads : UserStep(t)
      BY <1>2, <1>5 DEF UserStep, SendR, SendQ, Send, Overflow, Sleep
<1>6. CASE UNCHANGED vars
      BY <1>2, <1>6 DEF vars
<1> QED BY <1>3, <1>4, <1>5, <1>6 DEF Next, Master

(* While the master waits for a request only those waiting can be pending. *)
LEMMA AtReceive ==
    ASSUME Inv, mpc = "receive"
    PROVE  Waiting = pendingQueue
<1>1. tempQueue = <<>> /\ pendingQueue \in Seq(Requests)
      BY Shapes DEF Inv, Rounds
<1> QED BY <1>1, ConcatEmptySeq DEF Waiting

(* What is pending of a thread that has a pending request. *)
LEMMA PendingIs ==
    ASSUME Inv, NEW t \in Threads, NEW i \in DOMAIN Waiting, Waiting[i].thread = t
    PROVE  PendingOf(t) = Waiting[i].resources /\ PendingOf(t) # None
<1>1. WaitsIn(Waiting)[t] = Waiting[i].resources
      BY PendingOnce, WaitsFor
<1>2. WaitsIn(Waiting)[t] = PendingOf(t)
      BY DEF WaitsIn, PendingOf, IsPending
<1>3. Waiting[i].resources \in Counts
      BY DEF Inv, Pending
<1> QED BY <1>1, <1>2, <1>3, ClaimsAssumption DEF ClaimsAssumption, Counts

(* Under avoidance, when the master waits for a request there is a live    *)
(* thread that is not pending, and that could make it.                     *)
SomeoneFree == Avoid /\ mpc = "receive" => \E t \in Live : ~IsPending(t)

(* If all were pending, the banker's first in order could be granted; but  *)
(* both passes have refused it.                                            *)
LEMMA FreeIfSafe == Inv /\ Passed /\ Attended /\ (Avoid => InOrder) => SomeoneFree
<1> SUFFICES ASSUME Inv, Passed, Attended, InOrder, Avoid, mpc = "receive",
                    \A t \in Live : IsPending(t)
             PROVE  FALSE
    BY DEF SomeoneFree
<1> DEFINE waits == WaitsIn(Waiting)
<1>1. ASSUME NEW t \in Live
      PROVE  /\ t \in Threads
             /\ \E i \in DOMAIN Waiting : Waiting[i].thread = t
                                          /\ waits[t] = Waiting[i].resources
             /\ waits[t] # None
  <2>1. t \in Threads /\ waits[t] = PendingOf(t)
        BY DEF Live, WaitsIn, PendingOf, IsPending
  <2>2. PICK i \in DOMAIN Waiting : Waiting[i].thread = t
        BY DEF IsPending
  <2> HIDE DEF waits
  <2> QED BY <2>1, <2>2, PendingIs
<1>2. PICK t \in Live :
           /\ Leq(waits[t], available)
           /\ Safe(Live, Sub(available, waits[t]),
                   [allocation EXCEPT ![t] = Add(@, waits[t])],
                   [need EXCEPT ![t] = Sub(@, waits[t])])
  <2>1. BankersBooks(Live, available, allocation, need, waits)
        BY DEF InOrder
  <2>2. (\A t \in Live : waits[t] # None) /\ Live # {}
        BY <1>1 DEF Attended
  <2> HIDE DEF waits
  <2> QED BY <2>1, <2>2, BooksProceed
<1>3. PICK i \in DOMAIN Waiting : Waiting[i].thread = t /\ waits[t] = Waiting[i].resources
      BY <1>1
<1>4. Leq(Waiting[i].resources, available) /\ SafeAfter(Waiting[i])
  <2> HIDE DEF waits
  <2> QED BY <1>2, <1>3 DEF SafeAfter, Leaves, Allocates, Takes
<1>5. CanGrant(Waiting[i])
      BY <1>4, GrantFits DEF GrantsFit, CanGrant
<1> QED BY <1>5, AtReceive DEF Passed

(* When a session hangs every live thread is asleep. *)
LEMMA HangsAsleep ==
    ASSUME Inv, Hangs, NEW t \in Live
    PROVE  t \in Threads /\ tpc[t] = "asleep"
<1>1. DOMAIN requestQueue = {}
      BY EmptySeq DEF Hangs
<1> QED BY <1>1 DEF Hangs, Live

(* Without avoidance a session hangs in a deadlock, or for a lost wakeup:  *)
(* the thread that could finish first would have been granted its request. *)
LEMMA DeadlockIsReal ==
    ASSUME Inv, Passed, Attended, Hangs, ~Avoid, \A t \in Live : IsPending(t)
    PROVE  ~issafe(Live, available, allocation, need)
<1> SUFFICES ASSUME issafe(Live, available, allocation, need) PROVE FALSE
    OBVIOUS
<1> DEFINE N == Cardinality(Live)
<1>1. /\ IsFiniteSet(Threads) /\ IsFiniteSet(Live) /\ Live \in SUBSET Threads
      /\ Live \in SUBSET Live /\ Threads \in SUBSET Threads /\ Total \in Counts
      BY ClaimsAssumption, LiveCounted DEF ClaimsAssumption, Live
<1>2. /\ available \in Counts /\ allocation \in [Threads -> Counts]
      /\ need \in [Threads -> Counts]
      /\ Work(available, allocation, Threads) = Total
      /\ \A u \in Threads \ Live : allocation[u] = Zero
      BY DEF Inv, Books, Tables
<1>3. Work(available, allocation, Live) \in Counts
  <2>1. Work(available, allocation, Threads) = Work(available, allocation, Live)
        BY <1>1, <1>2, WorkSkipsQuit
  <2> QED BY <2>1, <1>1, <1>2
<1>4. Safe(Live, available, allocation, need)
  <2>1. \A t \in Live \ Live : allocation[t] = Zero
        OBVIOUS
  <2> QED BY <2>1, <1>1, <1>2, <1>3, SafetyCheckSound
<1>5. N \in Nat /\ 1 \in 1..N
  <2>1. N \in Nat /\ N # 0
        BY <1>1, LiveCounted, FS_EmptySet DEF Attended, Hangs
  <2> HIDE DEF N
  <2> QED BY <2>1
<1>6. PICK t \in Live : Leq(need[t], available)
  <2>1. PICK order \in Orders(Live), work \in [1..(N + 1) -> Counts] :
                FinishInOrder(Live, available, allocation, need, order, work)
        BY <1>4 DEF Safe
  <2>2. order[1] \in Live
        BY <1>5 DEF Orders
  <2>3. work[1] = available /\ Leq(need[order[1]], work[1])
        BY <2>1, <1>5 DEF FinishInOrder
  <2> QED BY <2>2, <2>3
<1>7. PICK i \in DOMAIN Waiting : Waiting[i].thread = t
      BY DEF IsPending
<1>8. /\ Waiting[i].resources \in Counts /\ Leq(Waiting[i].resources, need[t])
      /\ t \in Threads /\ need[t] \in Counts
      BY <1>1, <1>2, <1>7 DEF Inv, Pending
<1>9. Leq(Waiting[i].resources, available)
      BY <1>2, <1>6, <1>8, CountsAreVectors, LeqOrder
<1> QED BY <1>9, AtReceive DEF Passed, CanGrant, Hangs

(* Put together: the master has refused all that is pending, and if every  *)
(* live thread is asleep and pending, the deadlock is real.                *)
LEMMA Explained == Inv /\ Passed /\ Attended /\ SomeoneFree => WaitingExplained
<1> SUFFICES ASSUME Inv, Passed, Attended, SomeoneFree PROVE WaitingExplained
    OBVIOUS
<1>1. mpc = "receive" => \A i \in DOMAIN pendingQueue : ~CanGrant(pendingQueue[i])
      BY DEF Passed
<1>2. ASSUME Hangs, \A t \in Live : IsPending(t)
      PROVE  ~Avoid /\ ~issafe(Live, available, allocation, need)
      BY <1>2, DeadlockIsReal DEF SomeoneFree, Hangs
<1>3. Hangs => \A t \in Live : tpc[t] = "asleep"
      BY HangsAsleep
<1> QED BY <1>1, <1>2, <1>3 DEF WaitingExplained

(* Two passes over the pending requests are enough, and a session hangs in *)
(* a real deadlock, which avoidance excludes, or for a lost wakeup.        *)
THEOREM WaitingIsExplained == Spec => []WaitingExplained
<1>1. Init => Attended
      BY ManagerAssumption, SessionAssumption DEF ManagerAssumption, SessionAssumption, Init, Attended, Live
<1> QED BY <1>1, Invariance, InOrderAlways, PassedInit, PassedNext, AttendedNext,
           FreeIfSafe, Explained, PTL DEF Spec

-----------------------------------------------------------------------------
(* The inductive invariant *)

Posting  == {"quitting", "releasing", "asking"}
Acking   == {"quitAcked", "releaseAcked", "askAcked"}
Sleeping == {"askAcked", "toSleep", "asleep"}

(* Who holds rmtx and the mutexes cmtx. *)
Locks ==
    /\ \A t \in Threads : tpc[t] \in Posting \cup Acking <=> rmtx = t
    /\ \A t \in Threads : t \in cmtx <=>
          tpc[t] \in {"asking", "releasing", "askAcked", "releaseAcked", "toSleep"}

(* What a thread at the barrier has posted is still there, and fits.       *)
Posted ==
    \A t \in Threads : tpc[t] \in Posting =>
        /\ reqfrom = t
        /\ reqtype = IF tpc[t] = "quitting" THEN "Q" ELSE "R"
        /\ tpc[t] = "asking" => ~IsZero(Wanted(REQ))
        /\ tpc[t] = "releasing" => IsZero(Wanted(REQ))
        /\ tpc[t] # "quitting" => /\ Leq(Returned(REQ), ALLOC[t])
                                  /\ Leq(Wanted(REQ), NEED[t])

Exits == \A t \in Threads : t \in exited <=> tpc[t] \in {"quitAcked", "done"}

(* A thread is queued at most once, for what its claim leaves it, and it   *)
(* is asleep or about to be.                                               *)
Queue ==
    /\ \A i, j \in DOMAIN Q : Q[i].from = Q[j].from => i = j
    /\ \A i \in DOMAIN Q : /\ tpc[Q[i].from] \in Sleeping
                           /\ ~IsZero(Q[i].request)
                           /\ Leq(Q[i].request, NEED[Q[i].from])

(* No wakeup is lost: a thread that sleeps, or is about to, is queued or   *)
(* the one that the master is about to signal.                             *)
Sleepers ==
    /\ \A t \in Threads : tpc[t] \in Sleeping =>
          \/ \E i \in DOMAIN Q : Q[i].from = t
          \/ mpc = "signal" /\ granted = t
    /\ mpc = "signal" => /\ granted \in Threads /\ tpc[granted] \in Sleeping
                         /\ \A i \in DOMAIN Q : Q[i].from # granted

(* Nothing is lost, and a thread's script agrees with the tables.          *)
SBooks ==
    /\ Work(AVAILABLE, ALLOC, Threads) = Total
    /\ \A t \in SLive : Add(ALLOC[t], NEED[t]) = maxNeed[t]
    /\ \A t \in exited : ALLOC[t] = Zero

SScripts ==
    /\ \A i \in DOMAIN Q : held[Q[i].from] = Add(ALLOC[Q[i].from], Q[i].request)
    /\ \A t \in SLive : (\A i \in DOMAIN Q : Q[i].from # t) =>
          held[t] = IF tpc[t] \in {"asking", "releasing"} THEN Add(ALLOC[t], REQ)
                    ELSE ALLOC[t]

SInv == STypeOK /\ Locks /\ Posted /\ Exits /\ Queue /\ Sleepers /\ SBooks /\ SScripts

-----------------------------------------------------------------------------
(* The queue *)

(* A queue is a function on its positions; an entry goes to the end of it, *)
LEMMA SEntryAdded ==
    ASSUME NEW S, NEW s \in Seq(S), NEW e \in S
    PROVE  /\ Append(s, e) \in Seq(S)
           /\ Len(s) \in Nat /\ DOMAIN s = 1..Len(s)
           /\ DOMAIN Append(s, e) = 1..(Len(s) + 1)
           /\ \A i \in 1..Len(s) : Append(s, e)[i] = s[i]
           /\ Append(s, e)[Len(s) + 1] = e
<1>1. /\ Append(s, e) \in Seq(S) /\ Len(Append(s, e)) = Len(s) + 1
      /\ \A i \in 1..Len(s) : Append(s, e)[i] = s[i]
      /\ Append(s, e)[Len(s) + 1] = e
      BY AppendProperties
<1> QED BY <1>1, LenProperties

(* and when one is unlinked those behind it close up.                      *)
LEMMA EntryRemoved ==
    ASSUME NEW S, NEW s \in Seq(S), NEW k \in 1..Len(s)
    PROVE  /\ RemoveAt(s, k) \in Seq(S)
           /\ Len(s) \in Nat /\ DOMAIN s = 1..Len(s)
           /\ Len(RemoveAt(s, k)) = Len(s) - 1
           /\ DOMAIN RemoveAt(s, k) = 1..(Len(s) - 1)
           /\ \A i \in 1..(Len(s) - 1) :
                 RemoveAt(s, k)[i] = IF i < k THEN s[i] ELSE s[i + 1]
<1> DEFINE a == SubSeq(s, 1, k - 1)
           b == SubSeq(s, k + 1, Len(s))
<1>1. /\ Len(s) \in Nat /\ DOMAIN s = 1..Len(s) /\ \A i \in 1..Len(s) : s[i] \in S
      BY LenProperties, ElementOfSeq
<1>2. /\ a \in Seq(S) /\ Len(a) = k - 1 /\ \A i \in 1..(k - 1) : a[i] = s[i]
  <2>1. /\ SubSeq(s, 1, k - 1) \in Seq(S)
        /\ Len(SubSeq(s, 1, k - 1)) = IF 1 <= k - 1 THEN (k - 1) - 1 + 1 ELSE 0
        /\ \A i \in 1..((k - 1) - 1 + 1) : SubSeq(s, 1, k - 1)[i] = s[1 + i - 1]
    <3>1. 1 \in Int /\ k - 1 \in Int /\ \A i \in 1..(k - 1) : s[i] \in S
          BY <1>1
    <3> QED BY <3>1, SubSeqProperties
  <2> QED BY <2>1, <1>1
<1>3. /\ b \in Seq(S) /\ Len(b) = Len(s) - k
      /\ \A i \in 1..(Len(s) - k) : b[i] = s[k + i]
  <2>1. /\ SubSeq(s, k + 1, Len(s)) \in Seq(S)
        /\ Len(SubSeq(s, k + 1, Len(s)))
              = IF k + 1 <= Len(s) THEN Len(s) - (k + 1) + 1 ELSE 0
        /\ \A i \in 1..(Len(s) - (k + 1) + 1) :
              SubSeq(s, k + 1, Len(s))[i] = s[k + 1 + i - 1]
    <3>1. k + 1 \in Int /\ Len(s) \in Int /\ \A i \in (k + 1)..Len(s) : s[i] \in S
          BY <1>1
    <3> QED BY <3>1, SubSeqProperties
  <2> QED BY <2>1, <1>1
<1>4. RemoveAt(s, k) = a \o b
      BY DEF RemoveAt
<1> HIDE DEF a, b
<1>5. /\ a \o b \in Seq(S) /\ Len(a \o b) = Len(a) + Len(b)
      /\ \A i \in 1..(Len(a) + Len(b)) :
            (a \o b)[i] = IF i <= Len(a) THEN a[i] ELSE b[i - Len(a)]
      BY <1>2, <1>3, ConcatProperties
<1>6. DOMAIN (a \o b) = 1..(Len(s) - 1)
  <2>1. DOMAIN (a \o b) = 1..Len(a \o b)
        BY <1>5, LenProperties
  <2> QED BY <2>1, <1>1, <1>2, <1>3, <1>5
<1>7. ASSUME NEW i \in 1..(Len(s) - 1)
      PROVE  (a \o b)[i] = IF i < k THEN s[i] ELSE s[i + 1]
  <2>1. i \in 1..(Len(a) + Len(b))
        BY <1>1, <1>2, <1>3
  <2>2. (a \o b)[i] = IF i <= Len(a) THEN a[i] ELSE b[i - Len(a)]
        BY <1>5, <2>1
  <2>3. CASE i < k
        BY <2>2, <2>3, <1>1, <1>2
  <2>4. CASE ~(i < k)
    <3>1. b[i - (k - 1)] = s[k + (i - (k - 1))]
          BY <2>4, <1>1, <1>3
    <3> QED BY <3>1, <2>2, <2>4, <1>1, <1>2
  <2> QED BY <2>3, <2>4
<1>8. a \o b \in Seq(S) /\ Len(a \o b) = Len(s) - 1
      BY <1>1, <1>2, <1>3, <1>5
<1> QED BY <1>1, <1>4, <1>6, <1>7, <1>8

-----------------------------------------------------------------------------
(* Every step keeps the invariant *)

(* At the start nobody holds anything and nobody waits. *)
LEMMA SInvInit == SInit => SInv
<1> SUFFICES ASSUME SInit PROVE SInv
    OBVIOUS
<1> USE ClaimsAssumption, SolutionAssumption, SessionAssumption, CountsAreVectors
    DEF ClaimsAssumption, SolutionAssumption, SessionAssumption, SInit
<1>1. Zero \in Counts /\ Zero \in [Resources -> -Cap..Cap]
      BY DEF Zero, Counts
<1>2. STypeOK
  <2>1. Q \in Seq([from : Threads, request : Counts]) /\ at \in 1..(Len(Q) + 1)
        BY EmptySeq
  <2> QED BY <1>1, <2>1 DEF STypeOK
<1>3. DOMAIN Q = {}
      BY EmptySeq, LenProperties
<1>4. Locks /\ Posted /\ Exits /\ Queue /\ Sleepers /\ SScripts
      BY <1>3 DEF Locks, Posted, Exits, Queue, Sleepers, SScripts, SLive, Posting,
                  Acking, Sleeping
<1>5. SBooks
  <2>1. ASSUME NEW t \in Threads PROVE Add(Zero, maxNeed[t]) = maxNeed[t]
    <3>1. maxNeed[t] \in Vector /\ Zero \in Vector
          OBVIOUS
    <3>2. \A r \in Resources : Zero[r] = 0 /\ maxNeed[t][r] \in Int
          BY <3>1 DEF Zero, Vector
    <3>3. /\ Add(Zero, maxNeed[t]) \in Vector
          /\ \A r \in Resources : Add(Zero, maxNeed[t])[r] = Zero[r] + maxNeed[t][r]
          BY <3>1, VectorOps
    <3>4. \A r \in Resources : Add(Zero, maxNeed[t])[r] = maxNeed[t][r]
          BY <3>2, <3>3
    <3> QED BY <3>1, <3>3, <3>4, VectorEq
  <2> QED BY <2>1, WorkStarts DEF SBooks, SLive
<1> QED BY <1>2, <1>4, <1>5 DEF SInv

(* What the shape of the state says of the tables, the queue and the steps *)
(* of the threads.                                                         *)
Entries == [from : Threads, request : Counts]

(* (The types of STypeOK, in the form in which the provers use them.)      *)
LEMMA SShapes ==
    ASSUME STypeOK
    PROVE  /\ DOMAIN tpc = Threads /\ tpc = [u \in Threads |-> tpc[u]]
           /\ DOMAIN ALLOC = Threads /\ \A u \in Threads : ALLOC[u] \in Counts
           /\ DOMAIN NEED = Threads /\ \A u \in Threads : NEED[u] \in Counts
           /\ \A u \in Threads : held[u] \in Counts /\ maxNeed[u] \in Counts
           /\ Q \in Seq(Entries) /\ Len(Q) \in Nat /\ DOMAIN Q = 1..Len(Q)
           /\ \A i \in DOMAIN Q : Q[i].from \in Threads /\ Q[i].request \in Counts
<1>1. Q \in Seq(Entries)
      BY DEF STypeOK, Entries
<1>2. Len(Q) \in Nat /\ DOMAIN Q = 1..Len(Q) /\ \A i \in 1..Len(Q) : Q[i] \in Entries
      BY <1>1, LenProperties, ElementOfSeq
<1>3. \A i \in DOMAIN Q : Q[i].from \in Threads /\ Q[i].request \in Counts
      BY <1>2 DEF Entries
<1>4. DOMAIN tpc = Threads /\ tpc = [u \in Threads |-> tpc[u]]
      BY DEF STypeOK
<1>5. /\ DOMAIN ALLOC = Threads /\ \A u \in Threads : ALLOC[u] \in Counts
      /\ DOMAIN NEED = Threads /\ \A u \in Threads : NEED[u] \in Counts
      /\ \A u \in Threads : held[u] \in Counts /\ maxNeed[u] \in Counts
      BY ClaimsAssumption DEF STypeOK, ClaimsAssumption
<1> QED BY <1>1, <1>2, <1>3, <1>4, <1>5

(* A thread posts its QUIT. *)
LEMMA PostQuitKeeps ==
    ASSUME SInv, NEW t \in Threads, PostQuit(t)
    PROVE  SInv'
<1> USE SolutionAssumption, SessionAssumption DEF SolutionAssumption, SessionAssumption, SInv, PostQuit, ThreadGoes, sTables, script
<1>1. STypeOK'
      BY DEF STypeOK
<1>2. DOMAIN tpc = Threads /\ tpc = [u \in Threads |-> tpc[u]]
      BY SShapes
<1>3. /\ tpc[t] = "delay" /\ tpc'[t] = "quitting"
      /\ \A u \in Threads : u # t => tpc'[u] = tpc[u]
      BY <1>2
<1>4. \A i \in DOMAIN Q : Q[i].from \in Threads
      BY SShapes
<1>5. Locks' /\ Posted'
      BY <1>3 DEF Locks, Posted, Posting, Acking
<1>6. Exits' /\ SBooks'
      BY <1>3 DEF Exits, SBooks, SLive
<1>7. Queue' /\ Sleepers'
      BY <1>3, <1>4 DEF Queue, Sleepers, Sleeping, STypeOK
<1>8. SScripts'
      BY <1>3, <1>4 DEF SScripts, SLive
<1> QED BY <1>1, <1>5, <1>6, <1>7, <1>8

(* A thread posts a request that its script allows. *)
LEMMA PostRequestKeeps ==
    ASSUME SInv, NEW t \in Threads, NEW q \in ScriptRequests(held[t], maxNeed[t]),
           PostRequest(t, q)
    PROVE  SInv'
<1> USE SolutionAssumption, SessionAssumption DEF SolutionAssumption, SessionAssumption, SInv, PostRequest, ThreadGoes, sTables, script
<1>1. held \in [Threads -> Counts] /\ sent \in [Threads -> 0..MaxRequests]
      BY DEF STypeOK
<1>2. /\ DOMAIN tpc = Threads /\ tpc = [u \in Threads |-> tpc[u]]
      /\ ALLOC[t] \in Counts /\ NEED[t] \in Counts /\ maxNeed[t] \in Counts
      BY SShapes
<1>3. /\ tpc[t] = "delay" /\ tpc'[t] \in {"releasing", "asking"}
      /\ tpc'[t] = "releasing" <=> IsZero(Wanted(q))
      /\ \A u \in Threads : u # t => tpc'[u] = tpc[u]
      BY <1>2
<1>4. \A i \in DOMAIN Q : Q[i].from \in Threads /\ Q[i].from # t
      BY <1>3, SShapes DEF Queue, Sleeping
<1>5. t \in SLive
      BY <1>3 DEF Exits, SLive
<1>6. held[t] = ALLOC[t] /\ maxNeed[t] = Add(ALLOC[t], NEED[t])
      BY <1>3, <1>4, <1>5 DEF SScripts, SBooks
<1>7. /\ q \in [Resources -> -Cap..Cap]
      /\ Leq(Returned(q), ALLOC[t]) /\ Leq(Wanted(q), NEED[t])
      /\ Add(ALLOC[t], q) \in Counts
      BY <1>2, <1>6, ScriptFits
<1>8. /\ held' \in [Threads -> Counts] /\ held'[t] = Add(ALLOC[t], q)
      /\ \A u \in Threads : u # t => held'[u] = held[u]
      BY <1>1, <1>6, <1>7
<1>9. STypeOK'
  <2>1. sent' \in [Threads -> 0..MaxRequests]
        BY <1>1
  <2> QED BY <2>1, <1>7, <1>8 DEF STypeOK
<1>10. Locks'
      BY <1>3 DEF Locks, Posting, Acking
<1>11. Posted'
      BY <1>3, <1>7, <1>10 DEF Locks, Posted, Posting, Acking
<1>12. Exits' /\ SBooks'
      BY <1>3 DEF Exits, SBooks, SLive
<1>13. Queue' /\ Sleepers'
      BY <1>3, <1>4 DEF Queue, Sleepers, Sleeping, STypeOK
<1>14. SScripts'
      BY <1>3, <1>4, <1>8, <1>10 DEF SScripts, SLive, Locks, Posting
<1> QED BY <1>9, <1>10, <1>11, <1>12, <1>13, <1>14

(* A thread leaves its barrier and lets go of rmtx. *)
LEMMA UnlockRmtxKeeps ==
    ASSUME SInv, NEW t \in Threads, UnlockRmtx(t)
    PROVE  SInv'
<1> USE SolutionAssumption, SessionAssumption
    DEF SolutionAssumption, SessionAssumption, SInv, UnlockRmtx, ThreadGoes, sTables, script, post
<1>1. DOMAIN tpc = Threads /\ tpc = [u \in Threads |-> tpc[u]]
      BY SShapes
<1>2. /\ \/ tpc[t] = "quitAcked" /\ tpc'[t] = "done" /\ cmtx' = cmtx
         \/ tpc[t] = "releaseAcked" /\ tpc'[t] = "delay" /\ cmtx' = cmtx \ {t}
         \/ tpc[t] = "askAcked" /\ tpc'[t] = "toSleep" /\ cmtx' = cmtx
      /\ \A u \in Threads : u # t => tpc'[u] = tpc[u]
      /\ rmtx' = Nobody
      BY <1>1
<1>3. \A i \in DOMAIN Q : Q[i].from \in Threads
      BY SShapes
<1>4. STypeOK'
      BY DEF STypeOK
<1>5. UNCHANGED <<sTables, post, script, Q, at, granted, exited, mpc>>
      OBVIOUS
<1> HIDE DEF UnlockRmtx
<1>6. Locks'
      BY <1>2 DEF Locks, Posting, Acking
<1>7. Posted'
      BY <1>2, <1>5 DEF Posted, Posting
<1>8. Exits' /\ SBooks'
      BY <1>2, <1>5 DEF Exits, SBooks, SLive
<1>9. Queue' /\ Sleepers'
      BY <1>2, <1>3, <1>5 DEF Queue, Sleepers, Sleeping, STypeOK
<1>10. SScripts'
      BY <1>2, <1>3, <1>5 DEF SScripts, SLive
<1> QED BY <1>4, <1>6, <1>7, <1>8, <1>9, <1>10

(* A thread goes to sleep. *)
LEMMA SSleepKeeps ==
    ASSUME SInv, NEW t \in Threads, SSleep(t)
    PROVE  SInv'
<1> USE SolutionAssumption, SessionAssumption
    DEF SolutionAssumption, SessionAssumption, SInv, SSleep, ThreadGoes, sTables, script, post
<1>1. DOMAIN tpc = Threads /\ tpc = [u \in Threads |-> tpc[u]]
      BY SShapes
<1>2. /\ tpc[t] = "toSleep" /\ tpc'[t] = "asleep" /\ cmtx' = cmtx \ {t}
      /\ \A u \in Threads : u # t => tpc'[u] = tpc[u]
      BY <1>1
<1>3. \A i \in DOMAIN Q : Q[i].from \in Threads
      BY SShapes
<1>4. STypeOK'
      BY DEF STypeOK
<1>5. Locks' /\ Posted'
      BY <1>2 DEF Locks, Posted, Posting, Acking
<1>6. Exits' /\ SBooks'
      BY <1>2 DEF Exits, SBooks, SLive
<1>7. Queue' /\ Sleepers'
      BY <1>2, <1>3 DEF Queue, Sleepers, Sleeping, STypeOK
<1>8. SScripts'
      BY <1>2, <1>3 DEF SScripts, SLive
<1> QED BY <1>4, <1>5, <1>6, <1>7, <1>8

(* The master passes over an entry, or comes to the end of the queue. *)
LEMMA PassOverKeeps ==
    ASSUME SInv, PassOver \/ EndServe
    PROVE  SInv'
<1> USE DEF SInv, PassOver, EndServe, sTables, post, script
<1>1. STypeOK'
  <2>1. at' \in 1..(Len(Q') + 1) /\ mpc' \in {"receive", "serve", "signal", "exit"}
        BY SShapes DEF STypeOK
  <2> QED BY <2>1 DEF STypeOK
<1>2. Locks' /\ Posted' /\ Exits' /\ Queue' /\ SBooks' /\ SScripts'
      BY DEF Locks, Posted, Exits, Queue, SBooks, SScripts, SLive
<1>3. Sleepers'
      BY DEF Sleepers
<1> QED BY <1>1, <1>2, <1>3

(* The master signals the thread it has granted to, which by then sleeps.  *)
LEMMA SignalKeeps ==
    ASSUME SInv, Signal
    PROVE  SInv'
<1> USE SolutionAssumption, SessionAssumption DEF SolutionAssumption, SessionAssumption, SInv, Signal, sTables, post, script
<1>1. /\ DOMAIN tpc = Threads /\ tpc = [u \in Threads |-> tpc[u]]
      /\ \A i \in DOMAIN Q : Q[i].from \in Threads
      BY SShapes
<1>2. granted \in Threads /\ tpc[granted] \in Sleeping /\ \A i \in DOMAIN Q : Q[i].from # granted
      BY DEF Sleepers
<1>4. tpc[granted] = "asleep" /\ tpc'[granted] = "delay"
      BY <1>1, <1>2 DEF Locks, Sleeping
<1>5. \A u \in Threads : u # granted => tpc'[u] = tpc[u]
      BY <1>1
<1>6. STypeOK'
  <2>1. tpc' \in [Threads -> {"delay", "quitting", "quitAcked", "releasing",
                              "releaseAcked", "asking", "askAcked", "toSleep",
                              "asleep", "done"}]
        BY <1>2, <1>4 DEF STypeOK
  <2> QED BY <2>1 DEF STypeOK
<1>7. Locks' /\ Posted'
      BY <1>2, <1>4, <1>5 DEF Locks, Posted, Posting, Acking
<1>8. Exits' /\ SBooks'
      BY <1>2, <1>4, <1>5 DEF Exits, SBooks, SLive
<1>9. Queue' /\ Sleepers'
      BY <1>1, <1>2, <1>4, <1>5 DEF Queue, Sleepers, Sleeping
<1>10. SScripts'
      BY <1>1, <1>2, <1>4, <1>5 DEF SScripts, SLive
<1> QED BY <1>6, <1>7, <1>8, <1>9, <1>10

(* What the master knows of the thread it meets at REQB. *)
LEMMA Met ==
    ASSUME SInv, AtREQB # {}
    PROVE  /\ reqfrom \in Threads /\ tpc[reqfrom] \in Posting /\ rmtx = reqfrom
           /\ \A u \in Threads : u # reqfrom => tpc[u] \notin Posting \cup Acking
           /\ reqfrom \in SLive
           /\ \A i \in DOMAIN Q : Q[i].from # reqfrom
<1> USE DEF SInv, AtREQB, Posting, Acking, Sleeping
<1>1. PICK t \in Threads : tpc[t] \in Posting
      OBVIOUS
<1>2. reqfrom = t /\ rmtx = t
      BY <1>1 DEF Posted, Locks
<1> QED BY <1>1, <1>2 DEF Locks, Exits, SLive, Queue

(* The master books a request: what is given back is free again, and what  *)
(* is asked for fits the claim and goes to the end of the queue.           *)
LEMMA ReceiveRequestKeeps ==
    ASSUME SInv, ReceiveRequest
    PROVE  SInv'
<1> DEFINE t == reqfrom
           e == [from |-> t, request |-> Wanted(REQ)]
<1> USE DEF SInv
<1>1. /\ t \in Threads /\ tpc[t] \in {"releasing", "asking"} /\ rmtx = t
      /\ \A u \in Threads : u # t => tpc[u] \notin Posting \cup Acking
      /\ t \in SLive /\ \A i \in DOMAIN Q : Q[i].from # t
      /\ mpc = "receive"
  <2>1. AtREQB # {} /\ reqtype = "R" /\ mpc = "receive"
        BY DEF ReceiveRequest
  <2> QED BY <2>1, Met DEF Posted, Posting
<1>2. /\ ALLOC[t] \in Counts /\ NEED[t] \in Counts /\ maxNeed[t] \in Counts
      /\ DOMAIN tpc = Threads /\ tpc = [u \in Threads |-> tpc[u]]
      /\ ALLOC \in [Threads -> Counts] /\ NEED \in [Threads -> Counts]
      /\ AVAILABLE \in Counts /\ REQ \in [Resources -> -Cap..Cap]
      BY <1>1, SShapes DEF STypeOK
<1>3. /\ maxNeed[t] = Add(ALLOC[t], NEED[t])
      /\ Leq(Returned(REQ), ALLOC[t]) /\ Leq(Wanted(REQ), NEED[t])
      /\ held[t] = Add(ALLOC[t], REQ)
      BY <1>1 DEF SBooks, Posted, Posting, SScripts
<1>4. Returned(REQ) \in Counts /\ Wanted(REQ) \in Counts
      /\ Returned(REQ) \in [Resources -> Nat]
      BY <1>2, RequestHalves, ClaimsAssumption DEF Counts, ClaimsAssumption
<1>5. /\ Sub(ALLOC[t], Returned(REQ)) \in Counts /\ Add(NEED[t], Returned(REQ)) \in Counts
      /\ maxNeed[t] = Add(Sub(ALLOC[t], Returned(REQ)), Add(NEED[t], Returned(REQ)))
      /\ Leq(NEED[t], Add(NEED[t], Returned(REQ)))
      BY <1>2, <1>3, <1>4, MoveClaim
<1>6. /\ Leq(Wanted(REQ), Add(NEED[t], Returned(REQ)))
      /\ Add(ALLOC[t], REQ) = Add(Sub(ALLOC[t], Returned(REQ)), Wanted(REQ))
      /\ IsZero(Wanted(REQ)) => Add(ALLOC[t], REQ) = Sub(ALLOC[t], Returned(REQ))
      BY <1>2, <1>3, BookedRequest
<1>7. /\ ALLOC' = [ALLOC EXCEPT ![t] = Sub(@, Returned(REQ))]
      /\ NEED' = [NEED EXCEPT ![t] = Add(@, Returned(REQ))]
      /\ AVAILABLE' = Add(AVAILABLE, Returned(REQ))
      /\ REQ' = Wanted(REQ)
      /\ Q' = IF IsZero(Wanted(REQ)) THEN Q ELSE Append(Q, e)
      /\ mpc' = "serve" /\ at' = 1
      /\ tpc' = [tpc EXCEPT ![t] = Acked(@)]
      /\ UNCHANGED <<rmtx, cmtx, reqfrom, reqtype, granted, exited, held, sent>>
      BY DEF ReceiveRequest, script
<1>8. /\ ALLOC'[t] = Sub(ALLOC[t], Returned(REQ)) /\ NEED'[t] = Add(NEED[t], Returned(REQ))
      /\ \A u \in Threads : u # t => ALLOC'[u] = ALLOC[u] /\ NEED'[u] = NEED[u]
      /\ ALLOC' \in [Threads -> Counts] /\ NEED' \in [Threads -> Counts]
      BY <1>1, <1>2, <1>5, <1>7
<1>9. Work(AVAILABLE', ALLOC', Threads) = Total
  <2>1. /\ AVAILABLE \in Vector /\ ALLOC \in [Threads -> Vector]
        /\ Returned(REQ) \in Vector
        BY <1>2, <1>4, CountsAreVectors
  <2>2. Work(AVAILABLE', ALLOC', Threads) = Work(AVAILABLE, ALLOC, Threads)
        BY <1>1, <1>7, <2>1, WorkMoves
  <2> QED BY <2>2 DEF SBooks
<1>10. AVAILABLE' \in Counts
  <2>1. \A r \in Resources : AVAILABLE[r] \in Nat /\ Returned(REQ)[r] \in Nat
    <3>1. AVAILABLE \in [Resources -> 0..Cap]
          BY <1>2 DEF Counts
    <3> QED BY <3>1, <1>4
  <2>2. AVAILABLE' = [r \in Resources |-> AVAILABLE[r] + Returned(REQ)[r]]
    <3>1. DOMAIN AVAILABLE = Resources
          BY <1>2 DEF Counts
    <3> QED BY <3>1, <1>7 DEF Add
  <2>3. AVAILABLE' \in [Resources -> Nat]
        BY <2>1, <2>2
  <2> QED BY <1>8, <1>9, <2>3, FreeIsCounted
<1>11. /\ e \in Entries
       /\ REQ' \in [Resources -> -Cap..Cap]
       BY <1>1, <1>4, <1>7, ClaimsAssumption DEF Entries, Counts, ClaimsAssumption
<1>12. /\ tpc'[t] = IF IsZero(Wanted(REQ)) THEN "releaseAcked" ELSE "askAcked"
       /\ tpc[t] = IF IsZero(Wanted(REQ)) THEN "releasing" ELSE "asking"
       /\ \A u \in Threads : u # t => tpc'[u] = tpc[u]
  <2>1. tpc[t] = IF IsZero(Wanted(REQ)) THEN "releasing" ELSE "asking"
        BY <1>1 DEF Posted, Posting
  <2> QED BY <1>1, <1>2, <1>7, <2>1 DEF Acked
<1> DEFINE n == Len(Q)
<1>13. /\ n \in Nat /\ DOMAIN Q = 1..n /\ Q \in Seq(Entries)
       /\ \A i \in DOMAIN Q : Q[i].from \in Threads /\ Q[i].request \in Counts
       BY SShapes
<1>14. /\ Q' \in Seq(Entries)
       /\ \A i \in DOMAIN Q : i \in DOMAIN Q' /\ Q'[i] = Q[i]
       /\ IsZero(Wanted(REQ)) => DOMAIN Q' = DOMAIN Q
       /\ ~IsZero(Wanted(REQ)) => DOMAIN Q' = DOMAIN Q \cup {n + 1} /\ Q'[n + 1] = e
  <2>1. CASE IsZero(Wanted(REQ))
        BY <2>1, <1>7, <1>13
  <2>2. CASE ~IsZero(Wanted(REQ))
    <3>1. Q' = Append(Q, e)
          BY <2>2, <1>7
    <3>2. /\ Append(Q, e) \in Seq(Entries) /\ DOMAIN Append(Q, e) = 1..(n + 1)
          /\ \A i \in 1..n : Append(Q, e)[i] = Q[i]
          /\ Append(Q, e)[n + 1] = e
          BY <1>11, <1>13, SEntryAdded
    <3>3. /\ DOMAIN Append(Q, e) = DOMAIN Q \cup {n + 1}
          /\ \A i \in DOMAIN Q : i \in DOMAIN Append(Q, e) /\ Append(Q, e)[i] = Q[i]
          BY <3>2, <1>13
    <3> HIDE DEF n, e
    <3> QED BY <2>2, <3>1, <3>2, <3>3
  <2> QED BY <2>1, <2>2
<1>15. \A i \in DOMAIN Q' : i \notin DOMAIN Q => ~IsZero(Wanted(REQ)) /\ i = n + 1
       BY <1>14
<1>16. e.from = t /\ e.request = Wanted(REQ)
       OBVIOUS
<1> HIDE DEF t, e, n
<1>17. STypeOK'
  <2>1. Q' \in Seq([from : Threads, request : Counts])
        BY <1>14 DEF Entries
  <2>2. at' \in 1..(Len(Q') + 1)
    <3>1. Len(Q') \in Nat
          BY <2>1, LenProperties
    <3> QED BY <3>1, <1>7
  <2>3. tpc' \in [Threads -> {"delay", "quitting", "quitAcked", "releasing",
                              "releaseAcked", "asking", "askAcked", "toSleep",
                              "asleep", "done"}]
        BY <1>1, <1>7, <1>12 DEF STypeOK
  <2> QED BY <2>1, <2>2, <2>3, <1>7, <1>8, <1>10, <1>11 DEF STypeOK
<1>18. Locks'
       BY <1>1, <1>7, <1>12 DEF Locks, Posting, Acking
<1>19. Posted'
       BY <1>1, <1>12 DEF Posted, Posting, Acking
<1>20. Exits'
       BY <1>1, <1>7, <1>12 DEF Exits
<1>21. Queue'
  <2>1. \A i \in DOMAIN Q : /\ Q'[i].from # t /\ Q'[i].from \in Threads
                            /\ Q'[i].from = Q[i].from /\ Q'[i].request = Q[i].request
        BY <1>1, <1>13, <1>14
  <2>2. ASSUME NEW i \in DOMAIN Q', NEW j \in DOMAIN Q', Q'[i].from = Q'[j].from
        PROVE  i = j
        BY <2>1, <2>2, <1>14, <1>15, <1>16 DEF Queue
  <2>3. ASSUME NEW i \in DOMAIN Q'
        PROVE  /\ tpc'[Q'[i].from] \in Sleeping /\ ~IsZero(Q'[i].request)
               /\ Leq(Q'[i].request, NEED'[Q'[i].from])
    <3>1. CASE i \in DOMAIN Q
          BY <3>1, <2>1, <1>8, <1>12 DEF Queue
    <3>2. CASE i \notin DOMAIN Q
      <4>1. Q'[i].from = t /\ Q'[i].request = Wanted(REQ) /\ ~IsZero(Wanted(REQ))
            BY <3>2, <1>14, <1>15, <1>16
      <4> QED BY <4>1, <1>6, <1>8, <1>12 DEF Sleeping
    <3> QED BY <3>1, <3>2
  <2> QED BY <2>2, <2>3 DEF Queue
<1>22. Sleepers'
  <2>1. ASSUME NEW u \in Threads, tpc'[u] \in Sleeping
        PROVE  \E i \in DOMAIN Q' : Q'[i].from = u
    <3>1. CASE u = t
          BY <3>1, <2>1, <1>12, <1>14, <1>16 DEF Sleeping
    <3>2. CASE u # t
      <4>1. PICK i \in DOMAIN Q : Q[i].from = u
            BY <3>2, <2>1, <1>1, <1>12 DEF Sleepers
      <4> QED BY <4>1, <1>14
    <3> QED BY <3>1, <3>2
  <2> QED BY <2>1, <1>7 DEF Sleepers
<1>23. SBooks'
  <2>1. ASSUME NEW u \in SLive' PROVE Add(ALLOC'[u], NEED'[u]) = maxNeed[u]
        BY <1>1, <1>5, <1>7, <1>8 DEF SBooks, SLive
  <2>2. \A u \in exited' : ALLOC'[u] = Zero
    <3>1. t \notin exited /\ exited \subseteq Threads
          BY <1>1 DEF SLive, STypeOK
    <3> QED BY <3>1, <1>7, <1>8 DEF SBooks
  <2> QED BY <2>1, <2>2, <1>9 DEF SBooks
<1>24. SScripts'
  <2>1. ASSUME NEW i \in DOMAIN Q'
        PROVE  held'[Q'[i].from] = Add(ALLOC'[Q'[i].from], Q'[i].request)
    <3>1. CASE i \in DOMAIN Q
      <4>1. Q'[i] = Q[i] /\ Q[i].from # t /\ Q[i].from \in Threads
            BY <3>1, <1>1, <1>13, <1>14
      <4> QED BY <3>1, <4>1, <1>7, <1>8 DEF SScripts
    <3>2. CASE i \notin DOMAIN Q
      <4>1. Q'[i].from = t /\ Q'[i].request = Wanted(REQ)
            BY <3>2, <1>14, <1>15, <1>16
      <4> QED BY <4>1, <1>3, <1>6, <1>7, <1>8
    <3> QED BY <3>1, <3>2
  <2>2. ASSUME NEW u \in SLive', \A i \in DOMAIN Q' : Q'[i].from # u
        PROVE  held'[u] = IF tpc'[u] \in {"asking", "releasing"} THEN Add(ALLOC'[u], REQ')
                          ELSE ALLOC'[u]
    <3>1. CASE u = t
      <4>1. IsZero(Wanted(REQ))
            BY <3>1, <2>2, <1>14, <1>16
      <4> QED BY <3>1, <4>1, <1>3, <1>6, <1>7, <1>8, <1>12
    <3>2. CASE u # t
      <4>1. u \in SLive /\ \A i \in DOMAIN Q : Q[i].from # u
            BY <2>2, <1>7, <1>14 DEF SLive
      <4> QED BY <3>2, <4>1, <1>1, <1>7, <1>8, <1>12 DEF SScripts, SLive, Posting
    <3> QED BY <3>1, <3>2
  <2> QED BY <2>1, <2>2 DEF SScripts
<1> QED BY <1>17, <1>18, <1>19, <1>20, <1>21, <1>22, <1>23, <1>24

(* The master books a QUIT: all that the thread held is free again.        *)
LEMMA SReceiveQuitKeeps ==
    ASSUME SInv, SReceiveQuit
    PROVE  SInv'
<1> DEFINE t == reqfrom
<1> USE DEF SInv
<1>1. /\ t \in Threads /\ tpc[t] = "quitting" /\ rmtx = t
      /\ \A u \in Threads : u # t => tpc[u] \notin Posting \cup Acking
      /\ t \in SLive /\ \A i \in DOMAIN Q : Q[i].from # t
      /\ mpc = "receive"
  <2>1. AtREQB # {} /\ reqtype = "Q" /\ mpc = "receive"
        BY DEF SReceiveQuit
  <2> QED BY <2>1, Met DEF Posted, Posting
<1>0. Zero \in Counts
      BY ClaimsAssumption DEF ClaimsAssumption, Zero, Counts
<1>2. /\ ALLOC[t] \in Counts /\ Zero \in Counts
      /\ DOMAIN tpc = Threads /\ tpc = [u \in Threads |-> tpc[u]]
      /\ ALLOC \in [Threads -> Counts] /\ NEED \in [Threads -> Counts]
      /\ AVAILABLE \in Counts
      /\ \A i \in DOMAIN Q : Q[i].from \in Threads
      BY <1>0, <1>1, SShapes DEF STypeOK
<1>3. /\ ALLOC' = [ALLOC EXCEPT ![t] = Zero]
      /\ NEED' = [NEED EXCEPT ![t] = Zero]
      /\ AVAILABLE' = Add(AVAILABLE, ALLOC[t])
      /\ exited' = exited \cup {t}
      /\ mpc' \in {"exit", "serve"} /\ at' = 1
      /\ tpc' = [tpc EXCEPT ![t] = Acked(@)]
      /\ UNCHANGED <<rmtx, cmtx, reqfrom, reqtype, REQ, Q, granted, held, sent>>
      BY DEF SReceiveQuit, post, script
<1>4. /\ ALLOC'[t] = Zero
      /\ \A u \in Threads : u # t => ALLOC'[u] = ALLOC[u] /\ NEED'[u] = NEED[u]
      /\ ALLOC' \in [Threads -> Counts] /\ NEED' \in [Threads -> Counts]
      BY <1>1, <1>2, <1>3
<1>5. Work(AVAILABLE', ALLOC', Threads) = Total
  <2>1. AVAILABLE \in Vector /\ ALLOC \in [Threads -> Vector]
        BY <1>2, CountsAreVectors
  <2>2. Work(AVAILABLE', ALLOC', Threads) = Work(AVAILABLE, ALLOC, Threads)
        BY <1>1, <1>3, <2>1, WorkQuits
  <2> QED BY <2>2 DEF SBooks
<1>6. AVAILABLE' \in Counts
  <2>1. AVAILABLE' \in [Resources -> Nat]
        BY <1>2, <1>3, ClaimsAssumption DEF Counts, Add, ClaimsAssumption
  <2> QED BY <1>4, <1>5, <2>1, FreeIsCounted
<1>7. /\ tpc'[t] = "quitAcked"
      /\ \A u \in Threads : u # t => tpc'[u] = tpc[u]
      BY <1>1, <1>2, <1>3 DEF Acked
<1> HIDE DEF t
<1>8. STypeOK'
  <2>1. at' \in 1..(Len(Q') + 1)
        BY <1>3, SShapes
  <2>2. tpc' \in [Threads -> {"delay", "quitting", "quitAcked", "releasing",
                              "releaseAcked", "asking", "askAcked", "toSleep",
                              "asleep", "done"}]
        BY <1>1, <1>3, <1>7 DEF STypeOK
  <2> QED BY <2>1, <2>2, <1>1, <1>3, <1>4, <1>6 DEF STypeOK
<1>9. Locks'
      BY <1>1, <1>3, <1>7 DEF Locks, Posting, Acking
<1>10. Posted'
      BY <1>1, <1>7 DEF Posted, Posting, Acking
<1>11. Exits'
      BY <1>1, <1>3, <1>7 DEF Exits
<1>12. Queue' /\ Sleepers'
      BY <1>1, <1>2, <1>3, <1>4, <1>7 DEF Queue, Sleepers, Sleeping
<1>13. SBooks'
      BY <1>1, <1>3, <1>4, <1>5 DEF SBooks, SLive, STypeOK
<1>14. SScripts'
      BY <1>1, <1>2, <1>3, <1>4, <1>7 DEF SScripts, SLive, Posting
<1> QED BY <1>8, <1>9, <1>10, <1>11, <1>12, <1>13, <1>14

(* The master grants the entry at hand, which the claim of its thread      *)
(* leaves room for, and unlinks it.                                        *)
LEMMA ServeKeeps ==
    ASSUME SInv, Serve
    PROVE  SInv'
<1> DEFINE n == Len(Q)
           q == Q[at].request
           t == Q[at].from
<1> USE DEF SInv
<1>1. /\ n \in Nat /\ DOMAIN Q = 1..n /\ Q \in Seq(Entries)
      /\ at \in 1..n
      /\ \A i \in DOMAIN Q : Q[i].from \in Threads /\ Q[i].request \in Counts
      /\ t \in Threads /\ q \in Counts
  <2>1. /\ n \in Nat /\ DOMAIN Q = 1..n /\ Q \in Seq(Entries)
        /\ \A i \in DOMAIN Q : Q[i].from \in Threads /\ Q[i].request \in Counts
        BY SShapes
  <2>2. at \in 1..n
        BY <2>1 DEF Serve, STypeOK
  <2> QED BY <2>1, <2>2
<1>2. /\ tpc[t] \in Sleeping /\ Leq(q, NEED[t]) /\ held[t] = Add(ALLOC[t], q)
      /\ t \in SLive /\ t \notin exited
      /\ \A i \in DOMAIN Q : i # at => Q[i].from # t
      BY <1>1 DEF Queue, SScripts, SLive, Exits, Sleeping
<1>3. /\ ALLOC[t] \in Counts /\ NEED[t] \in Counts /\ maxNeed[t] \in Counts
      /\ ALLOC \in [Threads -> Counts] /\ NEED \in [Threads -> Counts]
      /\ AVAILABLE \in Counts
      BY <1>1, SShapes DEF STypeOK
<1>4. maxNeed[t] = Add(ALLOC[t], NEED[t]) /\ q \in [Resources -> Nat]
      BY <1>1, <1>2, ClaimsAssumption DEF SBooks, Counts, ClaimsAssumption
<1>5. /\ Add(ALLOC[t], q) \in Counts /\ Sub(NEED[t], q) \in Counts
      /\ maxNeed[t] = Add(Add(ALLOC[t], q), Sub(NEED[t], q))
      BY <1>2, <1>3, <1>4, MoveClaim
<1>6. /\ ALLOC' = [ALLOC EXCEPT ![t] = Add(@, q)]
      /\ NEED' = [NEED EXCEPT ![t] = Sub(@, q)]
      /\ AVAILABLE' = Sub(AVAILABLE, q) /\ Leq(q, AVAILABLE)
      /\ Q' = RemoveAt(Q, at)
      /\ mpc' = "signal" /\ granted' = t
      /\ UNCHANGED <<rmtx, cmtx, reqfrom, reqtype, REQ, at, exited, tpc, held, sent>>
      BY DEF Serve, canserve, post, script
<1>7. /\ ALLOC'[t] = Add(ALLOC[t], q) /\ NEED'[t] = Sub(NEED[t], q)
      /\ \A u \in Threads : u # t => ALLOC'[u] = ALLOC[u] /\ NEED'[u] = NEED[u]
      /\ ALLOC' \in [Threads -> Counts] /\ NEED' \in [Threads -> Counts]
      BY <1>1, <1>3, <1>5, <1>6
<1>8. Work(AVAILABLE', ALLOC', Threads) = Total
  <2>1. AVAILABLE \in Vector /\ ALLOC \in [Threads -> Vector] /\ q \in Vector
        BY <1>1, <1>3, CountsAreVectors
  <2>2. Work(AVAILABLE', ALLOC', Threads) = Work(AVAILABLE, ALLOC, Threads)
        BY <1>1, <1>6, <2>1, WorkMoves
  <2> QED BY <2>2 DEF SBooks
<1>9. AVAILABLE' \in Counts
  <2>1. AVAILABLE' \in [Resources -> Nat]
    <3>1. AVAILABLE' = [r \in Resources |-> AVAILABLE[r] - q[r]]
          BY <1>3, <1>6 DEF Counts, Sub
    <3>2. ASSUME NEW r \in Resources PROVE AVAILABLE[r] - q[r] \in Nat
      <4>1. q[r] <= AVAILABLE[r]
            BY <1>1, <1>6 DEF Counts, Leq
      <4>2. q[r] \in 0..Cap /\ AVAILABLE[r] \in 0..Cap /\ Cap \in Nat
            BY <1>1, <1>3, ClaimsAssumption DEF Counts, ClaimsAssumption
      <4> QED BY ONLY <4>1, <4>2
    <3> QED BY <3>1, <3>2
  <2> QED BY <1>7, <1>8, <2>1, FreeIsCounted
<1> DEFINE old(i) == IF i < at THEN i ELSE i + 1
<1>10. /\ Q' \in Seq(Entries) /\ Len(Q') = n - 1 /\ DOMAIN Q' = 1..(n - 1)
       /\ \A i \in 1..(n - 1) : Q'[i] = Q[old(i)]
  <2>1. /\ RemoveAt(Q, at) \in Seq(Entries) /\ Len(RemoveAt(Q, at)) = n - 1
        /\ DOMAIN RemoveAt(Q, at) = 1..(n - 1)
        /\ \A i \in 1..(n - 1) :
              RemoveAt(Q, at)[i] = IF i < at THEN Q[i] ELSE Q[i + 1]
        BY <1>1, EntryRemoved
  <2> QED BY <2>1, <1>6
<1>11. \A i \in DOMAIN Q' : old(i) \in DOMAIN Q /\ old(i) # at /\ Q'[i] = Q[old(i)]
       BY <1>1, <1>10
<1>12. \A i, j \in DOMAIN Q' : old(i) = old(j) => i = j
       BY <1>1, <1>10
<1>13. \A k \in DOMAIN Q : k # at => \E i \in DOMAIN Q' : old(i) = k
  <2>1. ASSUME NEW k \in DOMAIN Q, k # at PROVE \E i \in DOMAIN Q' : old(i) = k
    <3>1. CASE k < at
          BY <3>1, <1>1, <1>10
    <3>2. CASE ~(k < at)
      <4>1. k - 1 \in DOMAIN Q' /\ old(k - 1) = k
            BY <2>1, <3>2, <1>1, <1>10
      <4> QED BY <4>1
    <3> QED BY <3>1, <3>2
  <2> QED BY <2>1
<1> HIDE DEF n, q, t, old
<1>14. STypeOK'
  <2>1. at' \in 1..(Len(Q') + 1)
        BY <1>1, <1>6, <1>10
  <2> QED BY <2>1, <1>1, <1>6, <1>7, <1>9, <1>10 DEF STypeOK, Entries
<1>15. Locks' /\ Posted' /\ Exits'
  <2>1. \A u \in Threads : tpc[u] \in Posting => u # t
        BY <1>2 DEF Posting, Sleeping
  <2>2. Posted'
        BY <2>1, <1>6, <1>7 DEF Posted
  <2> QED BY <2>2, <1>6 DEF Locks, Exits
<1>16. \A i \in DOMAIN Q' : Q'[i].from # t /\ Q'[i].from \in Threads
       BY <1>1, <1>2, <1>11
<1>17. Queue'
  <2>1. \A i, j \in DOMAIN Q' : Q'[i].from = Q'[j].from => i = j
        BY <1>11, <1>12 DEF Queue
  <2>2. \A i \in DOMAIN Q' : /\ tpc'[Q'[i].from] \in Sleeping /\ ~IsZero(Q'[i].request)
                             /\ Leq(Q'[i].request, NEED'[Q'[i].from])
        BY <1>6, <1>7, <1>11, <1>16 DEF Queue
  <2> QED BY <2>1, <2>2 DEF Queue
<1>18. Sleepers'
  <2>1. mpc # "signal"
        BY DEF Serve
  <2>2. ASSUME NEW u \in Threads, tpc'[u] \in Sleeping, u # t
        PROVE  \E i \in DOMAIN Q' : Q'[i].from = u
    <3>1. PICK k \in DOMAIN Q : Q[k].from = u
          BY <2>1, <2>2, <1>6 DEF Sleepers
    <3>2. PICK i \in DOMAIN Q' : old(i) = k
          BY <3>1, <2>2, <1>13 DEF t
    <3> QED BY <3>1, <3>2, <1>11
  <2> QED BY <2>2, <1>1, <1>2, <1>6, <1>16 DEF Sleepers
<1>19. SBooks'
  <2>1. \A u \in SLive' : Add(ALLOC'[u], NEED'[u]) = maxNeed[u]
        BY <1>5, <1>6, <1>7 DEF SBooks, SLive
  <2>2. \A u \in exited' : ALLOC'[u] = Zero
        BY <1>2, <1>6, <1>7 DEF SBooks, STypeOK
  <2> QED BY <2>1, <2>2, <1>8 DEF SBooks
<1>20. SScripts'
  <2>1. \A i \in DOMAIN Q' : held'[Q'[i].from] = Add(ALLOC'[Q'[i].from], Q'[i].request)
        BY <1>6, <1>7, <1>11, <1>16 DEF SScripts
  <2>2. ASSUME NEW u \in SLive', \A i \in DOMAIN Q' : Q'[i].from # u
        PROVE  held'[u] = IF tpc'[u] \in {"asking", "releasing"} THEN Add(ALLOC'[u], REQ')
                          ELSE ALLOC'[u]
    <3>1. CASE u = t
          BY <3>1, <1>2, <1>6, <1>7 DEF Sleeping
    <3>2. CASE u # t
      <4>1. u \in SLive /\ u \in Threads
            BY <2>2, <1>6 DEF SLive
      <4>2. \A k \in DOMAIN Q : Q[k].from # u
            BY <2>2, <3>2, <1>11, <1>13 DEF t
      <4> QED BY <3>2, <4>1, <4>2, <1>6, <1>7 DEF SScripts
    <3> QED BY <3>1, <3>2
  <2> QED BY <2>1, <2>2 DEF SScripts
<1> QED BY <1>14, <1>15, <1>17, <1>18, <1>19, <1>20

(* Every step of a thread and of the master keeps the invariant.           *)
LEMMA SInvNext == SInv /\ [SNext]_sVars => SInv'
<1> SUFFICES ASSUME SInv, [SNext]_sVars PROVE SInv'
    OBVIOUS
<1>1. CASE SMaster
      BY <1>1, ReceiveRequestKeeps, SReceiveQuitKeeps, ServeKeeps, SignalKeeps,
         PassOverKeeps DEF SMaster
<1>2. CASE \E t \in Threads : ThreadStep(t)
      BY <1>2, PostRequestKeeps, PostQuitKeeps, UnlockRmtxKeeps, SSleepKeeps
      DEF ThreadStep
<1>3. CASE UNCHANGED sVars
      BY <1>3 DEF sVars, SInv, STypeOK, Locks, Posted, Exits, Queue, Sleepers, SBooks,
                  SScripts, SLive
<1> QED BY <1>1, <1>2, <1>3 DEF SNext

(* The tables account for every unit, a thread's script, its claim and its *)
(* entry in the queue agree, and the rendezvous hands each request over    *)
(* once.                                                                   *)
THEOREM SInvariance == SSpec => []SInv
BY SInvInit, SInvNext, PTL DEF SSpec

(* Every count stays between zero and the total, and every pointer into    *)
(* the queue within it.                                                    *)
THEOREM STypeCorrect == SSpec => []STypeOK
<1>1. SInv => STypeOK
      BY DEF SInv
<1> QED BY <1>1, SInvariance, PTL

(* No signal is lost: a thread that sleeps, or is about to, is in the      *)
(* queue or is the one the master is about to signal, and then the master  *)
(* finds it asleep.                                                        *)
THEOREM NoLostWakeup == SSpec => []Sleepers
<1>1. SInv => Sleepers
      BY DEF SInv
<1> QED BY <1>1, SInvariance, PTL

-----------------------------------------------------------------------------
(* The banker *)

(* What each thread waits for in a queue q. *)
SWaitsIn(q) ==
    [t \in Threads |-> IF {i \in DOMAIN q : q[i].from = t} = {} THEN None
                       ELSE q[CHOOSE i \in DOMAIN q : q[i].from = t].request]

(* That is its request if it is queued, since it is queued once.           *)
LEMMA SWaitsFor ==
    ASSUME NEW q, \A i, j \in DOMAIN q : q[i].from = q[j].from => i = j,
           NEW t \in Threads
    PROVE  /\ (\A i \in DOMAIN q : q[i].from # t) => SWaitsIn(q)[t] = None
           /\ \A i \in DOMAIN q : q[i].from = t => SWaitsIn(q)[t] = q[i].request
<1>1. (\A i \in DOMAIN q : q[i].from # t) => SWaitsIn(q)[t] = None
      BY DEF SWaitsIn
<1>2. ASSUME NEW i \in DOMAIN q, q[i].from = t
      PROVE  SWaitsIn(q)[t] = q[i].request
  <2>1. (CHOOSE k \in DOMAIN q : q[k].from = t) = i
        BY <1>2
  <2> QED BY <2>1, <1>2 DEF SWaitsIn
<1> QED BY <1>1, <1>2

(* The banker's copies of the operators are the operators. *)
LEMMA SSameOperators ==
    /\ \A u, w : /\ SBanker!Add(u, w) = Add(u, w) /\ SBanker!Sub(u, w) = Sub(u, w)
                 /\ SBanker!Leq(u, w) <=> Leq(u, w)
                 /\ SBanker!IsZero(u) <=> IsZero(u)
    /\ SBanker!Counts = Counts /\ SBanker!Zero = Zero
BY DEF SBanker!Add, SBanker!Sub, SBanker!Leq, SBanker!IsZero, SBanker!Counts, SBanker!Zero,
       Add, Sub, Leq, IsZero, Counts, Zero

(* ... and so is its idea of safety. *)
LEMMA SSameSafe ==
    ASSUME NEW S, NEW a, NEW b, NEW c
    PROVE  SBanker!Safe(S, a, b, c) <=> Safe(S, a, b, c)
BY DEF SBanker!Safe, Safe, SBanker!Orders, Orders, SBanker!FinishInOrder, FinishInOrder,
       SBanker!Leq, Leq, SBanker!Add, Add, SBanker!Counts, Counts,
       SBanker!Cardinality, Cardinality

(* At the start the banker's books are the master's. *)
LEMMA SBankerInit == SInit => SBanker!Init
<1> SUFFICES ASSUME SInit PROVE SBanker!Init
    OBVIOUS
<1>1. DOMAIN Q = {}
      BY EmptySeq, LenProperties DEF SInit
<1>2. \A t \in Threads : QueuedBy(t) = {}
      BY <1>1 DEF QueuedBy
<1> QED BY <1>2 DEF SInit, SBanker!Init, SLive, SBanker!Zero, Zero

(* Booking a request is the banker's Request, ... *)
LEMMA BooksRequest ==
    ASSUME SInv, SInv', ReceiveRequest
    PROVE  SBanker!Next
<1> DEFINE t == reqfrom
           e == [from |-> t, request |-> Wanted(REQ)]
           n == Len(Q)
<1> USE DEF SInv
<1>1. /\ t \in Threads /\ tpc[t] \in {"releasing", "asking"}
      /\ t \in SLive /\ \A i \in DOMAIN Q : Q[i].from # t
  <2>1. AtREQB # {} /\ reqtype = "R"
        BY DEF ReceiveRequest
  <2> QED BY <2>1, Met DEF Posted, Posting
<1>2. /\ REQ \in [Resources -> -Cap..Cap]
      /\ Leq(Returned(REQ), ALLOC[t]) /\ Leq(Wanted(REQ), NEED[t])
      BY <1>1 DEF STypeOK, Posted, Posting
<1>3. Returned(REQ) \in Counts /\ Wanted(REQ) \in Counts
      BY <1>2, RequestHalves
<1>4. /\ ALLOC' = [ALLOC EXCEPT ![t] = Sub(@, Returned(REQ))]
      /\ NEED' = [NEED EXCEPT ![t] = Add(@, Returned(REQ))]
      /\ AVAILABLE' = Add(AVAILABLE, Returned(REQ))
      /\ Q' = IF IsZero(Wanted(REQ)) THEN Q ELSE Append(Q, e)
      /\ SLive' = SLive
      BY DEF ReceiveRequest, SLive
<1>5. e \in Entries /\ e.from = t /\ e.request = Wanted(REQ)
      BY <1>1, <1>3 DEF Entries
<1>6. /\ n \in Nat /\ DOMAIN Q = 1..n /\ Q \in Seq(Entries)
      /\ DOMAIN Append(Q, e) = 1..(n + 1)
      /\ \A i \in 1..n : Append(Q, e)[i] = Q[i]
      /\ Append(Q, e)[n + 1] = e
  <2>1. Q \in Seq(Entries)
        BY SShapes
  <2> QED BY <2>1, <1>5, SEntryAdded
<1> HIDE DEF t, e
<1>7. SWaitsIn(Q') = [SWaitsIn(Q) EXCEPT ![t] = IF IsZero(Wanted(REQ)) THEN None
                                              ELSE Wanted(REQ)]
  <2>1. /\ \A i, j \in DOMAIN Q : Q[i].from = Q[j].from => i = j
        /\ \A i, j \in DOMAIN Q' : Q'[i].from = Q'[j].from => i = j
        BY DEF Queue
  <2>2. SWaitsIn(Q)[t] = None
        BY <1>1, <2>1, SWaitsFor
  <2>3. CASE IsZero(Wanted(REQ))
        BY <2>2, <2>3, <1>1, <1>4 DEF SWaitsIn
  <2>4. CASE ~IsZero(Wanted(REQ))
    <3>1. /\ Q' = Append(Q, e) /\ n + 1 \in DOMAIN Q' /\ Q'[n + 1] = e
          /\ \A i \in DOMAIN Q : i \in DOMAIN Q' /\ Q'[i] = Q[i]
          /\ \A i \in DOMAIN Q' : i \in DOMAIN Q \/ i = n + 1
          BY <2>4, <1>4, <1>6
    <3>2. SWaitsIn(Q')[t] = Wanted(REQ)
      <4>1. \A i \in DOMAIN Q' : Q'[i].from = t => SWaitsIn(Q')[t] = Q'[i].request
            BY <2>1, <1>1, SWaitsFor
      <4> QED BY <4>1, <3>1, <1>5
    <3>3. ASSUME NEW u \in Threads, u # t PROVE SWaitsIn(Q')[u] = SWaitsIn(Q)[u]
      <4>1. CASE \A i \in DOMAIN Q : Q[i].from # u
        <5>1. \A i \in DOMAIN Q' : Q'[i].from # u
              BY <4>1, <3>1, <3>3, <1>5
        <5> QED BY <4>1, <5>1, <2>1, SWaitsFor
      <4>2. CASE \E i \in DOMAIN Q : Q[i].from = u
        <5>1. PICK i \in DOMAIN Q : Q[i].from = u
              BY <4>2
        <5>2. SWaitsIn(Q)[u] = Q[i].request
              BY <5>1, <2>1, SWaitsFor
        <5>3. i \in DOMAIN Q' /\ Q'[i] = Q[i]
              BY <3>1
        <5>4. SWaitsIn(Q')[u] = Q'[i].request
              BY <5>1, <5>3, <2>1, SWaitsFor
        <5> QED BY <5>2, <5>3, <5>4
      <4> QED BY <4>1, <4>2
    <3>4. /\ SWaitsIn(Q) = [u \in Threads |-> SWaitsIn(Q)[u]]
          /\ SWaitsIn(Q') = [u \in Threads |-> SWaitsIn(Q')[u]]
          BY DEF SWaitsIn
    <3> QED BY <3>2, <3>3, <3>4, <2>4, <1>1
  <2> QED BY <2>3, <2>4
<1>8. SWaitsIn(Q)[t] = None
      BY <1>1, SWaitsFor DEF Queue
<1>9. SBanker!Request(t, Returned(REQ), Wanted(REQ))
  <2> USE SSameOperators DEF SWaitsIn, QueuedBy
  <2> HIDE DEF SInv
  <2> QED BY <1>1, <1>2, <1>3, <1>4, <1>7, <1>8 DEF SBanker!Request
<1>10. \E back, want \in SBanker!Counts : SBanker!Request(t, back, want)
  <2>1. Returned(REQ) \in SBanker!Counts /\ Wanted(REQ) \in SBanker!Counts
        BY <1>3, SSameOperators
  <2> QED BY <1>9, <2>1 DEF SBanker!Request
<1> QED BY <1>1, <1>10 DEF SBanker!Next

(* ... a QUIT is its Quit, ... *)
LEMMA SBooksQuit ==
    ASSUME SInv, SReceiveQuit
    PROVE  SBanker!Next
<1> DEFINE t == reqfrom
<1>1. t \in Threads /\ t \in SLive /\ \A i \in DOMAIN Q : Q[i].from # t
  <2>1. AtREQB # {}
        BY DEF SReceiveQuit
  <2> QED BY <2>1, Met
<1>2. SWaitsIn(Q)[t] = None
      BY <1>1, SWaitsFor DEF SInv, Queue
<1>3. /\ ALLOC' = [ALLOC EXCEPT ![t] = Zero]
      /\ NEED' = [NEED EXCEPT ![t] = Zero]
      /\ AVAILABLE' = Add(AVAILABLE, ALLOC[t])
      /\ Q' = Q /\ SLive' = SLive \ {t}
      BY DEF SReceiveQuit, SLive
<1> HIDE DEF t
<1>4. SBanker!Quit(t)
      BY <1>1, <1>2, <1>3, SSameOperators DEF SBanker!Quit, SWaitsIn, QueuedBy
<1> QED BY <1>1, <1>4 DEF SBanker!Next

(* ... and granting is its Grant: the check of the code leaves a state     *)
(* that is safe in the banker's sense.                                     *)
LEMMA SServesGrant ==
    ASSUME SInv, SInv', Serve, Avoid
    PROVE  SBanker!Next
<1> DEFINE n == Len(Q)
           q == Q[at].request
           t == Q[at].from
           alloc2 == [ALLOC EXCEPT ![t] = Add(@, q)]
           nd2 == [NEED EXCEPT ![t] = Sub(@, q)]
<1>1. /\ n \in Nat /\ DOMAIN Q = 1..n /\ Q \in Seq(Entries) /\ at \in 1..n
      /\ t \in Threads /\ q \in Counts
  <2>1. /\ n \in Nat /\ DOMAIN Q = 1..n /\ Q \in Seq(Entries)
        /\ \A i \in DOMAIN Q : Q[i].from \in Threads /\ Q[i].request \in Counts
        BY SShapes DEF SInv
  <2>2. at \in 1..n
        BY <2>1 DEF Serve, SInv, STypeOK
  <2> QED BY <2>1, <2>2
<1>2. /\ \A i, j \in DOMAIN Q : Q[i].from = Q[j].from => i = j
      /\ \A i, j \in DOMAIN Q' : Q'[i].from = Q'[j].from => i = j
      /\ \A i \in DOMAIN Q : i # at => Q[i].from # t
      /\ t \in SLive
      BY <1>1 DEF SInv, Queue, SLive, Exits, Sleeping
<1>3. /\ ALLOC' = alloc2 /\ NEED' = nd2 /\ AVAILABLE' = Sub(AVAILABLE, q)
      /\ Leq(q, AVAILABLE)
      /\ issafe(SLive, AVAILABLE', ALLOC', NEED')
      /\ Q' = RemoveAt(Q, at) /\ SLive' = SLive /\ SLive = Threads \ exited'
      BY DEF Serve, canserve, safetoallocate, SLive
<1>4. /\ AVAILABLE' \in Counts
      /\ ALLOC' \in [Threads -> Counts] /\ NEED' \in [Threads -> Counts]
      /\ Work(AVAILABLE', ALLOC', Threads) = Total
      /\ \A u \in exited' : ALLOC'[u] = Zero
      BY DEF SInv, STypeOK, SBooks
<1>5. SLive \in SUBSET Threads /\ \A u \in Threads \ SLive : ALLOC'[u] = Zero
      BY <1>3, <1>4 DEF SLive
<1>6. Work(AVAILABLE', ALLOC', SLive) \in Counts
  <2>1. IsFiniteSet(Threads) /\ Threads \in SUBSET Threads /\ Total \in Counts
        BY ClaimsAssumption DEF ClaimsAssumption
  <2>2. Work(AVAILABLE', ALLOC', Threads) = Work(AVAILABLE', ALLOC', SLive)
        BY <1>4, <1>5, <2>1, WorkSkipsQuit
  <2> QED BY <1>4, <2>1, <2>2
<1>7. Safe(SLive, AVAILABLE', ALLOC', NEED')
  <2>1. SLive \in SUBSET SLive /\ \A u \in SLive \ SLive : ALLOC'[u] = Zero
        OBVIOUS
  <2> QED BY <1>3, <1>4, <1>5, <1>6, <2>1, SafetyCheckSound
<1> DEFINE old(i) == IF i < at THEN i ELSE i + 1
<1>8. DOMAIN Q' = 1..(n - 1) /\ \A i \in 1..(n - 1) : Q'[i] = Q[old(i)]
  <2>1. /\ DOMAIN RemoveAt(Q, at) = 1..(n - 1)
        /\ \A i \in 1..(n - 1) :
              RemoveAt(Q, at)[i] = IF i < at THEN Q[i] ELSE Q[i + 1]
        BY <1>1, EntryRemoved
  <2> QED BY <2>1, <1>3
<1>9. \A i \in DOMAIN Q' : old(i) \in DOMAIN Q /\ old(i) # at /\ Q'[i] = Q[old(i)]
      BY <1>1, <1>8
<1>10. \A k \in DOMAIN Q : k # at => \E i \in DOMAIN Q' : old(i) = k
  <2>1. ASSUME NEW k \in DOMAIN Q, k # at PROVE \E i \in DOMAIN Q' : old(i) = k
    <3>1. CASE k < at
          BY <3>1, <1>1, <1>8
    <3>2. CASE ~(k < at)
      <4>1. k \in 1..n /\ k > at
            BY <2>1, <3>2, <1>1
      <4>2. k - 1 \in 1..(n - 1) /\ old(k - 1) = k
            BY <4>1, <1>1
      <4> QED BY <4>2, <1>8
    <3> QED BY <3>1, <3>2
  <2> QED BY <2>1
<1>11. SWaitsIn(Q)[t] = q
       BY <1>1, <1>2, SWaitsFor
<1> HIDE DEF n, q, t, alloc2, nd2, old
<1>12. SWaitsIn(Q') = [SWaitsIn(Q) EXCEPT ![t] = None]
  <2>1. \A i \in DOMAIN Q' : Q'[i].from # t
        BY <1>2, <1>9
  <2>2. SWaitsIn(Q')[t] = None
        BY <2>1, <1>1, <1>2, SWaitsFor
  <2>3. ASSUME NEW u \in Threads, u # t PROVE SWaitsIn(Q')[u] = SWaitsIn(Q)[u]
    <3>1. CASE \A k \in DOMAIN Q : Q[k].from # u
      <4>1. \A i \in DOMAIN Q' : Q'[i].from # u
            BY <3>1, <1>9
      <4> QED BY <3>1, <4>1, <1>2, SWaitsFor
    <3>2. CASE \E k \in DOMAIN Q : Q[k].from = u
      <4>1. PICK k \in DOMAIN Q : Q[k].from = u
            BY <3>2
      <4>2. PICK i \in DOMAIN Q' : old(i) = k
            BY <4>1, <2>3, <1>10 DEF t
      <4>3. Q'[i] = Q[k]
            BY <4>2, <1>9
      <4>4. SWaitsIn(Q)[u] = Q[k].request
            BY <4>1, <1>2, SWaitsFor
      <4>5. SWaitsIn(Q')[u] = Q'[i].request
            BY <4>1, <4>3, <1>2, SWaitsFor
      <4> QED BY <4>3, <4>4, <4>5
    <3> QED BY <3>1, <3>2
  <2>4. /\ SWaitsIn(Q) = [u \in Threads |-> SWaitsIn(Q)[u]]
        /\ SWaitsIn(Q') = [u \in Threads |-> SWaitsIn(Q')[u]]
        BY DEF SWaitsIn
  <2> QED BY <2>2, <2>3, <2>4, <1>1
<1>13. q # None
       BY <1>1, ClaimsAssumption DEF ClaimsAssumption, Counts
<1>14. SBanker!Grant(t)
  <2>1. SBanker!Safe(SLive, Sub(AVAILABLE, q), alloc2, nd2)
        BY <1>3, <1>7, SSameSafe
  <2> QED BY <1>1, <1>2, <1>3, <1>11, <1>12, <1>13, <2>1, SSameOperators
          DEF SBanker!Grant, SBanker!Grantable, SWaitsIn, QueuedBy, alloc2, nd2
<1> QED BY <1>1, <1>14 DEF SBanker!Next, SBanker!Grant, SBanker!Grantable

(* Every other step leaves the banker's books alone. *)
LEMMA SBankerNext == SInv /\ SInv' /\ [SNext]_sVars => [Avoid => SBanker!Next]_(SBanker!vars)
<1> SUFFICES ASSUME SInv, SInv', [SNext]_sVars, Avoid
             PROVE  SBanker!Next \/ UNCHANGED SBanker!vars
    OBVIOUS
<1>0. UNCHANGED <<AVAILABLE, ALLOC, NEED, Q, exited>> => UNCHANGED SBanker!vars
      BY DEF SBanker!vars, SLive, QueuedBy
<1>1. CASE ReceiveRequest
      BY <1>1, BooksRequest
<1>2. CASE SReceiveQuit
      BY <1>2, SBooksQuit
<1>3. CASE Serve
      BY <1>3, SServesGrant
<1>4. CASE Signal \/ PassOver \/ EndServe
      BY <1>0, <1>4 DEF Signal, PassOver, EndServe, sTables
<1>5. CASE \E t \in Threads : ThreadStep(t)
  <2>1. PICK t \in Threads : ThreadStep(t)
        BY <1>5
  <2>2. PICK from, to : ThreadGoes(t, from, to)
        BY <2>1 DEF ThreadStep, PostRequest, PostQuit, UnlockRmtx, SSleep
  <2> QED BY <1>0, <2>2 DEF ThreadGoes, sTables
<1>6. CASE UNCHANGED sVars
      BY <1>0, <1>6 DEF sVars
<1> QED BY <1>1, <1>2, <1>3, <1>4, <1>5, <1>6 DEF SNext, SMaster

(* Under avoidance the master is the banker: what it books and grants are  *)
(* steps of Banker, and it grants nothing that leaves the state unsafe.    *)
THEOREM SRefinement == SSpec => SImplementsBanker
BY SInvariance, SBankerInit, SBankerNext, PTL DEF SSpec, SImplementsBanker

-----------------------------------------------------------------------------
(* One traversal of the queue is enough *)

(* What granting entry i would leave, which fits the tables; the code's    *)
(* check of it is exact.                                                   *)
SAllocates(i) == [ALLOC EXCEPT ![Q[i].from] = Add(@, Q[i].request)]
STakes(i)     == [NEED EXCEPT ![Q[i].from] = Sub(@, Q[i].request)]
SLeaves(i)    == Sub(AVAILABLE, Q[i].request)

SSafeAfter(i) == Safe(SLive, SLeaves(i), SAllocates(i), STakes(i))

SGrantsFit ==
    \A i \in DOMAIN Q : Leq(Q[i].request, AVAILABLE) =>
        /\ SLeaves(i) \in Counts
        /\ SAllocates(i) \in [Threads -> Counts] /\ STakes(i) \in [Threads -> Counts]
        /\ safetoallocate(Q[i]) <=> SSafeAfter(i)

(* This holds of every queued request that is free: it is part of the      *)
(* thread's need, and the code's check is exact (SafetyCheckSound,         *)
(* SafetyCheckComplete).                                                   *)
LEMMA SGrantFits == SInv => SGrantsFit
<1> SUFFICES ASSUME SInv, NEW i \in DOMAIN Q, Leq(Q[i].request, AVAILABLE)
             PROVE  /\ SLeaves(i) \in Counts
                    /\ SAllocates(i) \in [Threads -> Counts] /\ STakes(i) \in [Threads -> Counts]
                    /\ safetoallocate(Q[i]) <=> SSafeAfter(i)
    BY DEF SGrantsFit
<1> DEFINE t == Q[i].from
           q == Q[i].request
<1>1. /\ t \in Threads /\ q \in Counts /\ q \in [Resources -> Nat]
      /\ t \in SLive /\ t \notin exited /\ Leq(q, NEED[t])
  <2>1. t \in Threads /\ q \in Counts
        BY SShapes DEF SInv
  <2> QED BY <2>1, ClaimsAssumption
          DEF SInv, Queue, SLive, Exits, Sleeping, Counts, ClaimsAssumption
<1>2. /\ ALLOC[t] \in Counts /\ NEED[t] \in Counts /\ maxNeed[t] \in Counts
      /\ ALLOC \in [Threads -> Counts] /\ NEED \in [Threads -> Counts]
      /\ AVAILABLE \in Counts
      BY <1>1, SShapes DEF STypeOK, SInv
<1>3. maxNeed[t] = Add(ALLOC[t], NEED[t])
      BY <1>1 DEF SInv, SBooks
<1>4. Add(ALLOC[t], q) \in Counts /\ Sub(NEED[t], q) \in Counts
      BY <1>1, <1>2, <1>3, MoveClaim
<1>5. /\ SAllocates(i) = [ALLOC EXCEPT ![t] = Add(@, q)]
      /\ STakes(i) = [NEED EXCEPT ![t] = Sub(@, q)]
      /\ SLeaves(i) = Sub(AVAILABLE, q) /\ Leq(q, AVAILABLE)
      BY DEF SAllocates, STakes, SLeaves
<1>6. SAllocates(i) \in [Threads -> Counts] /\ STakes(i) \in [Threads -> Counts]
      BY <1>1, <1>2, <1>4, <1>5
<1>7. \A u \in Threads : u # t => SAllocates(i)[u] = ALLOC[u]
      BY <1>2, <1>5
<1> HIDE DEF t, q
<1>8. Work(SLeaves(i), SAllocates(i), Threads) = Total
  <2>1. AVAILABLE \in Vector /\ ALLOC \in [Threads -> Vector] /\ q \in Vector
        BY <1>1, <1>2, CountsAreVectors
  <2>2. Work(Sub(AVAILABLE, q), [ALLOC EXCEPT ![t] = Add(@, q)], Threads)
           = Work(AVAILABLE, ALLOC, Threads)
        BY <1>1, <2>1, WorkMoves
  <2>3. Work(AVAILABLE, ALLOC, Threads) = Total
        BY DEF SInv, SBooks
  <2> QED BY <1>5, <2>2, <2>3
<1>9. SLeaves(i) \in Counts
  <2>1. SLeaves(i) \in [Resources -> Nat]
        BY <1>1, <1>2, <1>5, ClaimsAssumption DEF Counts, Sub, Leq, ClaimsAssumption
  <2> QED BY <1>6, <1>8, <2>1, FreeIsCounted
<1>10. \A u \in Threads \ SLive : SAllocates(i)[u] = Zero
  <2>1. \A u \in Threads \ SLive : u \in exited /\ u # t
        BY <1>1 DEF SLive
  <2> QED BY <2>1, <1>7 DEF SInv, SBooks
<1>11. Work(SLeaves(i), SAllocates(i), SLive) \in Counts
  <2>1. /\ IsFiniteSet(Threads) /\ Threads \in SUBSET Threads /\ Total \in Counts
        /\ SLive \in SUBSET Threads
        BY ClaimsAssumption DEF ClaimsAssumption, SLive
  <2>2. Work(SLeaves(i), SAllocates(i), Threads) = Work(SLeaves(i), SAllocates(i), SLive)
        BY <1>6, <1>9, <1>10, <2>1, WorkSkipsQuit
  <2> QED BY <1>8, <2>1, <2>2
<1>12. issafe(SLive, SLeaves(i), SAllocates(i), STakes(i)) <=> SSafeAfter(i)
  <2>1. /\ SLive \in SUBSET Threads /\ SLive \in SUBSET SLive
        /\ \A u \in SLive \ SLive : SAllocates(i)[u] = Zero /\ STakes(i)[u] = Zero
        BY DEF SLive
  <2>2. issafe(SLive, SLeaves(i), SAllocates(i), STakes(i)) => SSafeAfter(i)
        BY <2>1, <1>6, <1>9, <1>11, SafetyCheckSound DEF SSafeAfter
  <2>3. SSafeAfter(i) => issafe(SLive, SLeaves(i), SAllocates(i), STakes(i))
        BY <2>1, <1>6, <1>9, SafetyCheckComplete DEF SSafeAfter
  <2> QED BY <2>2, <2>3
<1>13. safetoallocate(Q[i]) <=> issafe(SLive, SLeaves(i), SAllocates(i), STakes(i))
       BY DEF safetoallocate, SLive, SLeaves, SAllocates, STakes
<1> QED BY <1>6, <1>9, <1>12, <1>13

(* No entry that the traversal has passed could be granted: granting       *)
(* another one since has left less free, and has left no order that would  *)
(* serve this one where there was none.                                    *)
SPassed ==
    /\ mpc \in {"serve", "signal"} => \A i \in 1..(at - 1) : ~canserve(Q[i])
    /\ NothingGrantableLeft

(* A grant in the course of a traversal (lines 329-346) makes nothing      *)
(* grantable that the traversal has passed (EarlierGrantSafe).             *)
LEMMA ServeKeepsPassed ==
    ASSUME SInv, SInv', SPassed, Serve, Avoid' = Avoid
    PROVE  SPassed'
<1> DEFINE n == Len(Q)
           q == Q[at].request
           t == Q[at].from
<1>1. /\ n \in Nat /\ DOMAIN Q = 1..n /\ Q \in Seq(Entries) /\ at \in 1..n
      /\ t \in Threads /\ q \in Counts
      /\ \A i \in DOMAIN Q : Q[i].from \in Threads /\ Q[i].request \in Counts
  <2>1. /\ n \in Nat /\ DOMAIN Q = 1..n /\ Q \in Seq(Entries)
        /\ \A i \in DOMAIN Q : Q[i].from \in Threads /\ Q[i].request \in Counts
        BY SShapes DEF SInv
  <2>2. at \in 1..n
        BY <2>1 DEF Serve, SInv, STypeOK
  <2> QED BY <2>1, <2>2
<1>2. /\ ALLOC' = SAllocates(at) /\ NEED' = STakes(at) /\ AVAILABLE' = SLeaves(at)
      /\ Leq(q, AVAILABLE) /\ Q' = RemoveAt(Q, at)
      /\ mpc = "serve" /\ mpc' = "signal" /\ at' = at /\ SLive' = SLive
      BY DEF Serve, canserve, SLive, SLeaves, SAllocates, STakes
<1>3. /\ DOMAIN Q' = 1..(n - 1)
      /\ \A i \in 1..(at - 1) : i \in DOMAIN Q /\ i \in DOMAIN Q' /\ i # at /\ Q'[i] = Q[i]
  <2>1. /\ DOMAIN RemoveAt(Q, at) = 1..(n - 1)
        /\ \A i \in 1..(n - 1) :
              RemoveAt(Q, at)[i] = IF i < at THEN Q[i] ELSE Q[i + 1]
        BY <1>1, EntryRemoved
  <2>2. \A i \in 1..(at - 1) : i \in 1..n /\ i \in 1..(n - 1) /\ i < at
        BY <1>1
  <2> QED BY <2>1, <2>2, <1>1, <1>2
<1>4. ASSUME NEW i \in 1..(at - 1), canserve(Q[i])'
      PROVE  canserve(Q[i])
  <2> DEFINE p == Q[i].request
             u == Q[i].from
  <2>1. /\ i \in DOMAIN Q /\ i \in DOMAIN Q' /\ Q'[i] = Q[i]
        /\ p \in Counts /\ u \in Threads /\ u # t /\ t \in SLive
    <3>1. i \in DOMAIN Q /\ i \in DOMAIN Q' /\ Q'[i] = Q[i] /\ i # at
          BY <1>3
    <3> QED BY <3>1, <1>1 DEF SInv, Queue, SLive, Exits, Sleeping
  <2>2. Leq(p, AVAILABLE') /\ (Avoid => safetoallocate(Q[i])')
    <3>1. Leq(Q'[i].request, AVAILABLE')
          BY <1>4 DEF canserve
    <3>2. Avoid' => safetoallocate(Q[i])'
          BY <1>4 DEF canserve
    <3> QED BY <3>1, <3>2, <2>1
  <2>3. /\ AVAILABLE \in Counts /\ AVAILABLE' = Sub(AVAILABLE, q) /\ Leq(q, AVAILABLE)
        /\ AVAILABLE \in Vector /\ q \in Vector /\ p \in Vector /\ AVAILABLE' \in Vector
        BY <1>1, <1>2, <2>1, CountsAreVectors, VectorOps DEF SInv, STypeOK, SLeaves
  <2>4. Leq(p, AVAILABLE)
    <3>1. /\ \A r \in Resources : p[r] <= AVAILABLE'[r]
          /\ \A r \in Resources : AVAILABLE'[r] = AVAILABLE[r] - q[r]
          BY <2>2, <2>3, VectorOps
    <3>2. \A r \in Resources : /\ q[r] \in Nat /\ p[r] \in Nat
                                 /\ AVAILABLE[r] \in Nat /\ AVAILABLE'[r] \in Int
          BY <1>1, <2>1, <2>3, ClaimsAssumption DEF Counts, Vector, ClaimsAssumption
    <3>3. \A r \in Resources : p[r] <= AVAILABLE[r]
          BY <3>1, <3>2
    <3> QED BY <3>3, <2>3, VectorOps
  <2>5. ASSUME Avoid PROVE SSafeAfter(i)
    <3>1. SGrantsFit'
          BY SGrantFits, PTL
    <3>2. /\ SLeaves(i)' \in Counts
          /\ SAllocates(i)' \in [Threads -> Counts] /\ STakes(i)' \in [Threads -> Counts]
          /\ SSafeAfter(i)'
          BY <3>1, <2>1, <2>2, <2>5 DEF SGrantsFit
    <3>3. /\ SAllocates(i)'[t] = Add(ALLOC[t], q) /\ STakes(i)'[t] = Sub(NEED[t], q)
          /\ SAllocates(i)' = [SAllocates(at) EXCEPT ![u] = Add(@, p)]
          /\ STakes(i)' = [STakes(at) EXCEPT ![u] = Sub(@, p)]
          /\ SLeaves(i)' = Sub(Sub(AVAILABLE, q), p)
          /\ ALLOC \in [Threads -> Counts] /\ NEED \in [Threads -> Counts]
          BY <1>1, <1>2, <2>1, <2>3 DEF SAllocates, STakes, SLeaves, SInv, STypeOK
    <3>4. /\ ALLOC[t] \in Counts /\ NEED[t] \in Counts
          /\ ALLOC[t] \in Vector /\ NEED[t] \in Vector
          BY <3>3, <1>1, CountsAreVectors
    <3> HIDE DEF t, q, p, u
    <3>5. /\ Sub(Add(ALLOC[t], q), q) = ALLOC[t] /\ Add(Sub(NEED[t], q), q) = NEED[t]
          /\ Add(Sub(Sub(AVAILABLE, q), p), q) = Sub(AVAILABLE, p)
          BY <3>4, <2>3, VectorUndo
    <3>6. Leq(q, Add(ALLOC[t], q))
      <4>1. \A r \in Resources : ALLOC[t][r] \in Nat /\ q[r] \in Int
            BY <3>4, <2>3, ClaimsAssumption DEF Counts, Vector, ClaimsAssumption
      <4>2. \A r \in Resources : Add(ALLOC[t], q)[r] = ALLOC[t][r] + q[r]
            BY <3>4, <2>3, VectorOps
      <4>3. \A r \in Resources : q[r] <= Add(ALLOC[t], q)[r]
            BY <4>1, <4>2
      <4>4. Add(ALLOC[t], q) \in Vector
            BY <3>4, <2>3, VectorOps
      <4> QED BY <4>3, <4>4, <2>3, VectorOps
    <3>7. Safe(SLive, Add(SLeaves(i)', q), [SAllocates(i)' EXCEPT ![t] = Sub(@, q)],
               [STakes(i)' EXCEPT ![t] = Add(@, q)])
      <4>1. /\ IsFiniteSet(SLive) /\ SLive \subseteq Threads
            /\ Safe(SLive, SLeaves(i)', SAllocates(i)', STakes(i)')
        <5>1. SLive \subseteq Threads
              BY DEF SLive
        <5> QED BY <5>1, <3>2, <1>2, ClaimsAssumption, FS_Subset
                DEF SSafeAfter, ClaimsAssumption
      <4>2. Leq(q, SAllocates(i)'[t]) /\ t \in SLive /\ q \in Counts
            BY <3>3, <3>6, <1>1, <2>1
      <4> DEFINE A == SAllocates(i)'
                 T == STakes(i)'
                 L == SLeaves(i)'
      <4>3. /\ A \in [Threads -> Counts] /\ T \in [Threads -> Counts] /\ L \in Counts
            /\ Safe(SLive, L, A, T) /\ Leq(q, A[t])
            BY <4>1, <4>2, <3>2
      <4> HIDE DEF A, T, L
      <4>4. Safe(SLive, Add(L, q), [A EXCEPT ![t] = Sub(@, q)], [T EXCEPT ![t] = Add(@, q)])
            BY <4>1, <4>2, <4>3, ReturnKeepsSafe
      <4> QED BY <4>4 DEF A, T, L
    <3>8. /\ [SAllocates(i)' EXCEPT ![t] = Sub(@, q)] = SAllocates(i)
          /\ [STakes(i)' EXCEPT ![t] = Add(@, q)] = STakes(i)
          /\ Add(SLeaves(i)', q) = SLeaves(i)
      <4>1. /\ SAllocates(i) = [ALLOC EXCEPT ![u] = Add(@, p)]
            /\ STakes(i) = [NEED EXCEPT ![u] = Sub(@, p)]
            /\ SLeaves(i) = Sub(AVAILABLE, p)
            /\ SAllocates(at) = [ALLOC EXCEPT ![t] = Add(@, q)]
            /\ STakes(at) = [NEED EXCEPT ![t] = Sub(@, q)]
            BY DEF SAllocates, STakes, SLeaves, t, q, p, u
      <4>2. t \in Threads /\ u \in Threads /\ u # t
            BY <1>1, <2>1
      <4>3. [SAllocates(i)' EXCEPT ![t] = Sub(@, q)] = SAllocates(i)
        <5>1. SAllocates(i)' = [x \in Threads |-> IF x = t THEN Add(ALLOC[t], q)
                                                 ELSE IF x = u THEN Add(ALLOC[u], p)
                                                 ELSE ALLOC[x]]
              BY <4>1, <4>2, <3>3
        <5>2. SAllocates(i) = [x \in Threads |-> IF x = u THEN Add(ALLOC[u], p)
                                                ELSE ALLOC[x]]
              BY <4>1, <4>2, <3>3
        <5> QED BY <5>1, <5>2, <4>2, <3>5
      <4>4. [STakes(i)' EXCEPT ![t] = Add(@, q)] = STakes(i)
        <5>1. STakes(i)' = [x \in Threads |-> IF x = t THEN Sub(NEED[t], q)
                                             ELSE IF x = u THEN Sub(NEED[u], p)
                                             ELSE NEED[x]]
              BY <4>1, <4>2, <3>3
        <5>2. STakes(i) = [x \in Threads |-> IF x = u THEN Sub(NEED[u], p) ELSE NEED[x]]
              BY <4>1, <4>2, <3>3
        <5> QED BY <5>1, <5>2, <4>2, <3>5
      <4> QED BY <4>1, <4>3, <4>4, <3>3, <3>5
    <3> QED BY <3>7, <3>8 DEF SSafeAfter
  <2> QED BY <2>1, <2>4, <2>5, SGrantFits DEF SGrantsFit, canserve
<1> QED BY <1>2, <1>4 DEF SPassed, NothingGrantableLeft

(* There is nothing in the queue at the start. *)
LEMMA SPassedInit == SInit => SPassed
<1> SUFFICES ASSUME SInit PROVE SPassed
    OBVIOUS
<1>1. DOMAIN Q = {}
      BY EmptySeq, LenProperties DEF SInit
<1> QED BY <1>1 DEF SInit, SPassed, NothingGrantableLeft

(* Requests join the queue before a traversal begins; after that they      *)
(* leave it or are passed.                                                 *)
LEMMA SPassedNext == SInv /\ SInv' /\ SPassed /\ [SNext]_sVars => SPassed'
<1> SUFFICES ASSUME SInv, SInv', SPassed, [SNext]_sVars PROVE SPassed'
    OBVIOUS
<1>0. /\ Len(Q) \in Nat /\ DOMAIN Q = 1..Len(Q) /\ at \in 1..(Len(Q) + 1)
      BY SShapes DEF SInv, STypeOK
<1>1. ASSUME UNCHANGED <<AVAILABLE, ALLOC, NEED, Q, exited, Avoid>>
      PROVE  \A i \in DOMAIN Q : canserve(Q[i])' <=> canserve(Q[i])
      BY <1>1 DEF canserve, safetoallocate
<1>2. ASSUME UNCHANGED <<AVAILABLE, ALLOC, NEED, Q, exited, Avoid, mpc, at>>
      PROVE  SPassed'
  <2>1. \A i \in 1..(at - 1) : i \in DOMAIN Q
        BY <1>0
  <2> QED BY <1>1, <1>2, <2>1 DEF SPassed, NothingGrantableLeft
<1>3. CASE ReceiveRequest \/ SReceiveQuit
  <2>1. mpc' \in {"serve", "exit"} /\ at' = 1
        BY <1>3 DEF ReceiveRequest, SReceiveQuit
  <2>2. 1..(1 - 1) = {}
        OBVIOUS
  <2> QED BY <2>1, <2>2 DEF SPassed, NothingGrantableLeft
<1>4. CASE Serve /\ UNCHANGED Avoid
      BY <1>4, ServeKeepsPassed
<1>5. CASE Signal /\ UNCHANGED Avoid
  <2>1. /\ UNCHANGED <<AVAILABLE, ALLOC, NEED, Q, exited, Avoid, at>>
        /\ mpc = "signal" /\ mpc' = "serve"
        BY <1>5 DEF Signal, sTables
  <2>2. \A i \in 1..(at - 1) : i \in DOMAIN Q
        BY <1>0
  <2> QED BY <1>1, <2>1, <2>2 DEF SPassed, NothingGrantableLeft
<1>6. CASE PassOver /\ UNCHANGED Avoid
  <2>1. /\ UNCHANGED <<AVAILABLE, ALLOC, NEED, Q, exited, Avoid>>
        /\ mpc = "serve" /\ mpc' = "serve" /\ ~canserve(Q[at]) /\ at' = at + 1
        /\ at <= Len(Q)
        BY <1>6 DEF PassOver, sTables
  <2>2. \A i \in 1..(at' - 1) : i \in DOMAIN Q /\ (i = at \/ i \in 1..(at - 1))
        BY <1>0, <2>1
  <2> QED BY <1>1, <2>1, <2>2 DEF SPassed, NothingGrantableLeft
<1>7. CASE EndServe /\ UNCHANGED Avoid
  <2>1. /\ UNCHANGED <<AVAILABLE, ALLOC, NEED, Q, exited, Avoid>>
        /\ mpc = "serve" /\ mpc' = "receive" /\ at > Len(Q)
        BY <1>7 DEF EndServe, sTables
  <2>2. \A i \in DOMAIN Q : i \in 1..(at - 1)
        BY <1>0, <2>1
  <2> QED BY <1>1, <2>1, <2>2 DEF SPassed, NothingGrantableLeft
<1>8. CASE \E t \in Threads : ThreadStep(t)
  <2>1. PICK t \in Threads : ThreadStep(t)
        BY <1>8
  <2>2. PICK from, to : ThreadGoes(t, from, to)
        BY <2>1 DEF ThreadStep, PostRequest, PostQuit, UnlockRmtx, SSleep
  <2>3. Avoid' = Avoid
        BY <2>1 DEF ThreadStep
  <2> QED BY <1>2, <2>2, <2>3 DEF ThreadGoes, sTables
<1>9. CASE UNCHANGED sVars
      BY <1>2, <1>9 DEF sVars
<1> QED BY <1>3, <1>4, <1>5, <1>6, <1>7, <1>8, <1>9 DEF SNext, SMaster

(* The master never waits for the next request with one in its queue that  *)
(* it could grant.                                                         *)
THEOREM OneTraversalIsEnough == SSpec => []NothingGrantableLeft
<1>1. SPassed => NothingGrantableLeft
      BY DEF SPassed
<1> QED BY <1>1, SInvariance, SPassedInit, SPassedNext, PTL DEF SSpec

-----------------------------------------------------------------------------
(* Avoidance avoids deadlock *)

(* What the banker's threads wait for is what they have in the queue. *)
LEMMA SWaitsAre ==
    /\ [t \in Threads |-> IF QueuedBy(t) = {} THEN None
                          ELSE Q[CHOOSE i \in DOMAIN Q : Q[i].from = t].request]
          = SWaitsIn(Q)
    /\ [t \in Threads |-> IF QueuedBy(t) = {} THEN None
                          ELSE Q[CHOOSE i \in DOMAIN Q : Q[i].from = t].request]'
          = SWaitsIn(Q)'
BY DEF SWaitsIn, QueuedBy

(* The master's books, and what its threads wait for, as a banker keeps     *)
(* them.                                                                   *)
SInOrder == BankersBooks(SLive, AVAILABLE, ALLOC, NEED, SWaitsIn(Q))

(* They are in order at the start, ... *)
LEMMA SInOrderInit == SInit => SInOrder
<1> SUFFICES ASSUME SBanker!Init PROVE SInOrder
    BY SBankerInit
<1> QED BY BooksOpen, SSameOperators, SWaitsAre DEF SBanker!Init, SInOrder

(* ... and under avoidance every step is one of the banker's, who keeps    *)
(* them in order.                                                          *)
LEMMA SInOrderNext ==
    SInOrder /\ Avoid /\ [Avoid => SBanker!Next]_(SBanker!vars) => SInOrder'
<1> SUFFICES ASSUME SInOrder, [SBanker!Next]_(SBanker!vars) PROVE SInOrder'
    OBVIOUS
<1> DEFINE waits == SWaitsIn(Q)
<1> USE SSameOperators
<1>1. ASSUME NEW t \in Threads, NEW back \in Counts, NEW want \in Counts,
             SBanker!Request(t, back, want)
      PROVE  SInOrder'
  <2>1. /\ t \in SLive /\ Leq(back, ALLOC[t]) /\ Leq(want, NEED[t])
        /\ AVAILABLE' = Add(AVAILABLE, back)
        /\ ALLOC' = [ALLOC EXCEPT ![t] = Sub(@, back)]
        /\ NEED' = [NEED EXCEPT ![t] = Add(@, back)]
        /\ waits' = [waits EXCEPT ![t] = IF IsZero(want) THEN None ELSE want]
        /\ SLive' = SLive
        BY <1>1, SWaitsAre DEF SBanker!Request
  <2>2. BankersBooks(SLive, AVAILABLE, ALLOC, NEED, waits)
        BY DEF SInOrder
  <2> HIDE DEF waits
  <2>3. BankersBooks(SLive', AVAILABLE', ALLOC', NEED', waits')
        BY <2>1, <2>2, BooksOfRequest
  <2> QED BY <2>3 DEF SInOrder, waits
<1>2. ASSUME NEW t \in Threads, SBanker!Grant(t) PROVE SInOrder'
  <2>1. /\ t \in SLive /\ waits[t] # None
        /\ Safe(SLive, Sub(AVAILABLE, waits[t]), [ALLOC EXCEPT ![t] = Add(@, waits[t])],
                [NEED EXCEPT ![t] = Sub(@, waits[t])])
        /\ AVAILABLE' = Sub(AVAILABLE, waits[t])
        /\ ALLOC' = [ALLOC EXCEPT ![t] = Add(@, waits[t])]
        /\ NEED' = [NEED EXCEPT ![t] = Sub(@, waits[t])]
        /\ waits' = [waits EXCEPT ![t] = None]
        /\ SLive' = SLive
        BY <1>2, SSameSafe, SWaitsAre DEF SBanker!Grant, SBanker!Grantable
  <2>2. BankersBooks(SLive, AVAILABLE, ALLOC, NEED, waits)
        BY DEF SInOrder
  <2> HIDE DEF waits
  <2>3. BankersBooks(SLive', AVAILABLE', ALLOC', NEED', waits')
        BY <2>1, <2>2, BooksOfGrant
  <2> QED BY <2>3 DEF SInOrder, waits
<1>3. ASSUME NEW t \in Threads, SBanker!Quit(t) PROVE SInOrder'
  <2>1. /\ t \in SLive
        /\ AVAILABLE' = Add(AVAILABLE, ALLOC[t])
        /\ ALLOC' = [ALLOC EXCEPT ![t] = Zero]
        /\ NEED' = [NEED EXCEPT ![t] = Zero]
        /\ waits' = waits
        /\ SLive' = SLive \ {t}
        BY <1>3, SWaitsAre DEF SBanker!Quit
  <2>2. BankersBooks(SLive, AVAILABLE, ALLOC, NEED, waits)
        BY DEF SInOrder
  <2> HIDE DEF waits
  <2>3. BankersBooks(SLive', AVAILABLE', ALLOC', NEED', waits')
        BY <2>1, <2>2, BooksOfQuit
  <2> QED BY <2>3 DEF SInOrder, waits
<1>4. CASE UNCHANGED SBanker!vars
  <2>1. /\ AVAILABLE' = AVAILABLE /\ ALLOC' = ALLOC /\ NEED' = NEED
        /\ waits' = waits /\ SLive' = SLive
        BY <1>4, SWaitsAre DEF SBanker!vars
  <2>2. BankersBooks(SLive, AVAILABLE, ALLOC, NEED, waits)
        BY DEF SInOrder
  <2> HIDE DEF waits
  <2>3. BankersBooks(SLive', AVAILABLE', ALLOC', NEED', waits')
        BY <2>1, <2>2
  <2> QED BY <2>3 DEF SInOrder, waits
<1> QED BY <1>1, <1>2, <1>3, <1>4 DEF SBanker!Next

(* The books stay in order. *)
LEMMA SInOrderAlways == SSpec => [](Avoid => SInOrder)
<1>1. SInit => (Avoid => SInOrder)
      BY SInOrderInit
<1>2. SInv /\ SInv' /\ (Avoid => SInOrder) /\ [SNext]_sVars => (Avoid => SInOrder)'
  <2>1. [SNext]_sVars => Avoid' = Avoid
        BY DEF SNext, SMaster, ThreadStep, sVars
  <2> QED BY <2>1, SBankerNext, SInOrderNext
<1> QED BY <1>1, <1>2, SInvariance, PTL DEF SSpec

(* Under avoidance the live threads can always finish one after the other, *)
(* whatever requests come in and are granted.                              *)
SAlwaysSafe == Avoid => Safe(SLive, AVAILABLE, ALLOC, NEED)

THEOREM SSafetyKept == SSpec => []SAlwaysSafe
<1>1. (Avoid => SInOrder) => SAlwaysSafe
      BY DEF SInOrder, BankersBooks, SAlwaysSafe
<1> QED BY <1>1, SInOrderAlways, PTL

(* Under avoidance, when the master waits for the next request there is a  *)
(* thread to make it: those that have not quit are never all asleep.       *)
SomeoneAwake ==
    Avoid /\ mpc = "receive" /\ SLive # {} => \E t \in SLive : tpc[t] \notin Sleeping

(* If all slept, all would be queued, and the banker's first in order      *)
(* could be granted; but the last traversal has passed it.                 *)
LEMMA AwakeIfSafe == SInv /\ SPassed /\ (Avoid => SInOrder) => SomeoneAwake
<1> SUFFICES ASSUME SInv, SPassed, SInOrder, Avoid, mpc = "receive", SLive # {},
                    \A t \in SLive : tpc[t] \in Sleeping
             PROVE  FALSE
    BY DEF SomeoneAwake
<1> DEFINE waits == SWaitsIn(Q)
<1>1. ASSUME NEW t \in SLive
      PROVE  /\ t \in Threads
             /\ \E i \in DOMAIN Q : Q[i].from = t /\ waits[t] = Q[i].request
             /\ waits[t] # None
  <2>1. t \in Threads /\ tpc[t] \in Sleeping
        BY DEF SLive
  <2>2. PICK i \in DOMAIN Q : Q[i].from = t
        BY <2>1 DEF SInv, Sleepers
  <2>3. SWaitsIn(Q)[t] = Q[i].request
        BY <2>1, <2>2, SWaitsFor DEF SInv, Queue
  <2>4. Q[i].request # None
    <3>1. Q[i].request \in Counts
          BY SShapes DEF SInv
    <3> QED BY <3>1, ClaimsAssumption DEF ClaimsAssumption, Counts
  <2> QED BY <2>1, <2>2, <2>3, <2>4
<1>2. PICK t \in SLive :
           /\ Leq(waits[t], AVAILABLE)
           /\ Safe(SLive, Sub(AVAILABLE, waits[t]), [ALLOC EXCEPT ![t] = Add(@, waits[t])],
                   [NEED EXCEPT ![t] = Sub(@, waits[t])])
  <2>1. BankersBooks(SLive, AVAILABLE, ALLOC, NEED, waits)
        BY DEF SInOrder
  <2>2. \A t \in SLive : waits[t] # None
        BY <1>1
  <2> HIDE DEF waits
  <2> QED BY <2>1, <2>2, BooksProceed
<1>3. PICK i \in DOMAIN Q : Q[i].from = t /\ waits[t] = Q[i].request
      BY <1>1
<1>4. Leq(Q[i].request, AVAILABLE) /\ SSafeAfter(i)
  <2> HIDE DEF waits
  <2> QED BY <1>2, <1>3 DEF SSafeAfter, SLeaves, SAllocates, STakes
<1>5. canserve(Q[i])
      BY <1>4, SGrantFits DEF SGrantsFit, canserve
<1> QED BY <1>5 DEF SPassed, NothingGrantableLeft

(* The banker's freedom from deadlock, carried over: under _DLAVOID the    *)
(* master of the instructor's version never waits at REQB while all        *)
(* threads that have not quit sleep on their condition variables.          *)
THEOREM NoDeadlock == SSpec => []SomeoneAwake
BY SInvariance, SInOrderAlways, SPassedInit, SPassedNext, AwakeIfSafe, PTL DEF SSpec

-----------------------------------------------------------------------------
(* The books *)

(* What thread t has, after all the requests of the queue q for it. *)
SHeldBy(q, t, base) ==
    FoldLeft(LAMBDA sum, p : IF p.from = t THEN Add(sum, p.request) ELSE sum, base, q)

(* g[k] is what it has after the first k entries. *)
SHeldAfter(g, q, t, base) ==
    /\ g[0] = base
    /\ \A k \in 1..Len(q) : g[k] = IF q[k].from = t THEN Add(g[k - 1], q[k].request)
                                   ELSE g[k - 1]

(* The sum over the queue in SConserved is the last of these. *)
LEMMA SFoldIs ==
    ASSUME NEW q \in Seq(Entries), NEW t, NEW base, NEW g, SHeldAfter(g, q, t, base)
    PROVE  SHeldBy(q, t, base) = g[Len(q)]
<1> DEFINE n == Len(q)
           who == [k \in 1..n |-> q[k].from]
           what == [k \in 1..n |-> q[k].request]
           is(f) == f = [s \in SUBSET DOMAIN q |->
                            IF s = {} THEN base
                            ELSE IF q[Max(s)].from = t
                                 THEN Add(f[s \ {Max(s)}], q[Max(s)].request)
                                 ELSE f[s \ {Max(s)}]]
           it == CHOOSE f : is(f)
<1>1. n \in Nat /\ DOMAIN q = 1..n
      BY LenProperties
<1>2. SHeldBy(q, t, base) = it[DOMAIN q]
      BY DEF SHeldBy, FoldLeft, MapThenFoldSet
<1>3. ASSUME NEW f PROVE is(f) <=> Along(f, base, who, what, t, SUBSET (1..n))
  <2> DEFINE a(s) == IF s = {} THEN base
                     ELSE IF q[Max(s)].from = t THEN Add(f[s \ {Max(s)}], q[Max(s)].request)
                     ELSE f[s \ {Max(s)}]
             b(s) == IF s = {} THEN base
                     ELSE IF who[Max(s)] = t THEN Add(f[s \ {Max(s)}], what[Max(s)])
                     ELSE f[s \ {Max(s)}]
  <2>1. ASSUME NEW s \in SUBSET (1..n) PROVE a(s) = b(s)
    <3>1. CASE s = {}
          BY <3>1
    <3>2. CASE s # {}
      <4>1. Max(s) \in 1..n
            BY <1>1, <3>2, LastPosition
      <4>2. who[Max(s)] = q[Max(s)].from /\ what[Max(s)] = q[Max(s)].request
            BY <4>1
      <4> HIDE DEF who, what
      <4> QED BY <4>2
    <3> QED BY <3>1, <3>2
  <2>2. is(f) <=> f = [s \in SUBSET (1..n) |-> a(s)]
        BY <1>1
  <2>3. Along(f, base, who, what, t, SUBSET (1..n)) <=> f = [s \in SUBSET (1..n) |-> b(s)]
        BY DEF Along
  <2> HIDE DEF a, b, is
  <2>4. [s \in SUBSET (1..n) |-> a(s)] = [s \in SUBSET (1..n) |-> b(s)]
        BY <2>1
  <2> QED BY <2>2, <2>3, <2>4
<1> HIDE DEF n, who, what, is
<1>4. Along(it, base, who, what, t, SUBSET (1..n))
  <2>1. \E f : Along(f, base, who, what, t, SUBSET (1..n))
        BY <1>1, AlongExists
  <2>2. \E f : is(f)
        BY <2>1, <1>3
  <2> QED BY <2>2, <1>3
<1> HIDE DEF it
<1>5. Reached(g, base, who, what, t, n)
  <2>1. \A k \in 1..n : who[k] = q[k].from /\ what[k] = q[k].request
        BY DEF who, what
  <2> QED BY <2>1 DEF n, Reached, SHeldAfter
<1>6. it[1..n] = g[n]
  <2>1. n \in Nat
        BY <1>1
  <2>2. ComesTo(it, n, g)
        BY <2>1, <1>4, <1>5, AlongIs
  <2> QED BY <2>2 DEF ComesTo
<1> QED BY <1>1, <1>2, <1>6 DEF n

(* The books agree with the scripts: a thread holds, by its script, what   *)
(* is booked for it and what its request on its way or in the queue will   *)
(* change.                                                                 *)
LEMMA SBooksAgree == SInv => SConserved
<1> SUFFICES ASSUME SInv PROVE SConserved
    OBVIOUS
<1> USE DEF SInv
<1>1. ASSUME NEW t \in SLive
      PROVE  held[t] = SHeldBy(Q, t,
                              IF t = reqfrom /\ tpc[t] \in {"asking", "releasing"}
                              THEN Add(ALLOC[t], REQ) ELSE ALLOC[t])
  <2> DEFINE n == Len(Q)
             base == IF t = reqfrom /\ tpc[t] \in {"asking", "releasing"}
                     THEN Add(ALLOC[t], REQ) ELSE ALLOC[t]
  <2>1. /\ n \in Nat /\ DOMAIN Q = 1..n /\ Q \in Seq(Entries) /\ t \in Threads
        BY SShapes DEF SLive
  <2>2. tpc[t] \in {"asking", "releasing"} => t = reqfrom
        BY <2>1 DEF Posted, Posting
  <2>3. CASE \A i \in DOMAIN Q : Q[i].from # t
    <3> DEFINE g == [k \in 0..n |-> base]
    <3>1. held[t] = base
          BY <2>2, <2>3, <1>1 DEF SScripts
    <3> HIDE DEF base
    <3>2. g[0] = base /\ g[n] = base
          BY <2>1
    <3>3. \A k \in 1..n : g[k] = IF Q[k].from = t THEN Add(g[k - 1], Q[k].request)
                                 ELSE g[k - 1]
          BY <2>1, <2>3
    <3> HIDE DEF g
    <3>4. SHeldBy(Q, t, base) = g[Len(Q)]
      <4>1. SHeldAfter(g, Q, t, base)
            BY <3>2, <3>3 DEF SHeldAfter
      <4> QED BY <4>1, <2>1, SFoldIs
    <3> QED BY <3>1, <3>2, <3>4 DEF base
  <2>4. CASE \E i \in DOMAIN Q : Q[i].from = t
    <3>1. PICK j \in DOMAIN Q : Q[j].from = t
          BY <2>4
    <3>2. \A i \in DOMAIN Q : Q[i].from = t <=> i = j
          BY <3>1 DEF Queue
    <3> DEFINE g == [k \in 0..n |-> IF k < j THEN base ELSE Add(base, Q[j].request)]
    <3>3. held[t] = Add(base, Q[j].request)
          BY <3>1, <2>1 DEF SScripts, Queue, Sleeping
    <3> HIDE DEF base
    <3>4. j \in 1..n
          BY <2>1
    <3>5. g[0] = base /\ g[n] = Add(base, Q[j].request)
          BY <2>1, <3>4
    <3>6. \A k \in 1..n : g[k] = IF Q[k].from = t THEN Add(g[k - 1], Q[k].request)
                                 ELSE g[k - 1]
      <4>1. \A k \in 1..n : /\ g[k] = IF k < j THEN base ELSE Add(base, Q[j].request)
                            /\ g[k - 1] = IF k - 1 < j THEN base ELSE Add(base, Q[j].request)
            BY <2>1, <3>4
      <4> HIDE DEF g
      <4> QED BY <4>1, <3>2, <3>4, <2>1
    <3> HIDE DEF g
    <3>7. SHeldBy(Q, t, base) = g[Len(Q)]
      <4>1. SHeldAfter(g, Q, t, base)
            BY <3>5, <3>6 DEF SHeldAfter
      <4> QED BY <4>1, <2>1, SFoldIs
    <3> QED BY <3>3, <3>5, <3>7 DEF base
  <2> QED BY <2>3, <2>4
<1> QED BY <1>1 DEF SConserved, SBooks, SHeldBy

(* No unit is made or lost, by the rendezvous or by the master, and what   *)
(* each thread's script says it holds is what ALLOC says and what is on    *)
(* its way (lines 120-141, 329-346 and 389-417).                           *)
THEOREM SConservedAlways == SSpec => []SConserved
BY SBooksAgree, SInvariance, PTL
=============================================================================
