----------------------- MODULE LeaderFollowersProofs ------------------------
(***************************************************************************)
(* Proofs about LeaderFollowers for any number of followers and processes, *)
(* for both versions: the inductive invariant Inv, and that turns exclude  *)
(* each other and rounds are complete as long as the numbers are unique.   *)
(***************************************************************************)
EXTENDS LeaderFollowers, FiniteSetTheorems, TLAPS

(* Every step keeps the shape of the state, M[2] between -n and n. *)
LEMMA TypeStep == TypeOK /\ Numbers /\ [Next]_vars => TypeOK'
<1> SUFFICES ASSUME TypeOK, Numbers, [Next]_vars PROVE TypeOK'
    OBVIOUS
<1> USE LeaderAssumption DEF TypeOK, LeaderMoves, Moves, FollowerSteps
<1>1. CASE Start
      BY <1>1 DEF Start
<1>2. CASE Pick
      BY <1>2 DEF Pick
<1>3. CASE AddUp
  <2>1. repeated' \in BOOLEAN
        BY <1>3 DEF AddUp
  <2> QED BY <1>3, <2>1 DEF AddUp
<1>4. CASE BeginRound
      BY <1>4 DEF BeginRound
<1>5. CASE Await
      BY <1>5 DEF Await
<1>6. CASE End
      BY <1>6 DEF End
<1>7. ASSUME NEW p \in Processes, Attach(p) \/ Test(p) \/ SeeTurn(p) \/ TellTurn(p)
      PROVE  TypeOK'
      BY <1>7 DEF Attach, Test, SeeTurn, TellTurn
<1>8. ASSUME NEW p \in Processes, Load(p) \/ Store(p) \/ Learn(p) PROVE TypeOK'
  <2>1. CASE Load(p)
        BY <2>1 DEF Load
  <2>2. CASE Store(p)
        BY <2>2 DEF Store
  <2>3. CASE Learn(p)
        BY <2>3 DEF Learn
  <2> QED BY <1>8, <2>1, <2>2, <2>3
<1>9. ASSUME NEW p \in Processes, AtWork(p) PROVE id[p] \in 1..n
      BY <1>9 DEF Numbers, AtWork, Members
<1>10. ASSUME NEW p \in Processes, Draw(p) PROVE TypeOK'
  <2>1. id[p] \in 1..n
        BY <1>9, <1>10 DEF Draw, AtWork
  <2> QED BY <1>10, <2>1 DEF Draw
<1>11. ASSUME NEW p \in Processes, Pass(p) \/ Leave(p) PROVE TypeOK'
  <2>1. id[p] \in 1..n
        BY <1>9, <1>11 DEF Pass, Leave, AtWork
  <2>2. turn' \in -n..n
        BY <1>11, <2>1 DEF Pass, Leave
  <2> QED BY <1>11, <2>2 DEF Pass, Leave
<1>12. CASE UNCHANGED vars
      BY <1>12 DEF vars
<1> QED BY <1>1, <1>2, <1>3, <1>4, <1>5, <1>6, <1>7, <1>8, <1>10, <1>11, <1>12
        DEF Next, Leader, Follower

(* Every step keeps the numbers of those at work within 1..n. *)
LEMMA NumbersStep == TypeOK /\ Numbers /\ [Next]_vars => Numbers'
<1> SUFFICES ASSUME TypeOK, Numbers, [Next]_vars, NEW q \in Processes
             PROVE  /\ fpc'[q] = "store" \/ q \in Members' => id'[q] > 0
                    /\ fpc'[q] = "learn" => id'[q] > 0 /\ joined' > 0
                    /\ AtWork(q)' => id'[q] <= n
    BY DEF Numbers
<1> USE LeaderAssumption DEF TypeOK, Numbers, Members, AtWork
<1>1. CASE Leader \/ UNCHANGED vars
      BY <1>1 DEF Leader, Start, Pick, AddUp, BeginRound, Await, End, LeaderMoves, vars
<1>2. ASSUME NEW p \in Processes, Attach(p) \/ Test(p) \/ Load(p) \/ Store(p) \/ Learn(p)
      PROVE  /\ fpc'[q] = "store" \/ q \in Members' => id'[q] > 0
             /\ fpc'[q] = "learn" => id'[q] > 0 /\ joined' > 0
             /\ AtWork(q)' => id'[q] <= n
  <2>1. CASE Attach(p) \/ Test(p)
        BY <2>1 DEF Attach, Test, Moves
  <2>2. CASE Load(p)
        BY <2>2 DEF Load, Moves
  <2>3. CASE Store(p)
        BY <2>3 DEF Store, Moves
  <2>4. CASE Learn(p)
        BY <2>4 DEF Learn, Moves
  <2> QED BY <1>2, <2>1, <2>2, <2>3, <2>4
<1>3. ASSUME NEW p \in Processes, SeeTurn(p)
      PROVE  /\ fpc'[q] = "store" \/ q \in Members' => id'[q] > 0
             /\ fpc'[q] = "learn" => id'[q] > 0 /\ joined' > 0
             /\ AtWork(q)' => id'[q] <= n
  <2>1. id[p] <= n
        BY <1>3 DEF SeeTurn
  <2> QED BY <1>3, <2>1 DEF SeeTurn, Moves
<1>4. ASSUME NEW p \in Processes, TellTurn(p) \/ Draw(p) \/ Pass(p) \/ Leave(p)
      PROVE  /\ fpc'[q] = "store" \/ q \in Members' => id'[q] > 0
             /\ fpc'[q] = "learn" => id'[q] > 0 /\ joined' > 0
             /\ AtWork(q)' => id'[q] <= n
      BY <1>4 DEF TellTurn, Draw, Pass, Leave, Moves
<1> QED BY <1>1, <1>2, <1>3, <1>4 DEF Next, Follower

(* A member keeps its number and stays a member. *)
LEMMA MembersKept ==
    ASSUME TypeOK, [Next]_vars, NEW q \in Members
    PROVE  q \in Members' /\ id'[q] = id[q]
<1> USE DEF TypeOK, Members
<1>1. CASE Leader \/ UNCHANGED vars
      BY <1>1 DEF Leader, Start, Pick, AddUp, BeginRound, Await, End, LeaderMoves, vars
<1>2. ASSUME NEW p \in Processes, Follower(p) PROVE q \in Members' /\ id'[q] = id[q]
      BY <1>2 DEF Follower, Attach, Test, Load, Store, Learn, SeeTurn, TellTurn, Draw,
                  Pass, Leave, Moves
<1> QED BY <1>1, <1>2 DEF Next

(* So numbers that are unique after a step were unique before. *)
LEMMA UniqueBefore == TypeOK /\ [Next]_vars /\ UniqueIds' => UniqueIds
BY MembersKept DEF UniqueIds

(* With unique numbers M[2] admits one process at a time. *)
LEMMA OneAtWork ==
    TypeOK /\ Numbers /\ UniqueIds /\ Turns =>
        \A p, q \in Processes : AtWork(p) /\ AtWork(q) => p = q
<1> SUFFICES ASSUME TypeOK, Numbers, UniqueIds, Turns,
                    NEW p \in Processes, NEW q \in Processes, AtWork(p), AtWork(q)
             PROVE  p = q
    OBVIOUS
<1>1. /\ p \in Members /\ q \in Members
      /\ id[p] \in Nat /\ id[p] > 0 /\ id[q] \in Nat /\ id[q] > 0
      BY DEF TypeOK, Numbers, Members, AtWork
<1>2. turn \in {id[p], -id[p]} /\ turn \in {id[q], -id[q]}
      BY DEF Turns, AtWork
<1>3. id[p] = id[q]
      BY <1>1, <1>2
<1> QED BY <1>1, <1>3 DEF UniqueIds

(* After Pass or Leave nobody is at work. *)
LEMMA NobodyAtWork ==
    ASSUME TypeOK, Numbers, UniqueIds, Turns,
           NEW p \in Processes, Pass(p) \/ Leave(p), NEW q \in Processes
    PROVE  /\ id[p] \in 1..n /\ turn = IF fpc[p] = "pass" THEN id[p] ELSE -id[p]
           /\ ~AtWork(q)'
<1>1. AtWork(p) /\ fpc[p] \in {"pass", "leave"}
      BY DEF Pass, Leave, Moves, AtWork
<1>2. id[p] \in 1..n
      BY <1>1, LeaderAssumption DEF AtWork, Numbers, Members, TypeOK
<1>3. fpc'[p] \in {"loop", "gone"} /\ (p # q => fpc'[q] = fpc[q])
      BY DEF TypeOK, Pass, Leave, Moves
<1>4. ASSUME AtWork(q) PROVE p = q
      BY <1>1, <1>4, OneAtWork
<1> QED BY <1>1, <1>2, <1>3, <1>4 DEF AtWork, Turns

(* When it is the leader's turn no follower is at work. *)
LEMMA LeaderAlone ==
    ASSUME TypeOK, Numbers, Turns, turn = 0, NEW q \in Processes
    PROVE  ~AtWork(q)
<1>1. AtWork(q) => id[q] \in Nat /\ id[q] > 0
      BY DEF TypeOK, Numbers, AtWork, Members
<1> QED BY <1>1 DEF Turns, AtWork

(* Every step hands the turn on, or leaves it where it is. *)
LEMMA TurnsStep ==
    ASSUME TypeOK, Numbers, UniqueIds, Turns, Signs, [Next]_vars
    PROVE  Turns'
<1> DEFINE At(q) == /\ fpc[q] = "turn" => turn \in {id[q], -id[q]}
                    /\ fpc[q] \in {"draw", "pass"} => turn = id[q]
                    /\ fpc[q] = "leave" => turn = -id[q]
<1> SUFFICES ASSUME NEW q \in Processes PROVE At(q)'
    BY DEF Turns
<1>0. /\ At(q) /\ turn \in Int /\ id[q] \in Nat
      /\ fpc \in [Processes -> FollowerSteps]
      BY LeaderAssumption DEF Turns, TypeOK
<1>1. CASE Leader
  <2>1. fpc' = fpc /\ id' = id
        BY <1>1 DEF Leader, Start, Pick, AddUp, BeginRound, Await, End, LeaderMoves
  <2>2. CASE BeginRound
    <3>1. ~AtWork(q)
          BY <2>2, LeaderAlone DEF BeginRound, LeaderMoves, Signs, LeaderAtWork
    <3> QED BY <2>1, <3>1 DEF AtWork
  <2>3. CASE ~BeginRound
    <3>1. turn' = turn
          BY <1>1, <2>3 DEF Leader, Start, Pick, AddUp, BeginRound, Await, End
    <3> QED BY <1>0, <2>1, <3>1
  <2> QED BY <2>2, <2>3
<1>2. ASSUME NEW p \in Processes,
             Attach(p) \/ Test(p) \/ Load(p) \/ Store(p) \/ Learn(p) \/ SeeTurn(p)
                \/ TellTurn(p) \/ Draw(p)
      PROVE  At(q)'
  <2> USE DEF Attach, Test, Load, Store, Learn, SeeTurn, TellTurn, Draw, Moves
  <2>1. turn' = turn
        BY <1>2
  <2>2. CASE p = q
        BY <1>0, <1>2, <2>1, <2>2
  <2>3. CASE p # q
    <3>1. fpc'[q] = fpc[q] /\ id'[q] = id[q]
          BY <1>0, <1>2, <2>3 DEF TypeOK
    <3> QED BY <1>0, <2>1, <3>1
  <2> QED BY <2>2, <2>3
<1>3. ASSUME NEW p \in Processes, Pass(p) \/ Leave(p) PROVE At(q)'
  <2>1. ~AtWork(q)'
        BY <1>3, NobodyAtWork
  <2> QED BY <2>1 DEF AtWork
<1>4. CASE UNCHANGED vars
      BY <1>0, <1>4 DEF vars
<1> QED BY <1>1, <1>2, <1>3, <1>4 DEF Next, Follower

(* M[2] becomes negative only when the leader announces the end. *)
LEMMA SignsStep ==
    ASSUME TypeOK, Numbers, UniqueIds, Turns, Signs, [Next]_vars
    PROVE  Signs'
<1> USE LeaderAssumption DEF Signs, LeaderAtWork
<1>1. CASE Leader
      BY <1>1 DEF TypeOK, Leader, Start, Pick, AddUp, BeginRound, Await, End, LeaderMoves
<1>2. ASSUME NEW p \in Processes,
             Attach(p) \/ Test(p) \/ Load(p) \/ Store(p) \/ Learn(p) \/ SeeTurn(p)
                \/ TellTurn(p) \/ Draw(p)
      PROVE  Signs'
      BY <1>2 DEF Attach, Test, Load, Store, Learn, SeeTurn, TellTurn, Draw, Moves
<1>3. ASSUME NEW p \in Processes, Pass(p) PROVE Signs'
  <2>1. id[p] \in 1..n /\ turn = id[p]
        BY <1>3, NobodyAtWork DEF Pass, Moves
  <2> QED BY <1>3, <2>1 DEF Pass, Moves
<1>4. ASSUME NEW p \in Processes, Leave(p) PROVE Signs'
  <2>1. id[p] \in 1..n /\ turn = -id[p]
        BY <1>4, NobodyAtWork DEF Leave, Moves
  <2> QED BY <1>4, <2>1 DEF Leave, Moves
<1>5. CASE UNCHANGED vars
      BY <1>5 DEF vars
<1> QED BY <1>1, <1>2, <1>3, <1>4, <1>5 DEF Next, Follower

(* The numbers below the turn have drawn. *)
LEMMA DrawnStep ==
    ASSUME TypeOK, Numbers, UniqueIds, Turns, Signs, Drawn, [Next]_vars
    PROVE  Drawn'
<1>n. n \in Nat /\ n > 0 /\ turn \in Int
      BY LeaderAssumption DEF TypeOK
<1>1. CASE Start \/ Pick \/ AddUp \/ Await \/ End
  <2>1. turn' = turn /\ fpc' = fpc /\ fresh' = fresh /\ version' = version
        BY <1>1 DEF Start, Pick, AddUp, Await, End, LeaderMoves
  <2>2. turn' > 0 => fresh' = 1..(IF \E p \in Processes : fpc'[p] = "pass"
                                  THEN turn' ELSE turn' - 1)
        BY <2>1 DEF Drawn
  <2> DEFINE Over == /\ turn = 0 /\ lpc \in {"await", "sum"} => RoundOver
                     /\ lpc = "pick" /\ version = "student" => RoundOver
                     /\ lpc = "waiting" => sums = {} /\ fresh = {}
  <2>3. Over'
    <3>1. Over /\ (LeaderAtWork => turn = 0) /\ version \in {"student", "solution"}
          BY DEF Drawn, Signs, TypeOK
    <3>2. CASE Start
          BY <2>1, <3>1, <3>2 DEF Start, LeaderMoves, RoundOver
    <3>3. CASE Pick
          BY <2>1, <3>1, <3>3 DEF Pick, LeaderMoves, RoundOver
    <3>4. CASE AddUp
          BY <2>1, <3>1, <3>4 DEF AddUp, LeaderMoves, RoundOver
    <3>5. CASE Await
          BY <1>n, <2>1, <3>1, <3>5 DEF Await, LeaderMoves, RoundOver, Signs
    <3>6. CASE End
          BY <2>1, <3>1, <3>6 DEF End, LeaderMoves, RoundOver
    <3> QED BY <1>1, <3>2, <3>3, <3>4, <3>5, <3>6
  <2> QED BY <2>2, <2>3 DEF Drawn
<1>2. CASE BeginRound
  <2>1. turn' \in {1, -1} /\ fresh' = {} /\ lpc' \in {"await", "end"} /\ fpc' = fpc
        BY <1>2 DEF BeginRound, LeaderMoves
  <2>2. \A p \in Processes : fpc'[p] # "pass"
        BY <1>2, <2>1, LeaderAlone DEF BeginRound, LeaderMoves, Signs, LeaderAtWork, AtWork
  <2>3. turn' > 0 => turn' - 1 = 0 /\ fresh' = 1..0
        BY <2>1
  <2>4. turn' # 0 /\ lpc' \notin {"pick", "waiting"}
        BY <2>1
  <2> QED BY <2>2, <2>3, <2>4 DEF Drawn
<1>3. ASSUME NEW p \in Processes,
             Attach(p) \/ Test(p) \/ Load(p) \/ Store(p) \/ Learn(p) \/ SeeTurn(p)
                \/ TellTurn(p)
      PROVE  Drawn'
  <2> USE DEF Attach, Test, Load, Store, Learn, SeeTurn, TellTurn, Moves
  <2>1. /\ turn' = turn /\ lpc' = lpc /\ fresh' = fresh /\ version' = version
        /\ sums' = sums
        BY <1>3
  <2>2. \A q \in Processes : fpc'[q] = "pass" <=> fpc[q] = "pass"
        BY <1>3 DEF TypeOK
  <2> QED BY <2>1, <2>2 DEF Drawn, RoundOver
<1>4. ASSUME NEW p \in Processes, Draw(p) PROVE Drawn'
  <2>1. AtWork(p) /\ id[p] \in 1..n /\ turn = id[p]
        BY <1>4, <1>n DEF Draw, Moves, AtWork, Turns, Numbers, Members, TypeOK
  <2>2. \A q \in Processes : fpc[q] # "pass"
        BY <1>4, <2>1, OneAtWork DEF AtWork, Draw, Moves
  <2>3. fresh = 1..(turn - 1) /\ fresh' = fresh \cup {turn}
        BY <1>4, <2>1, <2>2 DEF Drawn, Draw
  <2>4. fresh' = 1..turn
        BY <2>1, <2>3
  <2>5. turn' = turn /\ fpc'[p] = "pass" /\ lpc' = lpc
        BY <1>4 DEF Draw, Moves, TypeOK
  <2>6. lpc \notin {"pick", "waiting"}
        BY <2>1 DEF Signs, LeaderAtWork
  <2> QED BY <2>1, <2>4, <2>5, <2>6 DEF Drawn
<1>5. ASSUME NEW p \in Processes, Pass(p) PROVE Drawn'
  <2>1. /\ id[p] \in 1..n /\ turn = id[p] /\ fpc[p] = "pass"
        /\ \A q \in Processes : fpc'[q] # "pass"
        BY <1>5, NobodyAtWork DEF Pass, Moves, AtWork
  <2>2. fresh' = 1..turn /\ lpc' = lpc
        BY <1>5, <2>1 DEF Drawn, Pass, Moves
  <2>3. lpc \notin {"pick", "waiting"}
        BY <2>1 DEF Signs, LeaderAtWork
  <2>4. CASE id[p] = n
    <3>1. turn' = 0 /\ fresh' = 1..n
          BY <1>5, <2>1, <2>2, <2>4 DEF Pass
    <3> QED BY <2>2, <2>3, <3>1 DEF Drawn, RoundOver
  <2>5. CASE id[p] # n
    <3>1. turn' = turn + 1 /\ turn' > 0 /\ turn' - 1 = turn
          BY <1>5, <2>1, <2>5 DEF Pass
    <3> QED BY <2>1, <2>2, <2>3, <3>1 DEF Drawn
  <2> QED BY <2>4, <2>5
<1>6. ASSUME NEW p \in Processes, Leave(p) PROVE Drawn'
  <2>1. id[p] \in 1..n /\ turn = -id[p]
        BY <1>6, NobodyAtWork DEF Leave, Moves
  <2>2. lpc = "end" /\ lpc' = lpc /\ turn' <= 0
        BY <1>n, <1>6, <2>1 DEF Signs, Leave, Moves
  <2>3. ~(turn' > 0)
        BY <1>n, <1>6, <2>1 DEF Leave
  <2> QED BY <2>2, <2>3 DEF Drawn
<1>7. CASE UNCHANGED vars
  <2>1. /\ turn' = turn /\ lpc' = lpc /\ fresh' = fresh /\ version' = version
        /\ sums' = sums
        BY <1>7 DEF vars
  <2>2. \A q \in Processes : fpc'[q] = "pass" <=> fpc[q] = "pass"
        BY <1>7 DEF vars
  <2> QED BY <2>1, <2>2 DEF Drawn, RoundOver
<1> QED BY <1>1, <1>2, <1>3, <1>4, <1>5, <1>6, <1>7 DEF Next, Leader, Follower

(* Who has stored a number: the set grows by Store only, and the student's *)
(* followers keep theirs.                                                  *)
LEMMA StoredSteps ==
    ASSUME TypeOK, Numbers, Joining, [Next]_vars
    PROVE  \/ \E p \in Processes : Store(p)
           \/ /\ Stored' = Stored
              /\ version = "student" => \A q \in Stored : id'[q] = id[q]
<1> USE DEF TypeOK
<1>1. CASE Leader \/ UNCHANGED vars
  <2>1. fpc' = fpc /\ id' = id
        BY <1>1 DEF Leader, Start, Pick, AddUp, BeginRound, Await, End, LeaderMoves, vars
  <2> QED BY <2>1 DEF Stored
<1>2. ASSUME NEW p \in Processes, Load(p)
      PROVE  /\ Stored' = Stored
             /\ \A q \in Stored : id'[q] = id[q]
  <2>1. fpc[p] = "load" /\ fpc'[p] = "store" /\ id[p] = 0
        BY <1>2 DEF Load, Moves, Joining
  <2>2. \A q \in Processes \ {p} : fpc'[q] = fpc[q] /\ id'[q] = id[q]
        BY <1>2 DEF Load, Moves
  <2> QED BY <2>1, <2>2 DEF Stored
<1>3. ASSUME NEW p \in Processes, Learn(p)
      PROVE  /\ Stored' = Stored
             /\ version = "student" => id' = id
  <2>1. /\ fpc[p] = "learn" /\ fpc'[p] # "store" /\ id'[p] \in {id[p], joined}
        /\ \A q \in Processes \ {p} : fpc'[q] = fpc[q] /\ id'[q] = id[q]
        /\ version = "student" => id' = id
        BY <1>3 DEF Learn, Moves
  <2>2. id[p] > 0 /\ joined > 0
        BY <2>1 DEF Numbers
  <2> QED BY <2>1, <2>2 DEF Stored
<1>4. ASSUME NEW p \in Processes,
             Attach(p) \/ Test(p) \/ SeeTurn(p) \/ TellTurn(p) \/ Draw(p) \/ Pass(p) \/ Leave(p)
      PROVE  Stored' = Stored /\ id' = id
  <2>1. /\ id' = id /\ fpc[p] # "store" /\ fpc'[p] # "store"
        /\ \A q \in Processes \ {p} : fpc'[q] = fpc[q]
        BY <1>4 DEF Attach, Test, SeeTurn, TellTurn, Draw, Pass, Leave, Moves
  <2> QED BY <2>1 DEF Stored
<1> QED BY <1>1, <1>2, <1>3, <1>4 DEF Next, Follower

(* The one that stores k has not been counted, and makes it one more.      *)
LEMMA StoreGrows ==
    ASSUME TypeOK, Numbers, NEW p \in Processes, Store(p)
    PROVE  /\ p \notin Stored /\ Stored' = Stored \cup {p}
           /\ id' = id /\ id[p] \in Nat \ {0} /\ joined' = id[p]
           /\ Cardinality(Stored) \in Nat
           /\ Cardinality(Stored') = Cardinality(Stored) + 1
<1>1. /\ fpc[p] = "store" /\ fpc'[p] = "learn" /\ id' = id /\ joined' = id[p]
      /\ \A q \in Processes \ {p} : fpc'[q] = fpc[q]
      BY DEF Store, Moves, TypeOK
<1>2. id[p] \in Nat \ {0}
      BY <1>1 DEF TypeOK, Numbers
<1>3. p \notin Stored /\ Stored' = Stored \cup {p}
      BY <1>1, <1>2 DEF Stored
<1>4. IsFiniteSet(Stored)
      BY LeaderAssumption, FS_Subset DEF Stored
<1> QED BY <1>1, <1>2, <1>3, <1>4, FS_AddElement, FS_CardinalityType

(* What has been reached is not lost.                                      *)
LEMMA ReachedKept ==
    ASSUME TypeOK, Numbers, Joining, [Next]_vars, NEW k \in Int, Reached(k)
    PROVE  Reached(k)'
<1>1. version' = version
      BY DEF Next, Leader, Follower, Start, Pick, AddUp, BeginRound, Await, End, Attach,
             Test, Load, Store, Learn, SeeTurn, TellTurn, Draw, Pass, Leave,
             LeaderMoves, Moves, vars
<1>2. ASSUME NEW p \in Processes, Store(p) PROVE Reached(k)'
  <2>1. /\ Stored' = Stored \cup {p} /\ id' = id /\ Cardinality(Stored) \in Nat
        /\ Cardinality(Stored') = Cardinality(Stored) + 1
        BY <1>2, StoreGrows
  <2>2. k <= Cardinality(Stored)'
        BY <2>1 DEF Reached
  <2>3. IdsStored \subseteq IdsStored'
        BY <2>1 DEF IdsStored
  <2> QED BY <1>1, <2>2, <2>3 DEF Reached
<1>3. ASSUME Stored' = Stored, version = "student" => \A q \in Stored : id'[q] = id[q]
      PROVE  Reached(k)'
  <2>1. version = "student" => IdsStored \subseteq IdsStored'
        BY <1>3 DEF IdsStored
  <2> QED BY <1>1, <1>3, <2>1 DEF Reached
<1> QED BY <1>2, <1>3, StoredSteps

(* Storing k after all before it reaches k.                                *)
LEMMA StoreReaches ==
    ASSUME TypeOK, Numbers, Joining, NEW p \in Processes, Store(p)
    PROVE  Reached(joined)'
<1>1. /\ Stored' = Stored \cup {p} /\ id' = id /\ joined' = id[p]
      /\ id[p] \in Nat \ {0} /\ Cardinality(Stored) \in Nat
      /\ Cardinality(Stored') = Cardinality(Stored) + 1
      BY StoreGrows
<1>2. Reached(id[p] - 1) /\ version' = version
      BY DEF Joining, Store, Moves
<1>3. joined' <= Cardinality(Stored)'
      BY <1>1, <1>2 DEF Reached
<1>4. ASSUME version = "student" PROVE 1..joined' \subseteq IdsStored'
  <2>1. 1..(id[p] - 1) \subseteq IdsStored
        BY <1>2, <1>4 DEF Reached
  <2>2. IdsStored \subseteq IdsStored' /\ id[p] \in IdsStored'
        BY <1>1 DEF IdsStored
  <2>3. 1..id[p] \subseteq (1..(id[p] - 1)) \cup {id[p]}
        BY <1>1
  <2> QED BY <1>1, <2>1, <2>2, <2>3
<1> QED BY <1>2, <1>3, <1>4 DEF Reached

(* So M[1] never counts more than have stored a number.                    *)
LEMMA JoiningStep == TypeOK /\ Numbers /\ Joining /\ [Next]_vars => Joining'
<1> SUFFICES ASSUME TypeOK, Numbers, Joining, [Next]_vars PROVE Joining'
    OBVIOUS
<1>1. joined \in Nat
      BY DEF TypeOK
<1>2. Reached(joined)'
  <2>1. CASE joined' = joined
    <3>1. PICK k \in Int : k = joined
          BY <1>1
    <3>2. Reached(k)'
          BY <3>1, ReachedKept DEF Joining
    <3> QED BY <2>1, <3>1, <3>2 DEF Reached
  <2>2. ASSUME NEW p \in Processes, Store(p) PROVE Reached(joined)'
        BY <2>2, StoreReaches
  <2>3. joined' = joined \/ \E p \in Processes : Store(p)
        BY DEF Next, Leader, Follower, Start, Pick, AddUp, BeginRound, Await, End, Attach,
               Test, Load, Learn, SeeTurn, TellTurn, Draw, Pass, Leave, LeaderMoves, vars
  <2> QED BY <2>1, <2>2, <2>3
<1>3. ASSUME NEW q \in Processes, fpc'[q] \in {"start", "test", "load"} PROVE id'[q] = 0
  <2>1. fpc[q] \in {"start", "test", "load"} /\ id'[q] = id[q]
        BY <1>3 DEF TypeOK, Next, Leader, Follower, Start, Pick, AddUp, BeginRound, Await,
               End, Attach, Test, Load, Store, Learn, SeeTurn, TellTurn, Draw, Pass, Leave,
               LeaderMoves, Moves, vars
  <2> QED BY <2>1 DEF Joining
<1>4. ASSUME NEW q \in Processes, fpc'[q] = "store" PROVE Reached(id[q] - 1)'
  <2>1. \/ fpc[q] = "store" /\ id'[q] = id[q]
        \/ id'[q] = joined + 1
        BY <1>4 DEF TypeOK, Next, Leader, Follower, Start, Pick, AddUp, BeginRound, Await,
               End, Attach, Test, Load, Store, Learn, SeeTurn, TellTurn, Draw, Pass, Leave,
               LeaderMoves, Moves, vars
  <2>2. PICK k \in Int : k = id'[q] - 1 /\ Reached(k)
    <3>1. CASE fpc[q] = "store" /\ id'[q] = id[q]
          BY <3>1 DEF Joining, TypeOK
    <3>2. CASE id'[q] = joined + 1
      <4>1. joined \in Int /\ joined = id'[q] - 1
            BY <1>1, <3>2
      <4> QED BY <4>1 DEF Joining
    <3> QED BY <2>1, <3>1, <3>2
  <2>3. Reached(k)'
        BY <2>2, ReachedKept
  <2> QED BY <2>2, <2>3 DEF Reached
<1> QED BY <1>2, <1>3, <1>4 DEF Joining

(* The leader starts when M[1] says that n have joined: then they have.    *)
LEMMA StartStep ==
    TypeOK /\ Numbers /\ Joining /\ StartsComplete /\ [Next]_vars => StartsComplete'
<1> SUFFICES ASSUME TypeOK, Numbers, Joining, StartsComplete, [Next]_vars, lpc' # "waiting"
             PROVE  Reached(n)'
    BY DEF StartsComplete
<1>1. lpc # "waiting" \/ (joined \in Nat /\ joined >= n)
      BY DEF TypeOK, Next, Leader, Follower, Start, Pick, AddUp, BeginRound, Await, End,
             Attach, Test, Load, Store, Learn, SeeTurn, TellTurn, Draw, Pass, Leave,
             LeaderMoves, Moves, vars
<1>2. n \in Int /\ n \in Nat
      BY LeaderAssumption
<1>3. Reached(n)
  <2>1. ASSUME joined \in Nat, joined >= n PROVE Reached(n)
    <3>1. Cardinality(Stored) \in Nat
          BY LeaderAssumption, FS_Subset, FS_CardinalityType DEF Stored
    <3>2. n <= Cardinality(Stored)
          BY <1>2, <2>1, <3>1 DEF Joining, Reached
    <3>3. 1..n \subseteq 1..joined
          BY <1>2, <2>1
    <3> QED BY <3>2, <3>3 DEF Joining, Reached
  <2> QED BY <1>1, <2>1 DEF StartsComplete
<1> QED BY <1>2, <1>3, ReachedKept

-----------------------------------------------------------------------------
(* The inductive invariant: the shape of the state, the numbers of those   *)
(* at work and, with unique numbers, the order of turns and drawings.      *)
THEOREM Invariance == Spec => []Inv
<1>1. Init => Inv
  <2> SUFFICES ASSUME Init PROVE Inv
      OBVIOUS
  <2> USE LeaderAssumption DEF Init
  <2>1. TypeOK
    <3>1. 0 \in -n..n /\ 0 \in Nat
          OBVIOUS
    <3> QED BY <3>1 DEF TypeOK, FollowerSteps
  <2>2. Numbers
        BY DEF Numbers, Members, AtWork
  <2>3. Turns /\ Signs /\ Drawn
        BY DEF Turns, Signs, Drawn
  <2>4. Cardinality(Stored) \in Nat
        BY FS_Subset, FS_CardinalityType DEF Stored
  <2>5. Joining /\ StartsComplete
        BY <2>4 DEF Joining, Reached, StartsComplete
  <2> QED BY <2>1, <2>2, <2>3, <2>5 DEF Inv
<1>2. Inv /\ [Next]_vars => Inv'
  <2> SUFFICES ASSUME Inv, [Next]_vars PROVE Inv'
      OBVIOUS
  <2>1. TypeOK' /\ Numbers'
        BY TypeStep, NumbersStep DEF Inv
  <2>2. ASSUME UniqueIds' PROVE Turns' /\ Signs' /\ Drawn'
    <3>1. TypeOK /\ Numbers /\ UniqueIds /\ Turns /\ Signs /\ Drawn
          BY <2>2, UniqueBefore DEF Inv
    <3> QED BY <3>1, TurnsStep, SignsStep, DrawnStep
  <2>3. Joining' /\ StartsComplete'
        BY JoiningStep, StartStep DEF Inv
  <2> QED BY <2>1, <2>2, <2>3 DEF Inv
<1> QED BY <1>1, <1>2, PTL DEF Spec

(* The shape of the state: M[2] never names anybody beyond n. *)
THEOREM TypeCorrect == Spec => []TypeOK
<1>1. Inv => TypeOK
      BY DEF Inv
<1> QED BY <1>1, Invariance, PTL

(* Polling M[2] is mutual exclusion for any number of processes, as long   *)
(* as no two of them were given the same number when they joined.          *)
THEOREM TurnsAreExclusive == Spec => []TurnsExclusive
<1>1. Inv => TurnsExclusive
  <2> SUFFICES ASSUME Inv, UniqueIds
               PROVE  /\ \A p \in Processes :
                            AtWork(p) => turn \in {id[p], -id[p]} /\ ~LeaderAtWork
                      /\ \A p, q \in Processes : AtWork(p) /\ AtWork(q) => p = q
                      /\ LeaderAtWork => turn = 0
      BY DEF TurnsExclusive
  <2>1. TypeOK /\ Numbers /\ Turns /\ Signs
        BY DEF Inv
  <2>2. ASSUME NEW p \in Processes, AtWork(p) PROVE turn \in {id[p], -id[p]}
        BY <2>1, <2>2 DEF Turns, AtWork
  <2>3. ASSUME NEW p \in Processes, AtWork(p) PROVE ~LeaderAtWork
        BY <2>1, <2>3, LeaderAlone DEF Signs
  <2> QED BY <2>1, <2>2, <2>3, OneAtWork DEF Signs
<1> QED BY <1>1, Invariance, PTL

(* The leader adds up what all n followers have drawn in this round. *)
THEOREM RoundsComplete == Spec => []RoundComplete
<1>1. Inv => RoundComplete
      BY DEF Inv, Signs, Drawn, LeaderAtWork, RoundComplete
<1> QED BY <1>1, Invariance, PTL

(* When the leader starts, n followers have stored a number, whatever      *)
(* updates of M[1] were lost, and the student's hold all of 1..n.          *)
THEOREM StartsAreComplete == Spec => []StartsComplete
<1>1. Inv => StartsComplete
      BY DEF Inv
<1> QED BY <1>1, Invariance, PTL
=============================================================================
