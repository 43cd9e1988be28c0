--------------------------- MODULE LeaderFollowers --------------------------
(***************************************************************************)
(* Lab A5: a leader and n followers share the integers M[]: M[1] followers *)
(* have joined, M[2] says whose turn it is, M[3] is the leader's number    *)
(* and M[3+i] that of follower i.  All wait by polling M[2].  A round ends *)
(* with a sum; when a sum comes a second time, the turn goes round once    *)
(* more, negative, and everybody leaves.                                   *)
(*                                                                         *)
(* The student's program (A5/leader.c, A5/follower.c) and the instructor's *)
(* (A5/LA5_Solution) differ in how a follower joins, in when the leader    *)
(* adds up, and in the order of two tests; `version' says which one runs.  *)
(*                                                                         *)
(* Every load or store of M[1] and M[2] is a step.  The leader has set     *)
(* M[0..2] before the first follower attaches.  The sums found are a set:  *)
(* in both programs a sum, at most 99 + 9 n, has a place of its own in the *)
(* table.                                                                  *)
(***************************************************************************)
EXTENDS Integers, FiniteSets, Folds

CONSTANTS n,           (* M[0]                                             *)
          Processes,   (* the follower processes that are started          *)
          Leads,       (* what the leader may draw, 1..99                  *)
          Values       (* what a follower may draw, 1..9                   *)

ASSUME LeaderAssumption ==
    /\ n \in Nat \ {0}
    /\ IsFiniteSet(Processes)
    /\ Leads \subseteq Nat \ {0} /\ Values \subseteq Nat \ {0}

VARIABLES
    version,      (* never changes                                         *)
    joined,       (* M[1]                                                  *)
    turn,         (* M[2]                                                  *)
    cell,         (* M[3], ..., M[3+n] as cell[0], ..., cell[n]            *)
    lpc, sums, repeated,      (* the leader: counter, table, last test     *)
    fpc, id,      (* the followers: counter, number; 0 before it is known  *)
    fresh         (* history: who has drawn since the leader began a round *)

vars == <<version, joined, turn, cell, lpc, sums, repeated, fpc, id, fresh>>

Init ==
    /\ version \in {"student", "solution"}
    /\ joined = 0 /\ turn = 0
    /\ cell = [i \in 0..n |-> 0]
    /\ lpc = "waiting" /\ sums = {} /\ repeated = FALSE
    /\ fpc = [p \in Processes |-> "start"] /\ id = [p \in Processes |-> 0]
    /\ fresh = {}

-----------------------------------------------------------------------------
(* The leader *)

LeaderMoves(from, to) ==
    /\ lpc = from /\ lpc' = to
    /\ UNCHANGED <<version, joined, fpc, id>>

(* Mutant of Start: the leader counts itself as one of the n. *)
StartEarly ==
    /\ joined >= n - 1
    /\ LeaderMoves("waiting", IF version = "student" THEN "await" ELSE "pick")
    /\ UNCHANGED <<turn, cell, sums, repeated, fresh>>

Start ==
    /\ joined >= n
    /\ LeaderMoves("waiting", IF version = "student" THEN "await" ELSE "pick")
    /\ UNCHANGED <<turn, cell, sums, repeated, fresh>>

Pick ==
    /\ LeaderMoves("pick", IF version = "student" THEN "sum" ELSE "pass")
    /\ \E v \in Leads : cell' = [cell EXCEPT ![0] = v]
    /\ UNCHANGED <<turn, sums, repeated, fresh>>

Sum == MapThenFoldSet(+, 0, LAMBDA i : cell[i], LAMBDA S : CHOOSE i \in S : TRUE, 0..n)

AddUp ==
    /\ repeated' = (Sum \in sums)
    /\ sums' = sums \cup {Sum}
    /\ LeaderMoves("sum", IF version = "student" \/ repeated' THEN "pass" ELSE "pick")
    /\ UNCHANGED <<turn, cell, fresh>>

(* A new round, or the last. *)
BeginRound ==
    /\ LeaderMoves("pass", IF repeated THEN "end" ELSE "await")
    /\ turn' = IF repeated THEN -1 ELSE 1
    /\ fresh' = {}
    /\ UNCHANGED <<cell, sums, repeated>>

(* Mutant of Await: the leader goes on as soon as its own turn is over. *)
AwaitNot1 ==
    /\ turn # 1
    /\ LeaderMoves("await", IF version = "student" THEN "pick" ELSE "sum")
    /\ UNCHANGED <<turn, cell, sums, repeated, fresh>>

(* The student's leader would also leave the loop on -1. *)
Await ==
    /\ turn = 0 \/ (version = "student" /\ turn = -1)
    /\ LeaderMoves("await", IF version = "student" THEN "pick" ELSE "sum")
    /\ UNCHANGED <<turn, cell, sums, repeated, fresh>>

(* It removes the segment, which those who are attached do not notice. *)
End ==
    /\ turn = 0
    /\ LeaderMoves("end", "gone")
    /\ UNCHANGED <<turn, cell, sums, repeated, fresh>>

Leader == Start \/ Pick \/ AddUp \/ BeginRound \/ Await \/ End

-----------------------------------------------------------------------------
(* A follower *)

Moves(p, from, to) ==
    /\ fpc[p] = from /\ fpc' = [fpc EXCEPT ![p] = to]
    /\ UNCHANGED <<version, lpc, sums, repeated>>

Attach(p) ==
    /\ Moves(p, "start", IF lpc = "gone" THEN "refused"
                         ELSE IF version = "student" THEN "load" ELSE "test")
    /\ UNCHANGED <<joined, turn, cell, id, fresh>>

(* joinasfollower: "... followers have already joined" *)
Test(p) ==
    /\ Moves(p, "test", IF joined = n THEN "refused" ELSE "load")
    /\ UNCHANGED <<joined, turn, cell, id, fresh>>

(* Another follower may join between the load and the store. *)
Load(p) ==
    /\ Moves(p, "load", "store")
    /\ id' = [id EXCEPT ![p] = joined + 1]
    /\ UNCHANGED <<joined, turn, cell, fresh>>

Store(p) ==
    /\ Moves(p, "store", "learn")
    /\ joined' = id[p]
    /\ UNCHANGED <<turn, cell, id, fresh>>

(* The student's follower keeps the number it has stored, and refuses it   *)
(* if it is too big; the instructor's loads M[1] once more.                *)
Learn(p) ==
    /\ IF version = "student"
       THEN /\ Moves(p, "learn", IF id[p] > n THEN "refused" ELSE "loop")
            /\ UNCHANGED id
       ELSE /\ Moves(p, "learn", "loop")
            /\ id' = [id EXCEPT ![p] = joined]
    /\ UNCHANGED <<joined, turn, cell, fresh>>

SeeTurn(p) ==
    /\ turn \in {id[p], -id[p]}
    /\ Moves(p, "loop", "turn")
    /\ UNCHANGED <<joined, turn, cell, id, fresh>>

(* M[2] is loaded again to tell a round from the last one, by tests that   *)
(* differ if it has changed.                                               *)
TellTurn(p) ==
    LET leaves == IF version = "student" THEN turn = -id[p] ELSE turn # id[p] IN
    /\ Moves(p, "turn", IF leaves THEN "leave" ELSE "draw")
    /\ UNCHANGED <<joined, turn, cell, id, fresh>>

Draw(p) ==
    /\ Moves(p, "draw", "pass")
    /\ \E v \in Values : cell' = [cell EXCEPT ![id[p]] = v]
    /\ fresh' = fresh \cup {id[p]}
    /\ UNCHANGED <<joined, turn, id>>

(* Mutant of Pass: the turn goes straight back to the leader. *)
PassBack(p) ==
    /\ Moves(p, "pass", "loop")
    /\ turn' = 0
    /\ UNCHANGED <<joined, cell, id, fresh>>

(* Mutant of Pass: nobody takes itself for the last. *)
PassOn(p) ==
    /\ Moves(p, "pass", "loop")
    /\ turn' = id[p] + 1
    /\ UNCHANGED <<joined, cell, id, fresh>>

Pass(p) ==
    /\ Moves(p, "pass", "loop")
    /\ turn' = IF id[p] = n THEN 0 ELSE id[p] + 1
    /\ UNCHANGED <<joined, cell, id, fresh>>

(* Mutant of Leave: the last one does not tell the leader. *)
LeaveQuietly(p) ==
    /\ Moves(p, "leave", "gone")
    /\ turn' = -(id[p] + 1)
    /\ UNCHANGED <<joined, cell, id, fresh>>

Leave(p) ==
    /\ Moves(p, "leave", "gone")
    /\ turn' = IF id[p] = n THEN 0 ELSE -(id[p] + 1)
    /\ UNCHANGED <<joined, cell, id, fresh>>

Follower(p) ==
    \/ Attach(p) \/ Test(p) \/ Load(p) \/ Store(p) \/ Learn(p)
    \/ SeeTurn(p) \/ TellTurn(p) \/ Draw(p) \/ Pass(p) \/ Leave(p)

Next == Leader \/ \E p \in Processes : Follower(p)

Spec == Init /\ [][Next]_vars

(* The operating system runs every process. *)
FairSpec == Spec /\ WF_vars(Leader) /\ \A p \in Processes : WF_vars(Follower(p))

-----------------------------------------------------------------------------
(* Properties *)

FollowerSteps == {"start", "test", "load", "store", "learn", "loop", "turn",
                  "draw", "pass", "leave", "gone", "refused"}

(* The shape of the state. *)
TypeOK ==
    /\ version \in {"student", "solution"}
    /\ joined \in Nat /\ turn \in -n..n
    /\ lpc \in {"waiting", "await", "pick", "sum", "pass", "end", "gone"}
    /\ cell \in [0..n -> Nat] /\ repeated \in BOOLEAN
    /\ fpc \in [Processes -> FollowerSteps] /\ id \in [Processes -> Nat]
    /\ fresh \subseteq 1..n

(* The processes that follow, or did until they left. *)
Members == {p \in Processes :
               fpc[p] \in {"loop", "turn", "draw", "pass", "leave", "gone"}}

(* No two of them have the same number; the join does not ensure it. *)
UniqueIds == \A p, q \in Members : id[p] = id[q] => p = q

AtWork(p) == fpc[p] \in {"turn", "draw", "pass", "leave"}
LeaderAtWork == lpc \in {"waiting", "pick", "sum", "pass"}

(* As long as the numbers are unique, at most one process is past its wait *)
(* for the turn, and it is the one whose turn it is: the plain loads and   *)
(* stores of M[2] are as good as a lock that is handed on.                 *)
TurnsExclusive ==
    UniqueIds =>
        /\ \A p \in Processes : AtWork(p) => turn \in {id[p], -id[p]} /\ ~LeaderAtWork
        /\ \A p, q \in Processes : AtWork(p) /\ AtWork(q) => p = q
        /\ LeaderAtWork => turn = 0

(* Every follower has drawn since the leader last gave the turn away, or,  *)
(* for the student's leader, there has been no round yet.                  *)
RoundOver ==
    \/ fresh = 1..n
    \/ version = "student" /\ sums = {} /\ fresh = {}

(* Then the leader adds up a complete round.                               *)
RoundComplete == UniqueIds /\ lpc = "sum" => RoundOver

(* What makes the two of them hold, and is inductive.  First, whatever the *)
(* numbers are, nobody gets a turn with a number beyond n.                 *)
Numbers ==
    \A p \in Processes :
        /\ fpc[p] = "store" \/ p \in Members => id[p] > 0
        /\ fpc[p] = "learn" => id[p] > 0 /\ joined > 0
        /\ AtWork(p) => id[p] <= n

(* Second, with unique numbers: M[2] keeps everybody else waiting until it *)
(* is handed on, ...                                                       *)
Turns ==
    \A p \in Processes :
        /\ fpc[p] = "turn" => turn \in {id[p], -id[p]}
        /\ fpc[p] \in {"draw", "pass"} => turn = id[p]
        /\ fpc[p] = "leave" => turn = -id[p]

(* ... its sign tells whether the leader has announced the end, ...        *)
Signs ==
    /\ turn < 0 => lpc = "end"
    /\ lpc = "end" => turn <= 0
    /\ LeaderAtWork \/ lpc = "gone" => turn = 0

(* ... and the numbers below it have been drawn.                           *)
Drawn ==
    /\ turn > 0 => fresh = 1..(IF \E p \in Processes : fpc[p] = "pass"
                               THEN turn ELSE turn - 1)
    /\ turn = 0 /\ lpc \in {"await", "sum"} => RoundOver
    /\ lpc = "pick" /\ version = "student" => RoundOver
    /\ lpc = "waiting" => sums = {} /\ fresh = {}

(* Third, M[1] may count too few, never too many: who is about to store k  *)
(* has found k-1, and that many have stored, the student's all numbers     *)
(* up to it.                                                               *)
Stored == {p \in Processes : id[p] > 0 /\ fpc[p] # "store"}
IdsStored == {id[p] : p \in Stored}

Reached(k) ==
    /\ k <= Cardinality(Stored)
    /\ version = "student" => 1..k \subseteq IdsStored

Joining ==
    /\ \A p \in Processes :
          /\ fpc[p] \in {"start", "test", "load"} => id[p] = 0
          /\ fpc[p] = "store" => Reached(id[p] - 1)
    /\ Reached(joined)

(* So when the leader starts, whatever updates of M[1] were lost, n        *)
(* followers have stored a number, and the student's hold all of 1..n.     *)
StartsComplete == lpc # "waiting" => Reached(n)

Inv ==
    /\ TypeOK /\ Numbers /\ Joining /\ StartsComplete
    /\ UniqueIds => Turns /\ Signs /\ Drawn

(* If the numbers of the followers are 1..n, the leader finds a repeated   *)
(* sum, everybody leaves in turn and the leader ends.                      *)
Proper == UniqueIds /\ {id[p] : p \in Members} \subseteq 1..n
SessionEnds ==
    <>(lpc # "waiting") /\ <>[](Proper /\ Cardinality(Members) = n) =>
        <>(lpc = "gone" /\ \A p \in Members : fpc[p] = "gone")
=============================================================================
