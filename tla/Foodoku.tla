------------------------------ MODULE Foodoku -------------------------------
(***************************************************************************)
(* Lab A4: the blocks of a sudoku board are processes.  Each reads lines   *)
(* from a pipe of its own; the coordinator writes the player's commands    *)
(* into these pipes, and a block that is told to put a digit asks its      *)
(* neighbours in the row and in the column by writing into theirs.  The    *)
(* answer comes back through the asker's own pipe, like everything else.   *)
(*                                                                         *)
(* The asker reads the answer with scanf("%d").  When a command is in      *)
(* front of the answer, scanf fails, consumes nothing and leaves the       *)
(* variable at 0, "no conflict"; the answer stays in the pipe as a stray   *)
(* line.  The student's program (A4) and the instructor's                  *)
(* (A4/LA4_Solution) differ in what follows; `version' says which one      *)
(* runs.                                                                   *)
(*                                                                         *)
(* A line is written at once (stdout is flushed at the newline, and a line *)
(* is shorter than PIPE_BUF).  A block takes from its pipe, works, and     *)
(* writes at most one line in one step: nobody else takes from its pipe,   *)
(* so only the write can be seen.  The first command of the player is n:   *)
(* before it the instructor's arrays are not initialised.                  *)
(***************************************************************************)
EXTENDS Integers, Sequences, FiniteSets

CONSTANTS
    Height, Width,   (* of a block in cells; 3 and 3 in the code           *)
    Puzzles,         (* what newboard may make: givens A and solution S    *)
    Puts,            (* what the player may try                            *)
    MaxCommands,     (* bound on the player's commands before q            *)
    None

Blocks == 0..(Height * Width - 1)
Cells == 0..(Height * Width - 1)
Digits == 1..(Height * Width)
Boards == [Blocks -> [Cells -> Digits \cup {0}]]

(* Where a cell is in its block, ... *)
RowIn(c) == c \div Width
ColIn(c) == c % Width

(* ... and on the board; 0 is an empty cell. *)
InLine(b1, c1, b2, c2) ==
    \/ b1 = b2
    \/ (b1 \div Height) = (b2 \div Height) /\ RowIn(c1) = RowIn(c2)
    \/ (b1 % Height) = (b2 % Height) /\ ColIn(c1) = ColIn(c2)

Clash(board, b1, c1, b2, c2) ==
    /\ <<b1, c1>> # <<b2, c2>> /\ InLine(b1, c1, b2, c2)
    /\ board[b1][c1] = board[b2][c2] /\ board[b1][c1] # 0

(* The generator copies the givens from a solution without conflicts. *)
ASSUME FoodokuAssumption ==
    /\ Height \in Nat \ {0, 1} /\ Width \in Nat \ {0, 1} /\ MaxCommands \in Nat
    /\ None \notin Puzzles
    /\ Puts \subseteq [block : Blocks, cell : Cells, digit : Digits]
    /\ \A z \in Puzzles :
          /\ z.A \in Boards /\ z.S \in [Blocks -> [Cells -> Digits]]
          /\ \A b \in Blocks : \A c \in Cells : z.A[b][c] \in {0, z.S[b][c]}
          /\ \A b1, b2 \in Blocks : \A c1, c2 \in Cells : ~Clash(z.S, b1, c1, b2, c2)

VARIABLES
    version,     (* never changes                                          *)
    puzzle,      (* the coordinator's boards A and S                       *)
    job, to,     (* the coordinator: what it is doing, the next block      *)
    left,        (* how many commands the player may still give            *)
    pipe,        (* per block: the lines not yet read                      *)
    A, B,        (* per block: givens and contents                         *)
    pc,          (* per block: reads a command, waits for an answer, exits *)
    put,         (* per block: the cell and the digit in hand, ...         *)
    k,           (* ... the neighbour that was asked, ...                  *)
    conflict,    (* ... and whether one reported a conflict                *)
    misread,     (* history: who did not get an answer it asked for        *)
    eaten,       (* history: <<block, line>> for every command not read    *)
    solved       (* history: the last board sent is the solution           *)

coordinator == <<puzzle, job, to, left, solved>>
asking == <<put, k, conflict>>
vars == <<version, coordinator, pipe, A, B, pc, asking, misread, eaten>>

(* initBlock, genblocks *)
Init ==
    /\ version \in {"student", "instructor"}
    /\ puzzle = None /\ job = "prompt" /\ to = 0 /\ left = MaxCommands
    /\ pipe = [b \in Blocks |-> <<>>]
    /\ A = [b \in Blocks |-> [c \in Cells |-> 0]] /\ B = A
    /\ pc = [b \in Blocks |-> "main"]
    /\ put = [b \in Blocks |-> None] /\ k = [b \in Blocks |-> 0]
    /\ conflict = [b \in Blocks |-> FALSE]
    /\ misread = {} /\ eaten = {} /\ solved = FALSE

-----------------------------------------------------------------------------
(* The neighbours in the order in which they are asked: those in the row   *)
(* of blocks and then those in the column.  The student's program goes     *)
(* round the row and the column from the block itself, the instructor's    *)
(* asks in the order of the numbers.                                       *)

RowOfBlocks(b) == b \div Height
InTheirRow(b) == b % Height

getRowNeighbors(b) ==
    [i \in 1..(Height - 1) |->
        RowOfBlocks(b) * Height +
            (IF version = "student" THEN (b + i) % Height
             ELSE IF i <= InTheirRow(b) THEN i - 1 ELSE i)]
getColNeighbors(b) ==
    [i \in 1..(Width - 1) |->
        IF version = "student" THEN (b + i * Height) % (Height * Width)
        ELSE InTheirRow(b) + Height * (IF i <= RowOfBlocks(b) THEN i - 1 ELSE i)]

Neighbours(b) == getRowNeighbors(b) \o getColNeighbors(b)

LastQuery == (Height - 1) + (Width - 1)

(* Mutant of Query: the column is asked for by the row's number. *)
QueryRowOnly(b, n, p) ==
    [cmd |-> IF n < Height THEN "r" ELSE "c", line |-> RowIn(p.cell),
     digit |-> p.digit, from |-> b]

(* What block b writes to its n-th neighbour about p, ... *)
Query(b, n, p) ==
    IF n < Height
    THEN [cmd |-> "r", line |-> RowIn(p.cell), digit |-> p.digit, from |-> b]
    ELSE [cmd |-> "c", line |-> ColIn(p.cell), digit |-> p.digit, from |-> b]

(* ... and what a neighbour finds. *)
Has(b, q) ==
    \E c \in Cells : /\ IF q.cmd = "r" THEN RowIn(c) = q.line ELSE ColIn(c) = q.line
                     /\ B[b][c] = q.digit

(* Whom to ask after the n-th: a conflict ends the put in the instructor's *)
(* program, in the student's only the row or the column it is found in.    *)
NextQuery(n, yes) ==
    IF ~yes THEN n + 1
    ELSE IF version = "student" /\ n < Height THEN Height ELSE LastQuery + 1

-----------------------------------------------------------------------------
(* The coordinator *)

Send(b, m) == pipe' = [pipe EXCEPT ![b] = Append(@, m)]

Command ==
    /\ job = "prompt" /\ left > 0
    /\ left' = left - 1
    /\ UNCHANGED <<version, A, B, pc, asking, misread, eaten>>

BoardCommand(what) ==
    /\ Command
    /\ job' = what /\ to' = 0
    /\ solved' = (what = "solution")
    /\ UNCHANGED pipe

newGame ==
    /\ BoardCommand("new")
    /\ \E z \in Puzzles : puzzle' = z

showSolution ==
    /\ puzzle # None
    /\ BoardCommand("solution")
    /\ UNCHANGED puzzle

tryPut ==
    /\ Command /\ puzzle # None
    /\ \E p \in Puts :
          Send(p.block, [cmd |-> "p", cell |-> p.cell, digit |-> p.digit])
    /\ UNCHANGED <<puzzle, job, to, solved>>

(* The player gives up at any prompt. *)
cleanup ==
    /\ job = "prompt"
    /\ job' = "quit" /\ to' = 0
    /\ UNCHANGED <<version, puzzle, left, solved, pipe, A, B, pc, asking, misread, eaten>>

(* sendBlockData, initboard: the instructor's program has no line of its   *)
(* own for the solution.                                                   *)
Line(b) ==
    CASE job = "new" -> [cmd |-> "n", cells |-> puzzle.A[b]]
      [] job = "solution" ->
            [cmd |-> IF version = "student" THEN "s" ELSE "n", cells |-> puzzle.S[b]]
      [] job = "quit" -> [cmd |-> "q"]

(* Mutant of sendLine: the last block is left out. *)
sendLineShort ==
    /\ job \in {"new", "solution", "quit"}
    /\ Send(to, Line(to))
    /\ IF to + 2 \in Blocks
       THEN to' = to + 1 /\ job' = job
       ELSE to' = 0 /\ job' = IF job = "quit" THEN "waiting" ELSE "prompt"
    /\ UNCHANGED <<version, puzzle, left, solved, A, B, pc, asking, misread, eaten>>

sendLine ==
    /\ job \in {"new", "solution", "quit"}
    /\ Send(to, Line(to))
    /\ IF to + 1 \in Blocks
       THEN to' = to + 1 /\ job' = job
       ELSE to' = 0 /\ job' = IF job = "quit" THEN "waiting" ELSE "prompt"
    /\ UNCHANGED <<version, puzzle, left, solved, A, B, pc, asking, misread, eaten>>

(* wait(NULL), once for every block *)
gameOver ==
    /\ job = "waiting" /\ \A b \in Blocks : pc[b] = "exited"
    /\ job' = "over"
    /\ UNCHANGED <<version, puzzle, to, left, solved, pipe, A, B, pc,
                   asking, misread, eaten>>

-----------------------------------------------------------------------------
(* The blocks *)

InFront(b, cmds) == pipe[b] # <<>> /\ Head(pipe[b]).cmd \in cmds
Reads(b, cmds) ==
    /\ pc[b] = "main" /\ InFront(b, cmds)
    /\ UNCHANGED <<version, coordinator>>

Rest(b) == [pipe EXCEPT ![b] = Tail(@)]

(* Mutant of readBlock: the solution fills the empty cells only. *)
readBlockKeeps(b) ==
    /\ Reads(b, {"n", "s"})
    /\ LET m == Head(pipe[b]) IN
       /\ B' = [B EXCEPT ![b] = IF m.cmd = "s" THEN [c \in Cells |-> IF @[c] = 0 THEN m.cells[c] ELSE @[c]]
                                ELSE m.cells]
       /\ A' = IF m.cmd = "n" THEN [A EXCEPT ![b] = m.cells] ELSE A
    /\ pipe' = Rest(b)
    /\ UNCHANGED <<pc, asking, misread, eaten>>

(* newBlockStartingState, solution; readblock *)
readBlock(b) ==
    /\ Reads(b, {"n", "s"})
    /\ LET m == Head(pipe[b]) IN
       /\ B' = [B EXCEPT ![b] = m.cells]
       /\ A' = IF m.cmd = "n" THEN [A EXCEPT ![b] = m.cells] ELSE A
    /\ pipe' = Rest(b)
    /\ UNCHANGED <<pc, asking, misread, eaten>>

(* The instructor's block does not compare with the cell itself.           *)
checkBlockConflict(b, p) ==
    \E c \in Cells : /\ B[b][c] = p.digit
                     /\ version = "instructor" => c # p.cell

Refused(b, p) == A[b][p.cell] # 0 \/ checkBlockConflict(b, p)

refusePut(b) ==
    /\ Reads(b, {"p"}) /\ Refused(b, Head(pipe[b]))
    /\ pipe' = Rest(b)
    /\ UNCHANGED <<A, B, pc, asking, misread, eaten>>

(* The first neighbour is asked. *)
startPut(b) ==
    /\ Reads(b, {"p"}) /\ ~Refused(b, Head(pipe[b]))
    /\ LET p == Head(pipe[b]) n == Neighbours(b)[1] IN
       /\ put' = [put EXCEPT ![b] = p]
       /\ pipe' = [Rest(b) EXCEPT ![n] = Append(@, Query(b, 1, p))]
    /\ k' = [k EXCEPT ![b] = 1]
    /\ conflict' = [conflict EXCEPT ![b] = FALSE]
    /\ pc' = [pc EXCEPT ![b] = "reading"]
    /\ UNCHANGED <<A, B, misread, eaten>>

(* The put goes on with the n-th neighbour, or it ends and `rest' is what  *)
(* is left in the pipes.                                                   *)
Continue(b, n, yes, rest) ==
    /\ conflict' = [conflict EXCEPT ![b] = yes]
    /\ IF n <= LastQuery
       THEN /\ pipe' = [rest EXCEPT ![Neighbours(b)[n]] = Append(@, Query(b, n, put[b]))]
            /\ k' = [k EXCEPT ![b] = n]
            /\ UNCHANGED <<B, pc, put>>
       ELSE /\ B' = IF yes THEN B ELSE [B EXCEPT ![b][put[b].cell] = put[b].digit]
            /\ pipe' = rest
            /\ k' = [k EXCEPT ![b] = 0] /\ put' = [put EXCEPT ![b] = None]
            /\ pc' = [pc EXCEPT ![b] = "main"]

readAnswer(b) ==
    /\ pc[b] = "reading" /\ InFront(b, {"answer"})
    /\ LET yes == Head(pipe[b]).yes IN
       Continue(b, NextQuery(k[b], yes), conflict[b] \/ yes, Rest(b))
    /\ UNCHANGED <<version, coordinator, A, misread, eaten>>

(* A command is in front.  When the put is over the instructor's block     *)
(* reads to the end of the line: its own newline was skipped by scanf, so  *)
(* that it is the command that is thrown away.                             *)
misreadAnswer(b) ==
    /\ pc[b] = "reading" /\ InFront(b, {"n", "s", "p", "r", "c", "q"})
    /\ LET eats == version = "instructor" /\ k[b] = LastQuery IN
       /\ Continue(b, k[b] + 1, conflict[b], IF eats THEN Rest(b) ELSE pipe)
       /\ eaten' = IF eats THEN eaten \cup {<<b, Head(pipe[b])>>} ELSE eaten
    /\ misread' = misread \cup {b}
    /\ UNCHANGED <<version, coordinator, A>>

(* Mutant of answerQuery: only a conflict is reported. *)
answerConflict(b) ==
    /\ Reads(b, {"r", "c"})
    /\ LET q == Head(pipe[b]) IN
       pipe' = IF Has(b, q)
               THEN [Rest(b) EXCEPT ![q.from] = Append(@, [cmd |-> "answer", yes |-> TRUE])]
               ELSE Rest(b)
    /\ UNCHANGED <<A, B, pc, asking, misread, eaten>>

(* The answer goes to the asker's own pipe. *)
answerQuery(b) ==
    /\ Reads(b, {"r", "c"})
    /\ LET q == Head(pipe[b]) IN
       pipe' = [Rest(b) EXCEPT ![q.from] = Append(@, [cmd |-> "answer", yes |-> Has(b, q)])]
    /\ UNCHANGED <<A, B, pc, asking, misread, eaten>>

(* A stray answer is no command. *)
ignoreAnswer(b) ==
    /\ Reads(b, {"answer"})
    /\ pipe' = Rest(b)
    /\ UNCHANGED <<A, B, pc, asking, misread, eaten>>

quitting(b) ==
    /\ Reads(b, {"q"})
    /\ pc' = [pc EXCEPT ![b] = "exited"]
    /\ pipe' = Rest(b)
    /\ UNCHANGED <<A, B, asking, misread, eaten>>

-----------------------------------------------------------------------------
CoordinatorStep == sendLine \/ gameOver
BlockStep(b) ==
    \/ readBlock(b) \/ refusePut(b) \/ startPut(b) \/ readAnswer(b)
    \/ misreadAnswer(b) \/ answerQuery(b) \/ ignoreAnswer(b) \/ quitting(b)

Next ==
    \/ newGame \/ showSolution \/ tryPut \/ cleanup
    \/ CoordinatorStep
    \/ \E b \in Blocks : BlockStep(b)

Spec == Init /\ [][Next]_vars

(* The programs run on; the player need not type anything. *)
FairSpec ==
    Spec /\ WF_vars(CoordinatorStep) /\ \A b \in Blocks : WF_vars(BlockStep(b))

-----------------------------------------------------------------------------
(* Properties *)

(* A board is under way to block b. *)
BoardComing(b) ==
    \/ job \in {"new", "solution"} /\ to <= b
    \/ \E i \in DOMAIN pipe[b] : pipe[b][i].cmd \in {"n", "s"}

(* Two blocks that have never misread an answer show no digit twice in a   *)
(* row, a column or a block, however their puts and those of others were   *)
(* interleaved.                                                            *)
NoClashUnlessMisread ==
    LET filled == {x \in (Blocks \ misread) \X Cells : B[x[1]][x[2]] # 0} IN
    (\A b \in Blocks : ~BoardComing(b)) =>
        \A x, y \in filled : ~Clash(B, x[1], x[2], y[1], y[2])

(* The solution, once shown by a block, stays until the next game, whatever *)
(* puts were on their way.                                                 *)
SolutionStays ==
    solved => \A b \in Blocks :
        \/ BoardComing(b) \/ B[b] = puzzle.S[b]
        \/ \E e \in eaten : e[1] = b /\ e[2].cmd = "n"

(* Nobody waits for an answer in vain, though blocks ask one another while *)
(* they wait themselves and may exit before they answer, unless the        *)
(* question was thrown away.                                               *)
QuestionEaten(b) == \E e \in eaten : e[2].cmd \in {"r", "c"} /\ e[2].from = b
NothingMoves ==
    /\ job \in {"prompt", "waiting", "over"}
    /\ \A b \in Blocks : pc[b] = "exited" \/ pipe[b] = <<>>

NobodyWaitsInVain ==
    NothingMoves => \A b \in Blocks : pc[b] = "reading" => QuestionEaten(b)

(* After q all blocks exit and the coordinator stops waiting for them,     *)
(* unless a block threw the q away.                                        *)
QuitEnds ==
    job = "quit" ~> job = "over" \/ \E e \in eaten : e[2].cmd = "q"

=============================================================================
