---------------------------- MODULE FoodokuProofs ---------------------------
(***************************************************************************)
(* Proofs about Foodoku, for blocks of any size, any puzzles and puts, and *)
(* both versions: nobody waits in vain for an answer, the solution stays,  *)
(* and blocks that never misread an answer never clash.                    *)
(***************************************************************************)
EXTENDS Foodoku, FiniteSetTheorems, SequenceTheorems, TLAPS

-----------------------------------------------------------------------------
(* Who are neighbours *)

(* A block's number says its row and its place in it, ... *)
LEMMA Places ==
    ASSUME NEW b \in Blocks
    PROVE  /\ RowOfBlocks(b) \in 0..(Width - 1) /\ InTheirRow(b) \in 0..(Height - 1)
           /\ b = RowOfBlocks(b) * Height + InTheirRow(b)
<1> USE FoodokuAssumption DEF FoodokuAssumption, Blocks, RowOfBlocks, InTheirRow
<1>1. b \in Nat /\ b < Height * Width
      OBVIOUS
<1>2. /\ b = Height * (b \div Height) + (b % Height)
      /\ b % Height \in 0..(Height - 1) /\ b \div Height \in Nat
      BY <1>1
<1>3. b \div Height < Width
      BY <1>1, <1>2
<1> QED BY <1>2, <1>3

(* ... and is said by them. *)
LEMMA AtPlace ==
    ASSUME NEW q \in 0..(Width - 1), NEW r \in 0..(Height - 1)
    PROVE  /\ q * Height + r \in Blocks
           /\ RowOfBlocks(q * Height + r) = q /\ InTheirRow(q * Height + r) = r
<1> USE FoodokuAssumption DEF FoodokuAssumption, Blocks, RowOfBlocks, InTheirRow
<1>1. Height * q + r < Height * Width
      OBVIOUS
<1>2. q * Height + r \in Nat /\ q * Height = Height * q
      OBVIOUS
<1> DEFINE b == q * Height + r
<1>3. b \in Nat /\ b = Height * q + r
      BY <1>2
<1>4. b \div Height = q /\ b % Height = r
  <2> HIDE DEF b
  <2> QED BY <1>3
<1> QED BY <1>1, <1>2, <1>4

(* The i-th neighbour in the row, and in the column. *)
RowSide(b, i) ==
    IF version = "student" THEN (b + i) % Height
    ELSE IF i <= InTheirRow(b) THEN i - 1 ELSE i
ColSide(b, i) ==
    IF version = "student"
    THEN IF RowOfBlocks(b) + i < Width THEN RowOfBlocks(b) + i ELSE RowOfBlocks(b) + i - Width
    ELSE IF i <= RowOfBlocks(b) THEN i - 1 ELSE i

(* Quotient and remainder are what they should be. *)
LEMMA Divided ==
    ASSUME NEW h \in Nat \ {0}, NEW q \in Nat, NEW r \in 0..(h - 1), NEW x \in Nat,
           x = h * q + r
    PROVE  x % h = r
OBVIOUS

(* Going round the row passes its end at most once. *)
LEMMA RowSideIs ==
    ASSUME NEW b \in Blocks, NEW i \in 1..(Height - 1)
    PROVE  /\ RowSide(b, i) \in 0..(Height - 1) /\ RowSide(b, i) # InTheirRow(b)
           /\ version = "student" => RowSide(b, i) =
                 IF InTheirRow(b) + i < Height THEN InTheirRow(b) + i
                 ELSE InTheirRow(b) + i - Height
<1> DEFINE q == RowOfBlocks(b)
           r == InTheirRow(b)
<1>1. q \in Nat /\ r \in 0..(Height - 1) /\ b = Height * q + r
      /\ Height \in Nat \ {0, 1}
      BY Places, FoodokuAssumption DEF FoodokuAssumption
<1>2. (b + i) % Height = IF r + i < Height THEN r + i ELSE r + i - Height
  <2> HIDE DEF q, r
  <2>1. CASE r + i < Height
        BY <1>1, <2>1
  <2>2. CASE r + i >= Height
    <3>1. b + i = Height * (q + 1) + (r + i - Height)
          BY <1>1
    <3>2. r + i - Height \in 0..(Height - 1) /\ q + 1 \in Nat /\ b + i \in Nat
          BY <1>1, <2>2
    <3> DEFINE x == b + i
               t == r + i - Height
               p == q + 1
    <3>3. x % Height = t
      <4>1. x = Height * p + t /\ t \in 0..(Height - 1) /\ p \in Nat /\ x \in Nat
            BY <3>1, <3>2
      <4> HIDE DEF x, t, p
      <4> QED BY <1>1, <4>1, Divided
    <3> QED BY <1>1, <2>2, <3>3
  <2> QED BY <1>1, <2>1, <2>2
<1> HIDE DEF q
<1> QED BY <1>1, <1>2 DEF RowSide

(* And so does going down the column. *)
LEMMA ColSideIs ==
    ASSUME NEW b \in Blocks, NEW i \in 1..(Width - 1)
    PROVE  /\ ColSide(b, i) \in 0..(Width - 1) /\ ColSide(b, i) # RowOfBlocks(b)
           /\ version = "student" =>
                 (b + i * Height) % (Height * Width) = ColSide(b, i) * Height + InTheirRow(b)
<1> DEFINE q == RowOfBlocks(b)
           r == InTheirRow(b)
           s == ColSide(b, i)
<1>1. /\ q \in 0..(Width - 1) /\ r \in 0..(Height - 1) /\ b = Height * q + r
      /\ Height \in Nat \ {0, 1} /\ Width \in Nat \ {0, 1}
      BY Places, FoodokuAssumption DEF FoodokuAssumption
<1>2. s \in 0..(Width - 1) /\ s # q
  <2> HIDE DEF q
  <2> QED BY <1>1 DEF ColSide, q
<1>3. ASSUME version = "student"
      PROVE  (b + i * Height) % (Height * Width) = s * Height + r
  <2> DEFINE M == Height * Width
             x == b + i * Height
             y == s * Height + r
  <2>1. M \in Nat \ {0}
        BY <1>1
  <2>2. y \in 0..(M - 1)
    <3>1. q * Height + r \in Blocks /\ s * Height + r \in Blocks
          BY <1>1, <1>2, AtPlace
    <3> QED BY <3>1 DEF Blocks
  <2>3. x = y \/ x = y + M
    <3>1. s = q + i \/ s = q + i - Width
          BY <1>3 DEF ColSide
    <3>2. x = (q + i) * Height + r
          BY <1>1
    <3>3. CASE s = q + i
          BY <3>2, <3>3
    <3>4. CASE s = q + i - Width
      <4>1. s + Width = q + i
            BY <1>1, <3>4
      <4>2. (s + Width) * Height = s * Height + Height * Width
            BY <1>1, <1>2
      <4> QED BY <1>1, <1>2, <3>2, <4>1, <4>2
    <3> QED BY <3>1, <3>3, <3>4
  <2>4. x \in Nat
        BY <1>1 DEF Blocks
  <2>5. x % M = y
    <3> HIDE DEF x, y, M
    <3>1. CASE x = y
          BY <2>1, <2>2, <3>1
    <3>2. CASE x = y + M
      <4>1. x = M * 1 + y
            BY <2>1, <2>2, <3>2
      <4> QED BY <2>1, <2>2, <4>1
    <3> QED BY <2>3, <3>1, <3>2
  <2> QED BY <2>5
<1> QED BY <1>2, <1>3

(* The n-th neighbour is in the row or in the column, by n. *)
LEMMA NeighbourIs ==
    ASSUME NEW b \in Blocks, NEW n \in 1..LastQuery
    PROVE  Neighbours(b)[n] =
               IF n < Height THEN RowOfBlocks(b) * Height + RowSide(b, n)
               ELSE ColSide(b, n - Height + 1) * Height + InTheirRow(b)
<1>1. Height \in Nat \ {0, 1} /\ Width \in Nat \ {0, 1}
      BY FoodokuAssumption DEF FoodokuAssumption
<1>2. /\ getRowNeighbors(b) \in Seq(Int) /\ Len(getRowNeighbors(b)) = Height - 1
      /\ getColNeighbors(b) \in Seq(Int) /\ Len(getColNeighbors(b)) = Width - 1
  <2>1. \A i \in 1..(Height - 1) : getRowNeighbors(b)[i] \in Int
    <3> SUFFICES ASSUME NEW i \in 1..(Height - 1) PROVE getRowNeighbors(b)[i] \in Int
        OBVIOUS
    <3>1. /\ RowOfBlocks(b) \in Int /\ RowSide(b, i) \in Int
          BY Places, RowSideIs
    <3>2. getRowNeighbors(b)[i] = RowOfBlocks(b) * Height + RowSide(b, i)
          BY DEF getRowNeighbors, RowSide
    <3> QED BY <1>1, <3>1, <3>2
  <2>2. \A i \in 1..(Width - 1) : getColNeighbors(b)[i] \in Int
    <3> SUFFICES ASSUME NEW i \in 1..(Width - 1) PROVE getColNeighbors(b)[i] \in Int
        OBVIOUS
    <3>1. InTheirRow(b) \in Int /\ ColSide(b, i) \in Int
          BY Places, ColSideIs
    <3>2. CASE version = "student"
          BY <1>1, <3>1, <3>2, ColSideIs DEF getColNeighbors
    <3>3. CASE version # "student"
          BY <1>1, <3>1, <3>3, Places DEF getColNeighbors
    <3> QED BY <3>2, <3>3
  <2>3. Height - 1 \in Nat /\ Width - 1 \in Nat
        BY <1>1
  <2> QED BY <1>1, <2>1, <2>2, <2>3 DEF getRowNeighbors, getColNeighbors
<1>3. CASE n < Height
  <2>1. n \in 1..(Height - 1)
        BY <1>1, <1>3
  <2>2. Neighbours(b)[n] = getRowNeighbors(b)[n]
        BY <1>2, <2>1 DEF Neighbours
  <2> QED BY <1>3, <2>1, <2>2 DEF getRowNeighbors, RowSide
<1>4. CASE ~(n < Height)
  <2> DEFINE i == n - Height + 1
  <2>1. i \in 1..(Width - 1) /\ n = i + (Height - 1)
        BY <1>1, <1>4 DEF LastQuery
  <2>2. Neighbours(b)[n] = getColNeighbors(b)[i]
        BY <1>1, <1>2, <1>4, <2>1 DEF Neighbours
  <2>3. getColNeighbors(b)[i] = ColSide(b, i) * Height + InTheirRow(b)
    <3> HIDE DEF i
    <3>1. CASE version = "student"
          BY <2>1, <3>1, ColSideIs DEF getColNeighbors
    <3>2. CASE version # "student"
      <4>1. getColNeighbors(b)[i] = InTheirRow(b) + Height * ColSide(b, i)
            BY <2>1, <3>2 DEF getColNeighbors, ColSide
      <4>2. InTheirRow(b) \in Int /\ ColSide(b, i) \in Int
            BY <2>1, Places, ColSideIs
      <4> QED BY <1>1, <4>1, <4>2
    <3> QED BY <3>1, <3>2
  <2> QED BY <1>4, <2>2, <2>3
<1> QED BY <1>3, <1>4

(* Neighbours are other blocks, in the same row or in the same column. *)
LEMMA NeighbourOf ==
    ASSUME NEW b \in Blocks, NEW n \in 1..LastQuery
    PROVE  /\ Neighbours(b)[n] \in Blocks \ {b}
           /\ n < Height => RowOfBlocks(Neighbours(b)[n]) = RowOfBlocks(b)
           /\ ~(n < Height) => InTheirRow(Neighbours(b)[n]) = InTheirRow(b)
<1> DEFINE q == RowOfBlocks(b)
           r == InTheirRow(b)
<1>1. /\ q \in 0..(Width - 1) /\ r \in 0..(Height - 1)
      /\ Height \in Nat \ {0, 1} /\ Width \in Nat \ {0, 1}
      BY Places, FoodokuAssumption DEF FoodokuAssumption
<1>2. CASE n < Height
  <2>1. n \in 1..(Height - 1)
        BY <1>1, <1>2
  <2>2. /\ Neighbours(b)[n] = q * Height + RowSide(b, n)
        /\ RowSide(b, n) \in 0..(Height - 1) /\ RowSide(b, n) # r
        BY <1>2, <2>1, NeighbourIs, RowSideIs
  <2>3. /\ Neighbours(b)[n] \in Blocks /\ RowOfBlocks(Neighbours(b)[n]) = q
        /\ InTheirRow(Neighbours(b)[n]) = RowSide(b, n)
        BY <1>1, <2>2, AtPlace
  <2> QED BY <1>2, <2>2, <2>3
<1>3. CASE ~(n < Height)
  <2> DEFINE i == n - Height + 1
  <2>1. i \in 1..(Width - 1)
        BY <1>1, <1>3 DEF LastQuery
  <2>2. /\ Neighbours(b)[n] = ColSide(b, i) * Height + r
        /\ ColSide(b, i) \in 0..(Width - 1) /\ ColSide(b, i) # q
        BY <1>3, <2>1, NeighbourIs, ColSideIs
  <2>3. /\ Neighbours(b)[n] \in Blocks /\ InTheirRow(Neighbours(b)[n]) = r
        /\ RowOfBlocks(Neighbours(b)[n]) = ColSide(b, i)
        BY <1>1, <2>2, AtPlace
  <2> QED BY <1>3, <2>2, <2>3
<1> QED BY <1>2, <1>3

(* And all others in the row and in the column are neighbours. *)
LEMMA AllInRow ==
    ASSUME NEW b \in Blocks, NEW x \in Blocks \ {b}, RowOfBlocks(x) = RowOfBlocks(b)
    PROVE  \E n \in 1..LastQuery : n < Height /\ Neighbours(b)[n] = x
<1> DEFINE q == RowOfBlocks(b)
           r == InTheirRow(b)
           s == InTheirRow(x)
<1>1. /\ q \in Nat /\ r \in 0..(Height - 1) /\ s \in 0..(Height - 1)
      /\ b = q * Height + r /\ x = q * Height + s
      /\ Height \in Nat \ {0, 1} /\ Width \in Nat \ {0, 1}
      BY Places, FoodokuAssumption DEF FoodokuAssumption
<1>2. s # r
      BY <1>1
<1> DEFINE n == IF version = "student" THEN IF r < s THEN s - r ELSE s - r + Height
                ELSE IF s < r THEN s + 1 ELSE s
<1>3. n \in 1..(Height - 1)
  <2> HIDE DEF r, s
  <2> QED BY <1>1, <1>2
<1>4. RowSide(b, n) = s
  <2>1. CASE version = "student"
    <3>1. RowSide(b, n) = IF r + n < Height THEN r + n ELSE r + n - Height
          BY <1>3, <2>1, RowSideIs
    <3>2. n = IF r < s THEN s - r ELSE s - r + Height
          BY <2>1
    <3> HIDE DEF n, r, s
    <3> QED BY <1>1, <1>2, <3>1, <3>2
  <2>2. CASE version # "student"
    <3>1. RowSide(b, n) = IF n <= r THEN n - 1 ELSE n
          BY <2>2 DEF RowSide
    <3>2. n = IF s < r THEN s + 1 ELSE s
          BY <2>2
    <3> HIDE DEF n, r, s
    <3> QED BY <1>1, <1>2, <3>1, <3>2
  <2> QED BY <2>1, <2>2
<1>5. n \in 1..LastQuery /\ n < Height
  <2> HIDE DEF n
  <2> QED BY <1>1, <1>3 DEF LastQuery
<1>6. Neighbours(b)[n] = x
  <2> HIDE DEF n
  <2> QED BY <1>1, <1>4, <1>5, NeighbourIs
<1> QED BY <1>5, <1>6

(* (The column.) *)
LEMMA AllInColumn ==
    ASSUME NEW b \in Blocks, NEW x \in Blocks \ {b}, InTheirRow(x) = InTheirRow(b)
    PROVE  \E n \in 1..LastQuery : ~(n < Height) /\ Neighbours(b)[n] = x
<1> DEFINE q == RowOfBlocks(b)
           r == InTheirRow(b)
           s == RowOfBlocks(x)
<1>1. /\ q \in 0..(Width - 1) /\ r \in Nat /\ s \in 0..(Width - 1)
      /\ b = q * Height + r /\ x = s * Height + r
      /\ Height \in Nat \ {0, 1} /\ Width \in Nat \ {0, 1}
      BY Places, FoodokuAssumption DEF FoodokuAssumption
<1>2. s # q
      BY <1>1
<1> DEFINE i == IF version = "student" THEN IF q < s THEN s - q ELSE s - q + Width
                ELSE IF s < q THEN s + 1 ELSE s
           n == i + Height - 1
<1>3. i \in 1..(Width - 1)
  <2> HIDE DEF q, s
  <2> QED BY <1>1, <1>2
<1>4. ColSide(b, i) = s
  <2>1. CASE version = "student"
    <3>1. ColSide(b, i) = IF q + i < Width THEN q + i ELSE q + i - Width
          BY <2>1 DEF ColSide
    <3>2. i = IF q < s THEN s - q ELSE s - q + Width
          BY <2>1
    <3> HIDE DEF i, q, s
    <3> QED BY <1>1, <1>2, <3>1, <3>2
  <2>2. CASE version # "student"
    <3>1. ColSide(b, i) = IF i <= q THEN i - 1 ELSE i
          BY <2>2 DEF ColSide
    <3>2. i = IF s < q THEN s + 1 ELSE s
          BY <2>2
    <3> HIDE DEF i, q, s
    <3> QED BY <1>1, <1>2, <3>1, <3>2
  <2> QED BY <2>1, <2>2
<1>5. n \in 1..LastQuery /\ ~(n < Height) /\ n - Height + 1 = i
  <2> HIDE DEF i
  <2> QED BY <1>1, <1>3 DEF LastQuery
<1>6. Neighbours(b)[n] = x
  <2> HIDE DEF n, i
  <2> QED BY <1>1, <1>4, <1>5, NeighbourIs
<1> QED BY <1>5, <1>6

(* To be neighbours is mutual. *)
LEMMA Mutual ==
    ASSUME NEW b \in Blocks, NEW n \in 1..LastQuery
    PROVE  \E n2 \in 1..LastQuery : /\ Neighbours(Neighbours(b)[n])[n2] = b
                                    /\ n2 < Height <=> n < Height
<1> DEFINE x == Neighbours(b)[n]
<1>1. /\ x \in Blocks /\ b \in Blocks \ {x}
      /\ n < Height => RowOfBlocks(x) = RowOfBlocks(b)
      /\ ~(n < Height) => InTheirRow(x) = InTheirRow(b)
      BY NeighbourOf
<1> HIDE DEF x
<1>2. CASE n < Height
      BY <1>1, <1>2, AllInRow DEF x
<1>3. CASE ~(n < Height)
      BY <1>1, <1>3, AllInColumn DEF x
<1> QED BY <1>2, <1>3

SameLine(n, c1, c2) ==
    IF n < Height THEN RowIn(c1) = RowIn(c2) ELSE ColIn(c1) = ColIn(c2)

(* Cells of two blocks that are in a line are so for neighbours. *)
LEMMA InLineIs ==
    ASSUME NEW b1 \in Blocks, NEW b2 \in Blocks, b1 # b2, NEW c1 \in Cells, NEW c2 \in Cells,
           InLine(b1, c1, b2, c2)
    PROVE  \E n \in 1..LastQuery : Neighbours(b1)[n] = b2 /\ SameLine(n, c1, c2)
<1>1. CASE RowOfBlocks(b1) = RowOfBlocks(b2) /\ RowIn(c1) = RowIn(c2)
      BY <1>1, AllInRow DEF SameLine
<1>2. CASE InTheirRow(b1) = InTheirRow(b2) /\ ColIn(c1) = ColIn(c2)
      BY <1>2, AllInColumn DEF SameLine
<1> QED BY <1>1, <1>2 DEF InLine, RowOfBlocks, InTheirRow

(* The converse. *)
LEMMA IsInLine ==
    ASSUME NEW b \in Blocks, NEW n \in 1..LastQuery, NEW c1 \in Cells, NEW c2 \in Cells,
           SameLine(n, c1, c2)
    PROVE  InLine(b, c1, Neighbours(b)[n], c2)
BY NeighbourOf DEF SameLine, InLine, RowOfBlocks, InTheirRow

-----------------------------------------------------------------------------
(* The invariant *)

(* The lines that come through a pipe. *)
BoardLines == [cmd : {"n", "s"}, cells : [Cells -> Digits \cup {0}]]
PutLines == [cmd : {"p"}, cell : Cells, digit : Digits]
QueryLines == [cmd : {"r", "c"}, line : Int, digit : Digits, from : Blocks]
AnswerLines == [cmd : {"answer"}, yes : BOOLEAN]
QuitLines == [cmd : {"q"}]
Lines == BoardLines \cup PutLines \cup QueryLines \cup AnswerLines \cup QuitLines

Types ==
    /\ version \in {"student", "instructor"}
    /\ job \in {"prompt", "new", "solution", "quit", "waiting", "over"}
    /\ puzzle \in Puzzles \cup {None} /\ to \in Blocks /\ left \in Nat
    /\ pipe \in [Blocks -> Seq(Lines)] /\ A \in Boards /\ B \in Boards
    /\ pc \in [Blocks -> {"main", "reading", "exited"}]
    /\ put \in [Blocks -> PutLines \cup {None}]
    /\ k \in [Blocks -> 0..LastQuery] /\ conflict \in [Blocks -> BOOLEAN]
    /\ misread \subseteq Blocks /\ eaten \subseteq Blocks \X Lines
    /\ solved \in BOOLEAN

(* What is in hand while a block waits for an answer, and what the         *)
(* coordinator is doing.                                                   *)
InHand ==
    /\ \A b \in Blocks : pc[b] = "reading" => put[b] \in PutLines /\ k[b] \in 1..LastQuery
    /\ job = "new" => puzzle # None /\ ~solved
    /\ job = "solution" => solved
    /\ solved => puzzle # None

(* No block asks itself. *)
Addressed ==
    \A b \in Blocks : \A i \in DOMAIN pipe[b] :
        pipe[b][i].cmd \in {"r", "c"} => pipe[b][i].from # b

IsBoard(l) == l.cmd \in {"n", "s"}
IsQuery(l, b) == l.cmd \in {"r", "c"} /\ l.from = b
Contains(b, cmds) == \E i \in DOMAIN pipe[b] : pipe[b][i].cmd \in cmds

(* A block that waits has a question under way, or its answer. *)
Asked(b) == \E x \in Blocks : \E i \in DOMAIN pipe[x] : IsQuery(pipe[x][i], b)
Waits ==
    \A b \in Blocks : pc[b] = "reading" =>
        Asked(b) \/ Contains(b, {"answer"}) \/ QuestionEaten(b)

(* Behind one of these commands there is nothing to put. *)
Behind(b, cmds) ==
    /\ \A i \in DOMAIN pipe[b] : pipe[b][i].cmd = "p" =>
          \E j \in DOMAIN pipe[b] : i < j /\ pipe[b][j].cmd \in cmds
    /\ pc[b] = "reading" => Contains(b, cmds)

(* The coordinator puts nothing after q, and while it sends a board.       *)
QuitSent(b) == job \in {"waiting", "over"} \/ (job = "quit" /\ b < to)
BoardSent(b) == job \in {"new", "solution"} /\ b < to
Quits ==
    \A b \in Blocks :
        /\ pc[b] = "exited" \/ Contains(b, {"q"}) => QuitSent(b)
        /\ QuitSent(b) => Behind(b, {"q"})
        /\ BoardSent(b) => Behind(b, {"n", "s"})

(* The board that the blocks have or will have when all lines are read.    *)
Current(b) ==
    IF puzzle = None THEN [c \in Cells |-> 0]
    ELSE IF solved THEN puzzle.S[b] ELSE puzzle.A[b]

Owed(b) == job \in {"new", "solution"} /\ to <= b
LastBoard(b, i) == \A j \in DOMAIN pipe[b] : i < j => ~IsBoard(pipe[b][j])
NoTwins(cells) == \A c1, c2 \in Cells : c1 # c2 /\ cells[c1] = cells[c2] => cells[c1] = 0
BoardsComing ==
    \A b \in Blocks : \A i \in DOMAIN pipe[b] : IsBoard(pipe[b][i]) =>
        /\ NoTwins(pipe[b][i].cells)
        /\ version = "instructor" => pipe[b][i].cmd = "n"
        /\ ~Owed(b) /\ LastBoard(b, i) => pipe[b][i].cells = Current(b)

(* The solution is shown, and nothing is put. *)
Shown ==
    solved => \A b \in Blocks :
        \/ BoardComing(b)
        \/ \E e \in eaten : e[1] = b /\ e[2].cmd = "n"
        \/ /\ B[b] = puzzle.S[b] /\ pc[b] # "reading"
           /\ version = "instructor" => A[b] = puzzle.S[b]

(* Within a block, no digit is there twice, nor will be. *)
OwnBlock ==
    \A b \in Blocks :
        /\ NoTwins(B[b])
        /\ pc[b] = "reading" => \A c \in Cells : c # put[b].cell => B[b][c] # put[b].digit

(* Who has misread nothing has one question under way, or one answer, and  *)
(* only while it waits.                                                    *)
OneQuestion(b) ==
    \A x \in Blocks : \A i \in DOMAIN pipe[x] : IsQuery(pipe[x][i], b) =>
        /\ pc[b] = "reading" /\ x = Neighbours(b)[k[b]]
        /\ pipe[x][i] = Query(b, k[b], put[b])
        /\ \A j \in DOMAIN pipe[x] : IsQuery(pipe[x][j], b) => j = i
        /\ ~Contains(b, {"answer"})
OneAnswer(b) ==
    \A i \in DOMAIN pipe[b] : pipe[b][i].cmd = "answer" =>
        /\ pc[b] = "reading"
        /\ \A j \in DOMAIN pipe[b] : pipe[b][j].cmd = "answer" => j = i
Matched == \A b \in Blocks \ misread : OneQuestion(b) /\ OneAnswer(b)

(* Who has the current board asks blocks that will answer by theirs.       *)
AskedInTime ==
    \A b \in Blocks \ misread : ~BoardComing(b) =>
        \A x \in Blocks : \A i \in DOMAIN pipe[x] : IsQuery(pipe[x][i], b) =>
            ~Owed(x) /\ LastBoard(x, i)

(* Block b has a `no' from its n-th neighbour. *)
Passed(b, n) ==
    /\ pc[b] = "reading" /\ ~conflict[b]
    /\ \/ n < k[b]
       \/ /\ n = k[b]
          /\ \E i \in DOMAIN pipe[b] : pipe[b][i].cmd = "answer" /\ ~pipe[b][i].yes

(* What that says of two neighbours. *)
Apart(b1, n, b2) ==
    ~BoardComing(b1) /\ ~BoardComing(b2) =>
        \A c1, c2 \in Cells : SameLine(n, c1, c2) =>
            B[b1][c1] # B[b2][c2] \/ B[b1][c1] = 0
Free(b1, n, b2) ==
    ~BoardComing(b1) /\ ~BoardComing(b2) /\ Passed(b1, n) =>
        \A c2 \in Cells : SameLine(n, put[b1].cell, c2) => B[b2][c2] # put[b1].digit
OneOfTwo(b1, n, b2) ==
    Passed(b1, n) => \A n2 \in 1..LastQuery :
        Neighbours(b2)[n2] = b1 => ~Passed(b2, n2)
NotYet(b1, n, b2) ==
    ~BoardComing(b1) /\ BoardComing(b2) => B[b1] = Current(b1) /\ ~Passed(b1, n)

Pairs ==
    \A b1, b2 \in Blocks \ misread : \A n \in 1..LastQuery : Neighbours(b1)[n] = b2 =>
        /\ Apart(b1, n, b2) /\ Free(b1, n, b2)
        /\ OneOfTwo(b1, n, b2) /\ NotYet(b1, n, b2)

Inv ==
    /\ Types /\ InHand /\ Addressed /\ Waits /\ Quits /\ BoardsComing /\ Shown /\ OwnBlock
    /\ Matched /\ AskedInTime /\ Pairs

-----------------------------------------------------------------------------
(* What a step does to the pipes *)

(* A line of a kind is a record of that kind. *)
LEMMA LineKinds ==
    ASSUME NEW l \in Lines
    PROVE  /\ l.cmd \in {"n", "s", "p", "r", "c", "answer", "q"}
           /\ l.cmd \in {"n", "s"} => l \in BoardLines
           /\ l.cmd = "p" => l \in PutLines
           /\ l.cmd \in {"r", "c"} => l \in QueryLines
           /\ l.cmd = "answer" => l \in AnswerLines
BY DEF Lines, BoardLines, PutLines, QueryLines, AnswerLines, QuitLines

(* The blocks of T take a line from their pipes, those of R get m. *)
Flow(T, R, m) ==
    /\ pipe' \in [Blocks -> Seq(Lines)]
    /\ \A y \in Blocks :
          /\ y \in T => pipe[y] # <<>> /\ pipe'[y] = Tail(pipe[y])
          /\ y \notin T /\ y \in R => pipe'[y] = Append(pipe[y], m)
          /\ y \notin T /\ y \notin R => pipe'[y] = pipe[y]

Front(b) == Head(pipe[b])

(* Without the line in front, the others move up by one. *)
LEMMA MovedUp ==
    ASSUME Types, NEW b \in Blocks, pipe[b] # <<>>
    PROVE  /\ Front(b) = pipe[b][1] /\ Front(b) \in Lines /\ 1 \in DOMAIN pipe[b]
           /\ Tail(pipe[b]) \in Seq(Lines)
           /\ \A i \in DOMAIN pipe[b] : i \in Nat \ {0}
           /\ \A i \in DOMAIN pipe[b] : i # 1 =>
                 i - 1 \in DOMAIN Tail(pipe[b]) /\ Tail(pipe[b])[i - 1] = pipe[b][i]
           /\ \A i \in DOMAIN Tail(pipe[b]) :
                 /\ i \in Nat \ {0}
                 /\ i + 1 \in DOMAIN pipe[b] /\ Tail(pipe[b])[i] = pipe[b][i + 1]
<1> DEFINE s == pipe[b]
<1>1. s \in Seq(Lines) /\ s # <<>>
      BY DEF Types
<1> HIDE DEF s
<1>2. /\ Head(s) \in Lines /\ Tail(s) \in Seq(Lines) /\ Len(s) \in Nat \ {0}
      /\ DOMAIN s = 1..Len(s) /\ DOMAIN Tail(s) = 1..(Len(s) - 1)
      /\ \A i \in 1..(Len(s) - 1) : Tail(s)[i] = s[i + 1]
      /\ Head(s) = s[1]
      BY <1>1
<1>3. \A i \in 1..Len(s) : i # 1 => i - 1 \in 1..(Len(s) - 1) /\ Tail(s)[i - 1] = s[i]
      BY <1>2
<1> QED BY <1>2, <1>3 DEF s, Front

(* An added line is behind the others. *)
LEMMA Added ==
    ASSUME Types, NEW b \in Blocks, NEW m \in Lines
    PROVE  /\ Append(pipe[b], m) \in Seq(Lines)
           /\ Len(pipe[b]) + 1 \in DOMAIN Append(pipe[b], m)
           /\ Append(pipe[b], m)[Len(pipe[b]) + 1] = m
           /\ \A i \in DOMAIN pipe[b] : /\ i \in Nat \ {0} /\ i < Len(pipe[b]) + 1
                                        /\ i \in DOMAIN Append(pipe[b], m)
                                        /\ Append(pipe[b], m)[i] = pipe[b][i]
           /\ \A i \in DOMAIN Append(pipe[b], m) :
                 i \in DOMAIN pipe[b] \/ i = Len(pipe[b]) + 1
<1> DEFINE s == pipe[b]
<1>1. s \in Seq(Lines)
      BY DEF Types
<1> HIDE DEF s
<1> QED BY <1>1 DEF s

(* The lines in the pipes are as they should be. *)
LEMMA LineAt ==
    ASSUME Types, NEW b \in Blocks, NEW i \in DOMAIN pipe[b]
    PROVE  pipe[b][i] \in Lines /\ i \in Nat \ {0}
BY DEF Types

(* The position of a line before a step, for one after it: 0 if it is new. *)
Was(y, T, R, i) == IF y \in T THEN i + 1 ELSE IF i \in DOMAIN pipe[y] THEN i ELSE 0

(* What is in a pipe after a step was there, in this order, or is new.     *)
LEMMA FlowBack ==
    ASSUME Types, NEW T, NEW R, NEW m \in Lines, Flow(T, R, m), NEW y \in Blocks,
           NEW i \in DOMAIN pipe'[y]
    PROVE  /\ i \in Nat \ {0} /\ pipe'[y][i] \in Lines
           /\ \/ /\ Was(y, T, R, i) \in DOMAIN pipe[y]
                 /\ pipe'[y][i] = pipe[y][Was(y, T, R, i)]
              \/ /\ y \notin T /\ y \in R /\ Was(y, T, R, i) = 0
                 /\ pipe'[y][i] = m /\ i = Len(pipe[y]) + 1
<1>1. pipe'[y] \in Seq(Lines)
      BY DEF Flow
<1>2. CASE y \in T
  <2>1. pipe[y] # <<>> /\ pipe'[y] = Tail(pipe[y])
        BY <1>2 DEF Flow
  <2>2. i \in Nat \ {0} /\ i + 1 \in DOMAIN pipe[y] /\ pipe'[y][i] = pipe[y][i + 1]
        BY <2>1, MovedUp
  <2>3. Was(y, T, R, i) = i + 1
        BY <1>2 DEF Was
  <2>4. pipe[y][i + 1] \in Lines
        BY <2>2, LineAt
  <2> QED BY <2>2, <2>3, <2>4
<1>3. CASE y \notin T /\ y \in R
  <2>1. pipe'[y] = Append(pipe[y], m)
        BY <1>3 DEF Flow
  <2>2. i \in DOMAIN pipe[y] \/ i = Len(pipe[y]) + 1
        BY <2>1, Added
  <2>3. Len(pipe[y]) + 1 \notin DOMAIN pipe[y]
        BY DEF Types
  <2> QED BY <1>1, <1>3, <2>1, <2>2, <2>3, Added DEF Was
<1>4. CASE y \notin T /\ y \notin R
      BY <1>1, <1>4 DEF Flow, Was
<1> QED BY <1>2, <1>3, <1>4

(* What was in a pipe is there still, unless it has been taken. *)
LEMMA FlowOn ==
    ASSUME Types, NEW T, NEW R, NEW m \in Lines, Flow(T, R, m), NEW y \in Blocks,
           NEW i \in DOMAIN pipe[y]
    PROVE  \/ y \in T /\ i = 1 /\ pipe[y][i] = Front(y)
           \/ \E j \in DOMAIN pipe'[y] : pipe'[y][j] = pipe[y][i] /\ Was(y, T, R, j) = i
<1>1. CASE y \in T
  <2>0. pipe[y] # <<>> /\ pipe'[y] = Tail(pipe[y])
        BY <1>1 DEF Flow
  <2>1. CASE i = 1
        BY <1>1, <2>0, <2>1, MovedUp
  <2>2. CASE i # 1
    <3>1. /\ i \in Nat /\ i - 1 \in DOMAIN pipe'[y]
          /\ pipe'[y][i - 1] = pipe[y][i]
          BY <2>0, <2>2, MovedUp
    <3> QED BY <1>1, <3>1 DEF Was
  <2> QED BY <2>1, <2>2
<1>2. CASE y \notin T /\ y \in R
      BY <1>2, Added DEF Flow, Was
<1>3. CASE y \notin T /\ y \notin R
      BY <1>3 DEF Flow, Was
<1> QED BY <1>1, <1>2, <1>3

(* The new line is there. *)
LEMMA FlowNew ==
    ASSUME Types, NEW T, NEW R, NEW m \in Lines, Flow(T, R, m), NEW y \in Blocks,
           y \notin T, y \in R
    PROVE  \E j \in DOMAIN pipe'[y] : /\ pipe'[y][j] = m /\ Was(y, T, R, j) = 0
                                      /\ j = Len(pipe[y]) + 1
<1>1. pipe'[y] = Append(pipe[y], m)
      BY DEF Flow
<1>2. Len(pipe[y]) + 1 \notin DOMAIN pipe[y]
      BY DEF Types
<1> QED BY <1>1, <1>2, Added DEF Was

(* Positions keep their order. *)
LEMMA WasOrder ==
    ASSUME Types, NEW T, NEW R, NEW m \in Lines, Flow(T, R, m), NEW y \in Blocks,
           NEW i \in DOMAIN pipe'[y], NEW j \in DOMAIN pipe'[y],
           Was(y, T, R, i) \in DOMAIN pipe[y], Was(y, T, R, j) \in DOMAIN pipe[y]
    PROVE  /\ i < j <=> Was(y, T, R, i) < Was(y, T, R, j)
           /\ i = j <=> Was(y, T, R, i) = Was(y, T, R, j)
<1>1. i \in Nat /\ j \in Nat
      BY FlowBack
<1>2. 0 \notin DOMAIN pipe[y]
      BY DEF Types
<1> QED BY <1>1, <1>2 DEF Was

(* A kind of lines in a pipe, before and after. *)
LEMMA FlowContains ==
    ASSUME Types, NEW T, NEW R, NEW m \in Lines, Flow(T, R, m), NEW y \in Blocks, NEW cmds
    PROVE  /\ Contains(y, cmds)' => Contains(y, cmds)
                                    \/ (y \notin T /\ y \in R /\ m.cmd \in cmds)
           /\ Contains(y, cmds) => Contains(y, cmds)' \/ (y \in T /\ Front(y).cmd \in cmds)
           /\ y \notin T /\ y \in R /\ m.cmd \in cmds => Contains(y, cmds)'
<1>1. Contains(y, cmds)' => Contains(y, cmds) \/ (y \notin T /\ y \in R /\ m.cmd \in cmds)
      BY FlowBack DEF Contains
<1>2. Contains(y, cmds) => Contains(y, cmds)' \/ (y \in T /\ Front(y).cmd \in cmds)
      BY FlowOn DEF Contains
<1>3. y \notin T /\ y \in R /\ m.cmd \in cmds => Contains(y, cmds)'
      BY FlowNew DEF Contains
<1> QED BY <1>1, <1>2, <1>3

-----------------------------------------------------------------------------
(* What the steps do *)

BlocksIdle == UNCHANGED <<version, A, B, pc, put, k, conflict, misread, eaten>>

(* The coordinator: a new board is announced, a put is sent, the player    *)
(* gives up, a line is sent, all blocks have exited.                       *)
Announces ==
    /\ BlocksIdle /\ pipe' = pipe /\ job = "prompt" /\ to' = 0 /\ left' \in Nat
    /\ \/ job' = "new" /\ ~solved' /\ puzzle' \in Puzzles
       \/ job' = "solution" /\ solved' /\ puzzle' = puzzle /\ puzzle # None
    /\ solved' \in BOOLEAN

Tries(x, m) ==
    /\ BlocksIdle /\ job = "prompt" /\ UNCHANGED <<job, to, puzzle, solved>>
    /\ left' \in Nat /\ x \in Blocks /\ m \in PutLines /\ Flow({}, {x}, m)

GivesUp ==
    /\ BlocksIdle /\ pipe' = pipe /\ UNCHANGED <<left, puzzle, solved>>
    /\ job = "prompt" /\ job' = "quit" /\ to' = 0

Sends ==
    /\ BlocksIdle /\ UNCHANGED <<left, puzzle, solved>>
    /\ job \in {"new", "solution", "quit"} /\ Line(to) \in Lines
    /\ Flow({}, {to}, Line(to))
    /\ \/ to + 1 \in Blocks /\ to' = to + 1 /\ job' = job
       \/ /\ to + 1 \notin Blocks /\ to' = 0
          /\ job' = IF job = "quit" THEN "waiting" ELSE "prompt"

Closes ==
    /\ BlocksIdle /\ pipe' = pipe /\ UNCHANGED <<left, to, puzzle, solved>>
    /\ job = "waiting" /\ job' = "over"

(* A block: what it leaves alone, in any case and at a command. *)
Frame(b) ==
    /\ UNCHANGED <<version, coordinator>> /\ b \in Blocks
    /\ A' \in Boards /\ B' \in Boards
    /\ pc' \in [Blocks -> {"main", "reading", "exited"}]
    /\ put' \in [Blocks -> PutLines \cup {None}] /\ k' \in [Blocks -> 0..LastQuery]
    /\ conflict' \in [Blocks -> BOOLEAN]
    /\ \A y \in Blocks : y # b =>
          /\ A'[y] = A[y] /\ B'[y] = B[y] /\ pc'[y] = pc[y]
          /\ put'[y] = put[y] /\ k'[y] = k[y] /\ conflict'[y] = conflict[y]
AtMain(b) == Frame(b) /\ pc[b] = "main" /\ UNCHANGED <<misread, eaten>>

NoLine == [cmd |-> "q"]

(* It loads a board, ... *)
Loads(b) ==
    /\ AtMain(b) /\ pc'[b] = "main" /\ Flow({b}, {}, NoLine)
    /\ Front(b) \in BoardLines /\ B'[b] = Front(b).cells
    /\ Front(b).cmd = "n" => A'[b] = Front(b).cells

(* ... a command comes to nothing, or to an end, ... *)
Drops(b) ==
    /\ AtMain(b) /\ Flow({b}, {}, NoLine)
    /\ Front(b).cmd \in {"p", "answer", "q"}
    /\ A'[b] = A[b] /\ B'[b] = B[b]
    /\ pc'[b] = IF Front(b).cmd = "q" THEN "exited" ELSE "main"

(* ... a question is answered, ... *)
Answer(b) == [cmd |-> "answer", yes |-> Has(b, Front(b))]
Answers(b) ==
    /\ AtMain(b) /\ pc'[b] = "main"
    /\ Front(b) \in QueryLines /\ Front(b).from # b
    /\ Flow({b}, {Front(b).from}, Answer(b))
    /\ A'[b] = A[b] /\ B'[b] = B[b]

(* ... a put begins, ... *)
Starts(b) ==
    /\ AtMain(b) /\ pc'[b] = "reading"
    /\ Front(b) \in PutLines /\ ~Refused(b, Front(b))
    /\ put'[b] = Front(b) /\ k'[b] = 1 /\ ~conflict'[b]
    /\ A'[b] = A[b] /\ B'[b] = B[b]
    /\ Query(b, 1, Front(b)) \in QueryLines
    /\ Flow({b}, {Neighbours(b)[1]}, Query(b, 1, Front(b)))

(* ... and it goes on with the next question, or ends.  An answer has been *)
(* read, or a command misread and perhaps eaten.                           *)
ByAnswer(b, T, next) ==
    /\ T = {b} /\ Front(b) \in AnswerLines /\ UNCHANGED <<misread, eaten>>
    /\ conflict'[b] = (conflict[b] \/ Front(b).yes)
    /\ next = NextQuery(k[b], Front(b).yes)
ByMistake(b, T, next) ==
    /\ T = {} /\ misread' = misread \cup {b} /\ eaten' = eaten
    /\ conflict'[b] = conflict[b] /\ next = k[b] + 1
ByEating(b, T, next) ==
    /\ T = {b} /\ misread' = misread \cup {b} /\ Front(b).cmd # "answer"
    /\ version = "instructor" /\ eaten' = eaten \cup {<<b, Front(b)>>}
    /\ conflict'[b] = conflict[b] /\ next = LastQuery + 1
GoesOn(b, T, next) ==
    /\ Frame(b) /\ pc[b] = "reading" /\ A'[b] = A[b] /\ next \in Nat /\ k[b] < next
    /\ b \in T => pipe[b] # <<>>
    /\ ByAnswer(b, T, next) \/ ByMistake(b, T, next) \/ ByEating(b, T, next)

Asks(b, T, next) ==
    /\ GoesOn(b, T, next) /\ next \in 1..LastQuery
    /\ pc'[b] = "reading" /\ B'[b] = B[b] /\ put'[b] = put[b] /\ k'[b] = next
    /\ Query(b, next, put[b]) \in QueryLines
    /\ Flow(T, {Neighbours(b)[next]}, Query(b, next, put[b]))
Ends(b, T, next) ==
    /\ GoesOn(b, T, next) /\ next > LastQuery
    /\ pc'[b] = "main" /\ Flow(T, {}, NoLine)
    /\ B'[b] = IF conflict'[b] THEN B[b]
               ELSE [B[b] EXCEPT ![put[b].cell] = put[b].digit]

(* A line that nobody else gets. *)
LEMMA NoLineIs == NoLine \in Lines
BY DEF NoLine, Lines, QuitLines

(* A question is a line. *)
LEMMA QueryIs ==
    ASSUME NEW b \in Blocks, NEW n, NEW p \in PutLines
    PROVE  /\ Query(b, n, p) \in QueryLines /\ Query(b, n, p) \in Lines
           /\ Query(b, n, p).cmd = (IF n < Height THEN "r" ELSE "c")
           /\ Query(b, n, p).line = (IF n < Height THEN RowIn(p.cell) ELSE ColIn(p.cell))
           /\ Query(b, n, p).from = b /\ Query(b, n, p).digit = p.digit
<1>1. p.cell \in Cells /\ p.digit \in Digits
      BY DEF PutLines
<1>2. RowIn(p.cell) \in Int /\ ColIn(p.cell) \in Int
      BY <1>1, FoodokuAssumption DEF FoodokuAssumption, RowIn, ColIn, Cells
<1>3. CASE n < Height
      BY <1>1, <1>2, <1>3 DEF Query, QueryLines, Lines
<1>4. CASE ~(n < Height)
      BY <1>1, <1>2, <1>4 DEF Query, QueryLines, Lines
<1> QED BY <1>3, <1>4

(* Whom to ask after the n-th. *)
LEMMA NextIs ==
    ASSUME NEW n \in 1..LastQuery, NEW yes \in BOOLEAN
    PROVE  /\ LastQuery \in Nat /\ 1 \in 1..LastQuery
           /\ NextQuery(n, yes) \in Nat /\ n < NextQuery(n, yes)
           /\ ~yes => NextQuery(n, yes) = n + 1
BY FoodokuAssumption DEF FoodokuAssumption, LastQuery, NextQuery

(* One pipe loses its first line, another may get one. *)
LEMMA TakeFlow ==
    ASSUME Types, NEW b \in Blocks, pipe[b] # <<>>, pipe' = Rest(b)
    PROVE  \A m : Flow({b}, {}, m)
<1>1. Tail(pipe[b]) \in Seq(Lines)
      BY MovedUp
<1> QED BY <1>1 DEF Types, Flow, Rest

(* (The latter.) *)
LEMMA SendFlow ==
    ASSUME Types, NEW x \in Blocks, NEW m \in Lines,
           pipe' = [pipe EXCEPT ![x] = Append(@, m)]
    PROVE  Flow({}, {x}, m)
<1>1. Append(pipe[x], m) \in Seq(Lines)
      BY Added
<1> QED BY <1>1 DEF Types, Flow

(* (Both.) *)
LEMMA PassFlow ==
    ASSUME Types, NEW b \in Blocks, pipe[b] # <<>>, NEW x \in Blocks, x # b,
           NEW m \in Lines, pipe' = [Rest(b) EXCEPT ![x] = Append(@, m)]
    PROVE  Flow({b}, {x}, m)
<1>1. Append(pipe[x], m) \in Seq(Lines) /\ Tail(pipe[b]) \in Seq(Lines)
      BY Added, MovedUp
<1> QED BY <1>1 DEF Types, Flow, Rest

(* What the coordinator writes. *)
LEMMA LineIs ==
    ASSUME Types, InHand, NEW b \in Blocks
    PROVE  /\ job = "new" => /\ Line(b) \in BoardLines /\ Line(b).cmd = "n"
                             /\ Line(b).cells = puzzle.A[b]
           /\ job = "solution" => /\ Line(b) \in BoardLines /\ Line(b).cells = puzzle.S[b]
                                  /\ version = "instructor" => Line(b).cmd = "n"
           /\ job = "quit" => Line(b) \in QuitLines /\ Line(b).cmd = "q"
<1>1. CASE job = "new"
  <2>1. puzzle \in Puzzles
        BY <1>1 DEF Types, InHand
  <2>2. puzzle.A[b] \in [Cells -> Digits \cup {0}]
        BY <2>1, FoodokuAssumption DEF FoodokuAssumption, Boards
  <2>3. Line(b) = [cmd |-> "n", cells |-> puzzle.A[b]]
        BY <1>1 DEF Line
  <2> QED BY <1>1, <2>2, <2>3 DEF BoardLines
<1>2. CASE job = "solution"
  <2>1. puzzle \in Puzzles
        BY <1>2 DEF Types, InHand
  <2>2. puzzle.S[b] \in [Cells -> Digits \cup {0}]
        BY <2>1, FoodokuAssumption DEF FoodokuAssumption
  <2>3. Line(b) = [cmd |-> IF version = "student" THEN "s" ELSE "n", cells |-> puzzle.S[b]]
        BY <1>2 DEF Line
  <2>4. CASE version = "student"
        BY <1>2, <2>2, <2>3, <2>4 DEF BoardLines
  <2>5. CASE version # "student"
        BY <1>2, <2>2, <2>3, <2>5 DEF BoardLines
  <2> QED BY <2>4, <2>5
<1>3. CASE job = "quit"
  <2>1. Line(b) = [cmd |-> "q"]
        BY <1>3 DEF Line
  <2> QED BY <1>3, <2>1 DEF QuitLines
<1> QED BY <1>1, <1>2, <1>3

(* The coordinator's steps. *)
LEMMA CoordinatorEffects ==
    ASSUME Types, InHand,
           newGame \/ showSolution \/ tryPut \/ cleanup \/ CoordinatorStep
    PROVE  Announces \/ (\E x, m : Tries(x, m)) \/ GivesUp \/ Sends \/ Closes
<1>0. left \in Nat
      BY DEF Types
<1>1. CASE newGame
  <2>1. left' \in Nat
        BY <1>0, <1>1 DEF newGame, BoardCommand, Command
  <2> QED BY <1>1, <2>1 DEF newGame, BoardCommand, Command, Announces, BlocksIdle, asking
<1>2. CASE showSolution
  <2>1. left' \in Nat
        BY <1>0, <1>2 DEF showSolution, BoardCommand, Command
  <2> QED BY <1>2, <2>1
          DEF showSolution, BoardCommand, Command, Announces, BlocksIdle, asking
<1>3. CASE tryPut
  <2>1. left' \in Nat
        BY <1>0, <1>3 DEF tryPut, Command
  <2>2. PICK p \in Puts : Send(p.block, [cmd |-> "p", cell |-> p.cell, digit |-> p.digit])
        BY <1>3 DEF tryPut
  <2> DEFINE m == [cmd |-> "p", cell |-> p.cell, digit |-> p.digit]
  <2>3. p.block \in Blocks /\ m \in PutLines
        BY FoodokuAssumption DEF FoodokuAssumption, PutLines
  <2>4. Flow({}, {p.block}, m)
    <3>1. m \in Lines
          BY <2>3 DEF Lines
    <3>2. pipe' = [pipe EXCEPT ![p.block] = Append(@, m)]
          BY <2>2 DEF Send
    <3> HIDE DEF m
    <3> QED BY <2>3, <3>1, <3>2, SendFlow
  <2>5. BlocksIdle /\ job = "prompt" /\ UNCHANGED <<job, to, puzzle, solved>>
        BY <1>3 DEF tryPut, Command, BlocksIdle, asking
  <2>6. Tries(p.block, m)
        BY <2>1, <2>3, <2>4, <2>5 DEF Tries
  <2> QED BY <2>6
<1>4. CASE cleanup
      BY <1>4 DEF cleanup, GivesUp, BlocksIdle, asking
<1>5. CASE sendLine
  <2>1. job \in {"new", "solution", "quit"} /\ to \in Blocks
        BY <1>5 DEF sendLine, Types
  <2>2. Line(to) \in Lines
        BY <2>1, LineIs DEF Lines
  <2>3. Flow({}, {to}, Line(to))
        BY <1>5, <2>1, <2>2, SendFlow DEF sendLine, Send
  <2> QED BY <1>5, <2>1, <2>2, <2>3 DEF sendLine, Sends, BlocksIdle, asking
<1>6. CASE gameOver
      BY <1>6 DEF gameOver, Closes, BlocksIdle, asking
<1> QED BY <1>1, <1>2, <1>3, <1>4, <1>5, <1>6 DEF CoordinatorStep

(* What a block leaves alone at a command. *)
LEMMA CommandFrame ==
    ASSUME Types, NEW b \in Blocks, UNCHANGED <<version, coordinator, asking, misread, eaten>>,
           A' \in Boards, B' \in Boards, pc' \in [Blocks -> {"main", "reading", "exited"}],
           \A y \in Blocks \ {b} : A'[y] = A[y] /\ B'[y] = B[y] /\ pc'[y] = pc[y],
           pc[b] = "main"
    PROVE  AtMain(b)
BY DEF Types, AtMain, Frame, asking

(* The steps of a block at a command. *)
LEMMA CommandEffects ==
    ASSUME Types, Addressed, NEW b \in Blocks,
           \/ readBlock(b) \/ refusePut(b) \/ startPut(b) \/ answerQuery(b)
           \/ ignoreAnswer(b) \/ quitting(b)
    PROVE  Loads(b) \/ Drops(b) \/ Starts(b) \/ Answers(b)
<1>1. /\ pc[b] = "main" /\ pipe[b] # <<>> /\ UNCHANGED <<version, coordinator>>
      BY DEF readBlock, refusePut, startPut, answerQuery, ignoreAnswer, quitting, Reads, InFront
<1>2. Front(b) \in Lines /\ Front(b) = pipe[b][1] /\ 1 \in DOMAIN pipe[b]
      BY <1>1, MovedUp
<1>3. CASE readBlock(b)
  <2>1. Front(b).cmd \in {"n", "s"}
        BY <1>3 DEF readBlock, Reads, InFront, Front
  <2>2. Front(b) \in BoardLines
        BY <1>2, <2>1, LineKinds
  <2>3. Front(b).cells \in [Cells -> Digits \cup {0}]
        BY <2>2 DEF BoardLines
  <2>4. /\ B' = [B EXCEPT ![b] = Front(b).cells]
        /\ A' = IF Front(b).cmd = "n" THEN [A EXCEPT ![b] = Front(b).cells] ELSE A
        /\ pipe' = Rest(b) /\ UNCHANGED <<pc, asking, misread, eaten>>
        BY <1>3 DEF readBlock, Front
  <2>5. A' \in Boards /\ B' \in Boards
        BY <2>3, <2>4 DEF Types, Boards
  <2>6. AtMain(b)
        BY <1>1, <2>4, <2>5, CommandFrame DEF Types, Boards
  <2>7. B'[b] = Front(b).cells /\ (Front(b).cmd = "n" => A'[b] = Front(b).cells)
        BY <2>4 DEF Types, Boards
  <2> QED BY <1>1, <2>2, <2>4, <2>6, <2>7, TakeFlow DEF Loads
<1>4. CASE refusePut(b) \/ ignoreAnswer(b)
  <2>1. /\ Front(b).cmd \in {"p", "answer"} /\ pipe' = Rest(b)
        /\ UNCHANGED <<A, B, pc, asking, misread, eaten>>
        BY <1>4 DEF refusePut, ignoreAnswer, Reads, InFront, Front
  <2>2. AtMain(b)
        BY <1>1, <2>1, CommandFrame DEF Types
  <2> QED BY <1>1, <2>1, <2>2, TakeFlow DEF Drops
<1>5. CASE quitting(b)
  <2>1. /\ Front(b).cmd = "q" /\ pipe' = Rest(b)
        /\ UNCHANGED <<A, B, asking, misread, eaten>>
        /\ pc' = [pc EXCEPT ![b] = "exited"]
        BY <1>5 DEF quitting, Reads, InFront, Front
  <2>2. AtMain(b)
        BY <1>1, <2>1, CommandFrame DEF Types
  <2>3. pc'[b] = "exited"
        BY <2>1 DEF Types
  <2> QED BY <1>1, <2>1, <2>2, <2>3, TakeFlow DEF Drops
<1>6. CASE answerQuery(b)
  <2>1. /\ Front(b).cmd \in {"r", "c"} /\ UNCHANGED <<A, B, pc, asking, misread, eaten>>
        /\ pipe' = [Rest(b) EXCEPT ![Front(b).from] = Append(@, Answer(b))]
        BY <1>6 DEF answerQuery, Reads, InFront, Front, Answer
  <2>2. Front(b) \in QueryLines /\ Front(b).from \in Blocks /\ Front(b).from # b
    <3>1. Front(b) \in QueryLines
          BY <1>2, <2>1, LineKinds
    <3> QED BY <3>1, <1>2, <2>1 DEF Addressed, QueryLines
  <2>3. Answer(b) \in Lines
        BY DEF Answer, Lines, AnswerLines, Has
  <2>4. AtMain(b)
        BY <1>1, <2>1, CommandFrame DEF Types
  <2>5. Flow({b}, {Front(b).from}, Answer(b))
        BY <1>1, <2>1, <2>2, <2>3, PassFlow
  <2> QED BY <1>1, <2>1, <2>2, <2>4, <2>5 DEF Answers
<1>7. CASE startPut(b)
  <2>1. Front(b).cmd \in {"p"} /\ ~Refused(b, Front(b))
        BY <1>7 DEF startPut, Reads, InFront, Front
  <2>2. Front(b) \in PutLines
        BY <1>2, <2>1, LineKinds
  <2> DEFINE x == Neighbours(b)[1]
             q == Query(b, 1, Front(b))
  <2>3. /\ put' = [put EXCEPT ![b] = Front(b)] /\ k' = [k EXCEPT ![b] = 1]
        /\ conflict' = [conflict EXCEPT ![b] = FALSE]
        /\ pc' = [pc EXCEPT ![b] = "reading"] /\ UNCHANGED <<A, B, misread, eaten>>
        /\ pipe' = [Rest(b) EXCEPT ![x] = Append(@, q)]
        BY <1>7 DEF startPut, Front
  <2>4. x \in Blocks /\ x # b /\ 1 \in 0..LastQuery
        BY NeighbourOf, FoodokuAssumption DEF FoodokuAssumption, LastQuery
  <2>5. q \in QueryLines /\ q \in Lines
        BY <2>2, QueryIs
  <2>6. Flow({b}, {x}, q)
    <3> HIDE DEF x, q
    <3> QED BY <1>1, <2>3, <2>4, <2>5, PassFlow
  <2>7. Frame(b)
    <3>1. /\ put' \in [Blocks -> PutLines \cup {None}] /\ k' \in [Blocks -> 0..LastQuery]
          /\ conflict' \in [Blocks -> BOOLEAN] /\ A' \in Boards /\ B' \in Boards
          /\ pc' \in [Blocks -> {"main", "reading", "exited"}]
          BY <2>2, <2>3, <2>4 DEF Types
    <3>2. \A y \in Blocks : y # b =>
              /\ A'[y] = A[y] /\ B'[y] = B[y] /\ pc'[y] = pc[y]
              /\ put'[y] = put[y] /\ k'[y] = k[y] /\ conflict'[y] = conflict[y]
          BY <2>3 DEF Types
    <3> QED BY <1>1, <3>1, <3>2 DEF Frame
  <2>8. /\ pc'[b] = "reading" /\ put'[b] = Front(b) /\ k'[b] = 1 /\ ~conflict'[b]
        BY <2>3 DEF Types
  <2> QED BY <1>1, <2>1, <2>2, <2>3, <2>5, <2>6, <2>7, <2>8 DEF Starts, AtMain
<1> QED BY <1>3, <1>4, <1>5, <1>6, <1>7

(* A put goes on, with `rest' left in the pipes. *)
LEMMA ContinueEffects ==
    ASSUME Types, InHand, NEW b \in Blocks, pc[b] = "reading", NEW next \in Nat, k[b] < next,
           NEW yes \in BOOLEAN, NEW T, NEW rest,
           UNCHANGED <<version, coordinator, A>>, Continue(b, next, yes, rest),
           \/ T = {} /\ rest = pipe
           \/ T = {b} /\ rest = Rest(b) /\ pipe[b] # <<>>,
           \/ T = {b} /\ Front(b) \in AnswerLines /\ UNCHANGED <<misread, eaten>>
              /\ yes = (conflict[b] \/ Front(b).yes) /\ next = NextQuery(k[b], Front(b).yes)
           \/ T = {} /\ misread' = misread \cup {b} /\ eaten' = eaten
              /\ yes = conflict[b] /\ next = k[b] + 1
           \/ T = {b} /\ misread' = misread \cup {b} /\ Front(b).cmd # "answer"
              /\ version = "instructor" /\ eaten' = eaten \cup {<<b, Front(b)>>}
              /\ yes = conflict[b] /\ next = LastQuery + 1
    PROVE  Asks(b, T, next) \/ Ends(b, T, next)
<1>0. /\ put[b] \in PutLines /\ put[b].cell \in Cells /\ put[b].digit \in Digits
      /\ LastQuery \in Nat
  <2>1. put[b] \in PutLines
        BY DEF InHand
  <2> QED BY <2>1, FoodokuAssumption DEF PutLines, FoodokuAssumption, LastQuery
<1>1. conflict' = [conflict EXCEPT ![b] = yes] /\ conflict'[b] = yes
      BY DEF Continue, Types
<1>2. ByAnswer(b, T, next) \/ ByMistake(b, T, next) \/ ByEating(b, T, next)
      BY <1>1 DEF ByAnswer, ByMistake, ByEating
<1>3. ASSUME Frame(b) PROVE GoesOn(b, T, next)
  <2>1. b \in T => pipe[b] # <<>>
        OBVIOUS
  <2>2. A'[b] = A[b]
        OBVIOUS
  <2> QED BY <1>2, <1>3, <2>1, <2>2 DEF GoesOn
<1>4. CASE next <= LastQuery
  <2> DEFINE x == Neighbours(b)[next]
             q == Query(b, next, put[b])
  <2>1. next \in 1..LastQuery
    <3>1. k[b] \in Nat
          BY <1>0 DEF Types
    <3> QED BY <1>0, <1>4, <3>1
  <2>2. /\ pipe' = [rest EXCEPT ![x] = Append(@, q)]
        /\ k' = [k EXCEPT ![b] = next] /\ UNCHANGED <<B, pc, put>>
        BY <1>4 DEF Continue
  <2>3. x \in Blocks /\ x # b
        BY <2>1, NeighbourOf
  <2>4. q \in QueryLines /\ q \in Lines
        BY <1>0, QueryIs
  <2>5. Flow(T, {x}, q)
    <3> HIDE DEF x, q
    <3> QED BY <2>2, <2>3, <2>4, SendFlow, PassFlow
  <2>6. Frame(b)
    <3>1. k' \in [Blocks -> 0..LastQuery] /\ conflict' \in [Blocks -> BOOLEAN]
          BY <1>1, <2>1, <2>2 DEF Types
    <3>2. /\ put' \in [Blocks -> PutLines \cup {None}] /\ A' \in Boards /\ B' \in Boards
          /\ pc' \in [Blocks -> {"main", "reading", "exited"}]
          BY <2>2 DEF Types
    <3>3. \A y \in Blocks : y # b => k'[y] = k[y] /\ conflict'[y] = conflict[y]
          BY <1>1, <2>2 DEF Types
    <3> QED BY <2>2, <3>1, <3>2, <3>3 DEF Frame
  <2>7. k'[b] = next
        BY <2>2 DEF Types
  <2> QED BY <1>3, <2>1, <2>2, <2>4, <2>5, <2>6, <2>7 DEF Asks
<1>5. CASE ~(next <= LastQuery)
  <2>1. /\ B' = IF yes THEN B ELSE [B EXCEPT ![b][put[b].cell] = put[b].digit]
        /\ pipe' = rest /\ k' = [k EXCEPT ![b] = 0] /\ put' = [put EXCEPT ![b] = None]
        /\ pc' = [pc EXCEPT ![b] = "main"]
        BY <1>5 DEF Continue
  <2>2. Flow(T, {}, NoLine)
    <3>1. CASE rest = pipe /\ T = {}
          BY <2>1, <3>1 DEF Flow, Types
    <3>2. CASE T = {b} /\ rest = Rest(b) /\ pipe[b] # <<>>
          BY <2>1, <3>2, TakeFlow
    <3> QED BY <3>1, <3>2
  <2>3. B' \in Boards
        BY <1>0, <2>1 DEF Types, Boards
  <2>4. B'[b] = IF yes THEN B[b] ELSE [B[b] EXCEPT ![put[b].cell] = put[b].digit]
        BY <2>1 DEF Types, Boards
  <2>5. Frame(b)
    <3>1. k' \in [Blocks -> 0..LastQuery] /\ conflict' \in [Blocks -> BOOLEAN]
          BY <1>0, <1>1, <2>1 DEF Types
    <3>2. /\ put' \in [Blocks -> PutLines \cup {None}] /\ A' \in Boards
          /\ pc' \in [Blocks -> {"main", "reading", "exited"}]
          BY <2>1 DEF Types
    <3>3. \A y \in Blocks : y # b => k'[y] = k[y] /\ conflict'[y] = conflict[y]
          BY <1>1, <2>1 DEF Types
    <3>4. \A y \in Blocks : y # b => B'[y] = B[y] /\ put'[y] = put[y] /\ pc'[y] = pc[y]
          BY <2>1 DEF Types, Boards
    <3> QED BY <2>3, <3>1, <3>2, <3>3, <3>4 DEF Frame
  <2>6. pc'[b] = "main"
        BY <2>1 DEF Types
  <2>7. next > LastQuery
        BY <1>0, <1>5
  <2> QED BY <1>1, <1>3, <2>2, <2>4, <2>5, <2>6, <2>7 DEF Ends
<1> QED BY <1>4, <1>5

(* The steps of a block that waits for an answer. *)
LEMMA AnswerEffects ==
    ASSUME Types, InHand, NEW b \in Blocks, readAnswer(b) \/ misreadAnswer(b)
    PROVE  \E T \in {{}, {b}}, next \in Nat : Asks(b, T, next) \/ Ends(b, T, next)
<1>1. /\ pc[b] = "reading" /\ pipe[b] # <<>> /\ UNCHANGED <<version, coordinator, A>>
      BY DEF readAnswer, misreadAnswer, InFront
<1>2. Front(b) \in Lines /\ k[b] \in 1..LastQuery /\ LastQuery \in Nat /\ conflict[b] \in BOOLEAN
  <2>1. Front(b) \in Lines
        BY <1>1, MovedUp
  <2> QED BY <1>1, <2>1, FoodokuAssumption DEF InHand, FoodokuAssumption, LastQuery, Types
<1>3. CASE readAnswer(b)
  <2>1. Front(b).cmd \in {"answer"} /\ UNCHANGED <<misread, eaten>>
        BY <1>3 DEF readAnswer, InFront, Front
  <2>2. Front(b) \in AnswerLines /\ Front(b).yes \in BOOLEAN
    <3>1. Front(b) \in AnswerLines
          BY <1>2, <2>1, LineKinds
    <3> QED BY <3>1 DEF AnswerLines
  <2> DEFINE next == NextQuery(k[b], Front(b).yes)
             yes == (conflict[b] \/ Front(b).yes)
  <2>3. next \in Nat /\ k[b] < next /\ yes \in BOOLEAN
        BY <1>2, <2>2, NextIs
  <2>4. Continue(b, next, yes, Rest(b))
        BY <1>3 DEF readAnswer, Front
  <2>5. Asks(b, {b}, next) \/ Ends(b, {b}, next)
    <3>1. next = NextQuery(k[b], Front(b).yes) /\ yes = (conflict[b] \/ Front(b).yes)
          OBVIOUS
    <3> HIDE DEF next, yes
    <3> QED BY <1>1, <2>1, <2>2, <2>3, <2>4, <3>1, ContinueEffects
  <2> QED BY <2>3, <2>5
<1>4. CASE misreadAnswer(b)
  <2> DEFINE eats == version = "instructor" /\ k[b] = LastQuery
             next == k[b] + 1
  <2>1. /\ Continue(b, next, conflict[b], IF eats THEN Rest(b) ELSE pipe)
        /\ eaten' = IF eats THEN eaten \cup {<<b, Front(b)>>} ELSE eaten
        /\ misread' = misread \cup {b} /\ Front(b).cmd # "answer"
        BY <1>4 DEF misreadAnswer, InFront, Front
  <2>2. next \in Nat /\ k[b] < next
        BY <1>2
  <2>3. CASE eats
    <3>1. next = LastQuery + 1
          BY <2>3
    <3>2. Continue(b, next, conflict[b], Rest(b)) /\ eaten' = eaten \cup {<<b, Front(b)>>}
          BY <2>1, <2>3
    <3>3. Asks(b, {b}, next) \/ Ends(b, {b}, next)
      <4> HIDE DEF next
      <4> QED BY <1>1, <1>2, <2>1, <2>2, <2>3, <3>1, <3>2, ContinueEffects
    <3> QED BY <2>2, <3>3
  <2>4. CASE ~eats
    <3>1. Continue(b, next, conflict[b], pipe) /\ eaten' = eaten
          BY <2>1, <2>4
    <3>2. next = k[b] + 1
          OBVIOUS
    <3>3. Asks(b, {}, next) \/ Ends(b, {}, next)
      <4> HIDE DEF next, eats
      <4> QED BY <1>1, <1>2, <2>1, <2>2, <3>1, <3>2, ContinueEffects
    <3> QED BY <2>2, <3>3
  <2> QED BY <2>3, <2>4
<1> QED BY <1>3, <1>4

(* What a block does is one of these. *)
BlockDoes(b) ==
    \/ Loads(b) \/ Drops(b) \/ Starts(b) \/ Answers(b)
    \/ \E T \in {{}, {b}}, next \in Nat : Asks(b, T, next) \/ Ends(b, T, next)

(* All steps there are. *)
LEMMA StepEffects ==
    ASSUME Types, InHand, Addressed, Next
    PROVE  \/ Announces \/ (\E x, m : Tries(x, m)) \/ GivesUp \/ Sends \/ Closes
           \/ \E b \in Blocks : BlockDoes(b)
<1>1. ASSUME NEW b \in Blocks, BlockStep(b) PROVE BlockDoes(b)
      BY <1>1, CommandEffects, AnswerEffects DEF BlockStep, BlockDoes
<1> QED BY <1>1, CoordinatorEffects DEF Next

(* An answer is that of Answers. *)
OnlyAnswers(b, T, R, m) ==
    m.cmd = "answer" =>
        /\ Answers(b) /\ T = {b} /\ R = {Front(b).from} /\ m = Answer(b)

(* In every effect of a block something flows, ... *)
LEMMA BlockAnswers ==
    ASSUME Types, InHand, NEW b \in Blocks, BlockDoes(b)
    PROVE  /\ Frame(b) /\ misread \subseteq misread' /\ eaten \subseteq eaten'
           /\ \E T \in {{}, {b}}, R \in SUBSET (Blocks \ {b}), m \in Lines :
                /\ Flow(T, R, m)
                /\ m.cmd \in {"r", "c", "answer", "q"}
                /\ m.cmd = "q" => R = {}
                /\ m.cmd \in {"r", "c"} => m.from = b
                /\ OnlyAnswers(b, T, R, m)
<1>1. CASE Loads(b) \/ Drops(b)
  <2>1. Flow({b}, {}, NoLine) /\ NoLine.cmd = "q"
        BY <1>1 DEF Loads, Drops, NoLine
  <2> QED BY <1>1, <2>1, NoLineIs DEF Loads, Drops, AtMain, OnlyAnswers
<1>2. CASE Starts(b)
  <2>1. Neighbours(b)[1] \in Blocks \ {b}
        BY NextIs, NeighbourOf, FoodokuAssumption DEF FoodokuAssumption, LastQuery
  <2>2. /\ Query(b, 1, Front(b)) \in Lines /\ Query(b, 1, Front(b)).cmd \in {"r", "c"}
        /\ Query(b, 1, Front(b)).from = b
        BY <1>2, QueryIs DEF Starts, Lines, QueryLines
  <2>3. Flow({b}, {Neighbours(b)[1]}, Query(b, 1, Front(b)))
        BY <1>2 DEF Starts
  <2> QED BY <1>2, <2>1, <2>2, <2>3 DEF Starts, AtMain, OnlyAnswers
<1>3. CASE Answers(b)
  <2>1. Answer(b) \in Lines /\ Answer(b).cmd = "answer"
        BY DEF Answer, Has, Lines, AnswerLines
  <2>2. Front(b).from \in Blocks \ {b}
        BY <1>3 DEF Answers, QueryLines
  <2> QED BY <1>3, <2>1, <2>2 DEF Answers, AtMain, OnlyAnswers
<1>4. ASSUME NEW T \in {{}, {b}}, NEW next \in Nat, Asks(b, T, next)
      PROVE  /\ Frame(b) /\ misread \subseteq misread' /\ eaten \subseteq eaten'
             /\ \E R \in SUBSET (Blocks \ {b}), m \in Lines :
                  /\ Flow(T, R, m)
                  /\ m.cmd \in {"r", "c", "answer", "q"}
                  /\ m.cmd = "q" => R = {}
                  /\ m.cmd \in {"r", "c"} => m.from = b
                  /\ m.cmd # "answer"
  <2>1. Neighbours(b)[next] \in Blocks \ {b}
        BY <1>4, NeighbourOf DEF Asks
  <2>2. /\ Query(b, next, put[b]) \in Lines /\ Query(b, next, put[b]).cmd \in {"r", "c"}
        /\ Query(b, next, put[b]).from = b
    <3>1. put[b] \in PutLines
          BY <1>4 DEF Asks, GoesOn, InHand
    <3> QED BY <3>1, QueryIs
  <2>3. Flow(T, {Neighbours(b)[next]}, Query(b, next, put[b]))
        BY <1>4 DEF Asks
  <2>4. /\ Frame(b) /\ misread \subseteq misread' /\ eaten \subseteq eaten'
        BY <1>4 DEF Asks, GoesOn, ByAnswer, ByMistake, ByEating
  <2> QED BY <2>1, <2>2, <2>3, <2>4
<1>5. ASSUME NEW T \in {{}, {b}}, NEW next \in Nat, Ends(b, T, next)
      PROVE  /\ Frame(b) /\ misread \subseteq misread' /\ eaten \subseteq eaten'
             /\ Flow(T, {}, NoLine)
      BY <1>5 DEF Ends, GoesOn, ByAnswer, ByMistake, ByEating
<1>6. NoLine \in Lines /\ NoLine.cmd = "q" /\ {} \in SUBSET (Blocks \ {b})
      BY NoLineIs DEF NoLine
<1> QED BY <1>1, <1>2, <1>3, <1>4, <1>5, <1>6 DEF BlockDoes, OnlyAnswers

(* ... for which it is often enough to know the following. *)
LEMMA BlockFlows ==
    ASSUME Types, InHand, NEW b \in Blocks, BlockDoes(b)
    PROVE  /\ Frame(b) /\ misread \subseteq misread' /\ eaten \subseteq eaten'
           /\ \E T \in {{}, {b}}, R \in SUBSET (Blocks \ {b}), m \in Lines :
                /\ Flow(T, R, m)
                /\ m.cmd \in {"r", "c", "answer", "q"}
                /\ m.cmd = "q" => R = {}
                /\ m.cmd \in {"r", "c"} => m.from = b
BY BlockAnswers

CoordinatorDoes ==
    Announces \/ (\E x, m : Tries(x, m)) \/ GivesUp \/ Sends \/ Closes
Step == CoordinatorDoes \/ \E b \in Blocks : BlockDoes(b)

(* In every effect of the coordinator, too. *)
LEMMA CoordinatorFlows ==
    ASSUME Types, InHand, CoordinatorDoes
    PROVE  /\ BlocksIdle
           /\ \E R \in SUBSET Blocks, m \in Lines :
                /\ Flow({}, R, m) /\ m.cmd \in {"n", "s", "p", "q"}
<1>1. CASE Announces \/ GivesUp \/ Closes
  <2>1. BlocksIdle /\ pipe' = pipe
        BY <1>1 DEF Announces, GivesUp, Closes
  <2>2. Flow({}, {}, NoLine) /\ NoLine.cmd = "q" /\ {} \in SUBSET Blocks
        BY <2>1 DEF Types, Flow, NoLine
  <2> QED BY <2>1, <2>2, NoLineIs
<1>2. CASE \E x, m : Tries(x, m)
  <2>1. PICK x, m : Tries(x, m)
        BY <1>2
  <2>2. m \in Lines /\ m.cmd = "p" /\ {x} \in SUBSET Blocks
        BY <2>1 DEF Tries, Lines, PutLines
  <2> QED BY <2>1, <2>2 DEF Tries
<1>3. CASE Sends
  <2>1. Line(to).cmd \in {"n", "s", "q"}
        BY <1>3, LineIs DEF Sends, Types, BoardLines
  <2>2. {to} \in SUBSET Blocks
        BY DEF Types
  <2> QED BY <1>3, <2>1, <2>2 DEF Sends
<1> QED BY <1>1, <1>2, <1>3 DEF CoordinatorDoes

-----------------------------------------------------------------------------
(* Every step preserves the invariant, part by part *)

(* Types. *)
LEMMA TypesNext == ASSUME Types, InHand, Step PROVE Types'
<1>1. ASSUME CoordinatorDoes PROVE Types'
  <2>1. BlocksIdle /\ pipe' \in [Blocks -> Seq(Lines)]
        BY <1>1, CoordinatorFlows DEF Flow
  <2>2. /\ job' \in {"prompt", "new", "solution", "quit", "waiting", "over"}
        /\ puzzle' \in Puzzles \cup {None} /\ left' \in Nat /\ solved' \in BOOLEAN
        BY <1>1 DEF Types, CoordinatorDoes, Announces, Tries, GivesUp, Sends, Closes
  <2>3. 0 \in Blocks
        BY FoodokuAssumption DEF FoodokuAssumption, Blocks
  <2>4. to' \in Blocks
        BY <1>1, <2>3 DEF Types, CoordinatorDoes, Announces, Tries, GivesUp, Sends, Closes
  <2> QED BY <2>1, <2>2, <2>4 DEF Types, BlocksIdle
<1>2. ASSUME NEW b \in Blocks, BlockDoes(b) PROVE Types'
  <2>1. Frame(b) /\ pipe' \in [Blocks -> Seq(Lines)]
        BY <1>2, BlockFlows DEF Flow
  <2>2. ASSUME NEW T, NEW next, GoesOn(b, T, next)
        PROVE  misread' \subseteq Blocks /\ eaten' \subseteq Blocks \X Lines
    <3>1. CASE ByAnswer(b, T, next) \/ ByMistake(b, T, next)
          BY <3>1 DEF ByAnswer, ByMistake, Types
    <3>2. CASE ByEating(b, T, next)
      <4>1. Front(b) \in Lines
            BY <2>2, <3>2, MovedUp DEF GoesOn, ByEating
      <4> QED BY <3>2, <4>1 DEF ByEating, Types
    <3> QED BY <2>2, <3>1, <3>2 DEF GoesOn
  <2>3. misread' \subseteq Blocks /\ eaten' \subseteq Blocks \X Lines
    <3>1. CASE Loads(b) \/ Drops(b) \/ Starts(b) \/ Answers(b)
          BY <3>1 DEF Loads, Drops, Starts, Answers, AtMain, Types
    <3>2. CASE \E T \in {{}, {b}}, next \in Nat : Asks(b, T, next) \/ Ends(b, T, next)
          BY <2>2, <3>2 DEF Asks, Ends
    <3> QED BY <1>2, <3>1, <3>2 DEF BlockDoes
  <2> QED BY <2>1, <2>3 DEF Types, Frame, coordinator
<1> QED BY <1>1, <1>2 DEF Step

(* What is in hand. *)
LEMMA InHandNext == ASSUME Types, InHand, Step PROVE InHand'
<1>1. ASSUME CoordinatorDoes PROVE InHand'
  <2>1. BlocksIdle
        BY <1>1, CoordinatorFlows
  <2>2. (\A b \in Blocks : pc[b] = "reading" => put[b] \in PutLines /\ k[b] \in 1..LastQuery)'
        BY <2>1 DEF BlocksIdle, InHand
  <2>3. None \notin Puzzles
        BY FoodokuAssumption DEF FoodokuAssumption
  <2>4. /\ job' = "new" => puzzle' # None /\ ~solved'
        /\ job' = "solution" => solved'
        /\ solved' => puzzle' # None
    <3>1. CASE Announces
          BY <2>3, <3>1 DEF Announces
    <3>2. CASE GivesUp \/ Closes \/ \E x, m : Tries(x, m)
      <4>1. solved' = solved /\ puzzle' = puzzle /\ job' \notin {"new", "solution"}
            BY <3>2 DEF Tries, GivesUp, Closes
      <4> QED BY <4>1 DEF InHand
    <3>3. CASE Sends
          BY <3>3 DEF InHand, Sends
    <3> QED BY <1>1, <3>1, <3>2, <3>3 DEF CoordinatorDoes
  <2> QED BY <2>2, <2>4 DEF InHand
<1>2. ASSUME NEW b \in Blocks, BlockDoes(b) PROVE InHand'
  <2>1. Frame(b)
        BY <1>2, BlockFlows
  <2>2. pc'[b] = "reading" => put'[b] \in PutLines /\ k'[b] \in 1..LastQuery
    <3>1. CASE Loads(b) \/ Drops(b) \/ Answers(b)
          BY <3>1 DEF Loads, Drops, Answers
    <3>2. CASE Starts(b)
          BY <3>2, NextIs, FoodokuAssumption DEF Starts, FoodokuAssumption, LastQuery
    <3>3. ASSUME NEW T, NEW next, Asks(b, T, next)
          PROVE  put'[b] \in PutLines /\ k'[b] \in 1..LastQuery
          BY <3>3 DEF Asks, GoesOn, InHand
    <3>4. ASSUME NEW T, NEW next, Ends(b, T, next) PROVE pc'[b] # "reading"
          BY <3>4 DEF Ends
    <3> QED BY <1>2, <3>1, <3>2, <3>3, <3>4 DEF BlockDoes
  <2> QED BY <2>1, <2>2 DEF InHand, Frame, coordinator
<1> QED BY <1>1, <1>2 DEF Step

(* No block asks itself. *)
LEMMA AddressedNext == ASSUME Types, InHand, Addressed, Step PROVE Addressed'
<1>1. ASSUME CoordinatorDoes PROVE Addressed'
  <2>1. PICK R \in SUBSET Blocks, m \in Lines : Flow({}, R, m) /\ m.cmd \in {"n", "s", "p", "q"}
        BY <1>1, CoordinatorFlows
  <2> QED BY <2>1, FlowBack DEF Addressed
<1>2. ASSUME NEW b \in Blocks, BlockDoes(b) PROVE Addressed'
  <2>1. PICK T \in {{}, {b}}, R \in SUBSET (Blocks \ {b}), m \in Lines :
            Flow(T, R, m) /\ (m.cmd \in {"r", "c"} => m.from = b)
        BY <1>2, BlockFlows
  <2> QED BY <2>1, FlowBack DEF Addressed
<1> QED BY <1>1, <1>2 DEF Step

(* Who waits has asked, or is answered. *)
LEMMA WaitsNext == ASSUME Types, InHand, Addressed, Waits, Step PROVE Waits'
<1>1. ASSUME CoordinatorDoes PROVE Waits'
  <2>0. PICK R \in SUBSET Blocks, m \in Lines : Flow({}, R, m)
        BY <1>1, CoordinatorFlows
  <2>1. BlocksIdle
        BY <1>1, CoordinatorFlows
  <2> SUFFICES ASSUME NEW y \in Blocks, pc'[y] = "reading"
               PROVE  Asked(y)' \/ Contains(y, {"answer"})' \/ QuestionEaten(y)'
      BY DEF Waits
  <2>2. Asked(y) \/ Contains(y, {"answer"}) \/ QuestionEaten(y)
        BY <2>1 DEF Waits, BlocksIdle
  <2>3. Asked(y) => Asked(y)'
        BY <2>0, FlowOn DEF Asked
  <2>4. Contains(y, {"answer"}) => Contains(y, {"answer"})'
        BY <2>0, FlowContains
  <2>5. QuestionEaten(y) => QuestionEaten(y)'
        BY <2>1 DEF QuestionEaten, BlocksIdle
  <2> QED BY <2>2, <2>3, <2>4, <2>5
<1>2. ASSUME NEW b \in Blocks, BlockDoes(b) PROVE Waits'
  <2> SUFFICES ASSUME NEW y \in Blocks, pc'[y] = "reading"
               PROVE  Asked(y)' \/ Contains(y, {"answer"})' \/ QuestionEaten(y)'
      BY DEF Waits
  <2>1. Frame(b) /\ eaten \subseteq eaten'
        BY <1>2, BlockFlows
  <2>2. QuestionEaten(y) => QuestionEaten(y)'
        BY <2>1 DEF QuestionEaten
  <2>3. ASSUME NEW T \in {{}, {b}}, NEW R, NEW m \in Lines, Flow(T, R, m),
               b \in T => ~IsQuery(Front(b), y),
               y = b /\ b \in T => Front(b).cmd # "answer",
               pc[y] = "reading"
        PROVE  Asked(y)' \/ Contains(y, {"answer"})' \/ QuestionEaten(y)'
    <3>1. Asked(y) => Asked(y)'
          BY <2>3, FlowOn DEF Asked
    <3>2. Contains(y, {"answer"}) => Contains(y, {"answer"})'
          BY <2>3, FlowContains
    <3>3. Asked(y) \/ Contains(y, {"answer"}) \/ QuestionEaten(y)
          BY <2>3 DEF Waits
    <3> QED BY <2>2, <3>1, <3>2, <3>3
  <2>4. ASSUME NEW T, NEW x \in Blocks, x \notin T, NEW n, NEW p \in PutLines,
               Flow(T, {x}, Query(b, n, p)), y = b
        PROVE  Asked(y)'
    <3>1. /\ Query(b, n, p) \in Lines /\ Query(b, n, p).from = b
          /\ Query(b, n, p).cmd \in {"r", "c"}
          BY QueryIs
    <3>2. \E j \in DOMAIN pipe'[x] : pipe'[x][j] = Query(b, n, p)
          BY <2>4, <3>1, FlowNew
    <3> QED BY <2>4, <3>1, <3>2 DEF Asked, IsQuery
  <2>5. y # b => pc[y] = "reading"
        BY <2>1 DEF Frame
  <2>6. CASE Loads(b) \/ Drops(b)
    <3>1. /\ Flow({b}, {}, NoLine) /\ Front(b).cmd \in {"n", "s", "p", "answer", "q"}
          /\ pc'[b] # "reading"
          BY <2>6 DEF Loads, Drops, BoardLines
    <3> QED BY <2>3, <2>5, <3>1, NoLineIs DEF IsQuery
  <2>7. CASE Starts(b)
    <3>1. Neighbours(b)[1] \in Blocks \ {b}
          BY NeighbourOf, FoodokuAssumption DEF FoodokuAssumption, LastQuery
    <3>2. /\ Flow({b}, {Neighbours(b)[1]}, Query(b, 1, Front(b)))
          /\ Front(b) \in PutLines /\ Front(b).cmd = "p" /\ Query(b, 1, Front(b)) \in Lines
          BY <2>7 DEF Starts, PutLines, Lines
    <3>3. CASE y = b
          BY <2>4, <3>1, <3>2, <3>3
    <3>4. CASE y # b
          BY <2>3, <2>5, <3>2, <3>4 DEF IsQuery
    <3> QED BY <3>3, <3>4
  <2>8. CASE Answers(b)
    <3>1. /\ Flow({b}, {Front(b).from}, Answer(b)) /\ pc'[b] = "main"
          /\ Front(b).from \in Blocks \ {b}
          BY <2>8 DEF Answers, QueryLines
    <3>2. Answer(b) \in Lines /\ Answer(b).cmd = "answer"
          BY DEF Answer, Has, Lines, AnswerLines
    <3>3. CASE y = Front(b).from
          BY <3>1, <3>2, <3>3, FlowContains
    <3>4. CASE y # Front(b).from
          BY <2>3, <2>5, <3>1, <3>2, <3>4 DEF IsQuery
    <3> QED BY <3>3, <3>4
  <2>9. ASSUME NEW T \in {{}, {b}}, NEW next, Asks(b, T, next) \/ Ends(b, T, next)
        PROVE  Asked(y)' \/ Contains(y, {"answer"})' \/ QuestionEaten(y)'
    <3>1. GoesOn(b, T, next) /\ put[b] \in PutLines
          BY <2>9 DEF Asks, Ends, GoesOn, InHand
    <3>2. CASE y = b
      <4>1. Asks(b, T, next)
            BY <2>9, <3>2 DEF Ends
      <4>2. Neighbours(b)[next] \in Blocks \ {b}
            BY <4>1, NeighbourOf DEF Asks
      <4> QED BY <2>4, <3>1, <3>2, <4>1, <4>2 DEF Asks
    <3>3. CASE y # b
      <4>1. \E R \in SUBSET Blocks : \E m \in Lines : Flow(T, R, m)
        <5>1. CASE Asks(b, T, next)
          <6>1. {Neighbours(b)[next]} \in SUBSET Blocks /\ Query(b, next, put[b]) \in Lines
                BY <3>1, <5>1, NeighbourOf, QueryIs DEF Asks
          <6> QED BY <5>1, <6>1 DEF Asks
        <5>2. CASE Ends(b, T, next)
          <6>1. Flow(T, {}, NoLine) /\ {} \in SUBSET Blocks
                BY <5>2 DEF Ends
          <6> QED BY <6>1, NoLineIs
        <5> QED BY <2>9, <5>1, <5>2
      <4>2. CASE b \in T /\ IsQuery(Front(b), y)
        <5>1. ByEating(b, T, next)
              BY <3>1, <4>2 DEF GoesOn, ByAnswer, ByMistake, AnswerLines, IsQuery
        <5>2. <<b, Front(b)>> \in eaten'
              BY <5>1 DEF ByEating
        <5> QED BY <4>2, <5>2 DEF QuestionEaten, IsQuery
      <4>3. CASE ~(b \in T /\ IsQuery(Front(b), y))
            BY <2>3, <2>5, <3>3, <4>1, <4>3
      <4> QED BY <4>2, <4>3
    <3> QED BY <3>2, <3>3
  <2> QED BY <1>2, <2>6, <2>7, <2>8, <2>9 DEF BlockDoes
<1> QED BY <1>1, <1>2 DEF Step

(* What is behind a put stays there when the first line is taken. *)
LEMMA PutsBehind ==
    ASSUME Types, NEW T, NEW R, NEW m \in Lines, Flow(T, R, m), m.cmd # "p",
           NEW y \in Blocks, NEW cmds,
           \A i \in DOMAIN pipe[y] : pipe[y][i].cmd = "p" =>
              \E j \in DOMAIN pipe[y] : i < j /\ pipe[y][j].cmd \in cmds,
           NEW i \in DOMAIN pipe'[y], pipe'[y][i].cmd = "p"
    PROVE  \E j \in DOMAIN pipe'[y] : i < j /\ pipe'[y][j].cmd \in cmds
<1> DEFINE w == Was(y, T, R, i)
<1>1. w \in DOMAIN pipe[y] /\ pipe[y][w].cmd = "p"
      BY FlowBack
<1>2. w \in Nat \ {0}
      BY <1>1, LineAt
<1>3. PICK j \in DOMAIN pipe[y] : w < j /\ pipe[y][j].cmd \in cmds
      BY <1>1
<1>4. PICK j2 \in DOMAIN pipe'[y] : pipe'[y][j2] = pipe[y][j] /\ Was(y, T, R, j2) = j
  <2>1. j # 1
        BY <1>2, <1>3
  <2> QED BY <2>1, FlowOn
<1>5. i < j2
      BY <1>1, <1>3, <1>4, WasOrder
<1> QED BY <1>3, <1>4, <1>5

(* No block puts a digit on top of a board or of a q that comes. *)
LEMMA BehindKeeps ==
    ASSUME Types, InHand, NEW b \in Blocks, BlockDoes(b), NEW y \in Blocks,
           NEW cmds \in {{"q"}, {"n", "s"}}, Behind(y, cmds)
    PROVE  Behind(y, cmds)'
<1>0. PICK T \in {{}, {b}}, R \in SUBSET (Blocks \ {b}), m \in Lines :
          Flow(T, R, m) /\ m.cmd \in {"r", "c", "answer", "q"}
      BY BlockFlows
<1>1. Frame(b)
      BY BlockFlows
<1>2. ASSUME NEW i \in DOMAIN pipe'[y], pipe'[y][i].cmd = "p"
      PROVE  \E j \in DOMAIN pipe'[y] : i < j /\ pipe'[y][j].cmd \in cmds
      BY <1>0, <1>2, PutsBehind DEF Behind
<1>3. ASSUME pc'[y] = "reading" PROVE Contains(y, cmds)'
  <2>1. CASE y # b
    <3>1. pc[y] = "reading"
          BY <1>1, <1>3, <2>1 DEF Frame
    <3>2. Contains(y, cmds)
          BY <3>1 DEF Behind
    <3> QED BY <1>0, <2>1, <3>2, FlowContains
  <2>2. CASE y = b
    <3>1. CASE Starts(b)
      <4>1. /\ Front(b) \in PutLines /\ Front(b).cmd = "p" /\ pipe[b] # <<>>
            /\ Flow({b}, {Neighbours(b)[1]}, Query(b, 1, Front(b)))
            /\ Query(b, 1, Front(b)) \in Lines
            BY <3>1 DEF Starts, PutLines, Flow, Lines
      <4>2. 1 \in DOMAIN pipe[b] /\ pipe[b][1].cmd = "p"
            BY <4>1, MovedUp
      <4>3. PICK j \in DOMAIN pipe[b] : 1 < j /\ pipe[b][j].cmd \in cmds
            BY <2>2, <4>2 DEF Behind
      <4>4. Contains(b, cmds)
            BY <4>3 DEF Contains
      <4>5. Front(b).cmd \notin cmds
            BY <4>1
      <4> QED BY <2>2, <4>1, <4>4, <4>5, FlowContains
    <3>2. ASSUME NEW T2 \in {{}, {b}}, NEW next, Asks(b, T2, next)
          PROVE  Contains(b, cmds)'
      <4>1. Contains(b, cmds)
            BY <2>2, <3>2 DEF Asks, GoesOn, Behind
      <4>2. b \in T2 => Front(b).cmd \notin cmds
        <5>1. ~ByEating(b, T2, next)
              BY <3>2, NextIs, FoodokuAssumption
              DEF Asks, ByEating, FoodokuAssumption, LastQuery
        <5> QED BY <3>2, <5>1 DEF Asks, GoesOn, ByAnswer, ByMistake, AnswerLines
      <4>3. Query(b, next, put[b]) \in Lines
            BY <3>2, QueryIs DEF Asks, GoesOn, InHand
      <4> QED BY <3>2, <4>1, <4>2, <4>3, FlowContains DEF Asks
    <3>3. CASE Loads(b) \/ Drops(b) \/ Answers(b)
          BY <1>3, <2>2, <3>3 DEF Loads, Drops, Answers
    <3>4. ASSUME NEW T2, NEW next, Ends(b, T2, next) PROVE pc'[b] # "reading"
          BY <3>4 DEF Ends
    <3> QED BY <1>3, <2>2, <3>1, <3>2, <3>3, <3>4 DEF BlockDoes
  <2> QED BY <2>1, <2>2
<1> QED BY <1>2, <1>3 DEF Behind

(* The line of the coordinator is behind everything. *)
LEMMA BehindNew ==
    ASSUME Types, NEW y \in Blocks, NEW m \in Lines, m.cmd # "p", Flow({}, {y}, m),
           NEW cmds, m.cmd \in cmds
    PROVE  Behind(y, cmds)'
<1>1. PICK n \in DOMAIN pipe'[y] : /\ pipe'[y][n] = m /\ Was(y, {}, {y}, n) = 0
                                   /\ n = Len(pipe[y]) + 1
      BY FlowNew
<1>2. ASSUME NEW i \in DOMAIN pipe'[y], pipe'[y][i].cmd = "p" PROVE i < n
  <2> DEFINE T == {}
             R == {y}
  <2>1. \/ /\ Was(y, T, R, i) \in DOMAIN pipe[y]
           /\ pipe'[y][i] = pipe[y][Was(y, T, R, i)]
        \/ pipe'[y][i] = m
    <3>1. Flow(T, R, m) /\ i \in DOMAIN pipe'[y]
          OBVIOUS
    <3> HIDE DEF T, R
    <3> QED BY <3>1, FlowBack
  <2>2. Was(y, T, R, i) \in DOMAIN pipe[y]
        BY <1>2, <2>1
  <2>3. 0 \notin DOMAIN pipe[y]
        BY DEF Types
  <2>4. i \in DOMAIN pipe[y]
        BY <2>2, <2>3 DEF Was
  <2> QED BY <1>1, <2>4, Added
<1>3. Contains(y, cmds)'
      BY <1>1 DEF Contains
<1> QED BY <1>1, <1>2, <1>3 DEF Behind

(* What comes after q and after a board. *)
LEMMA QuitsNext == ASSUME Types, InHand, Quits, Step PROVE Quits'
<1>1. ASSUME NEW b \in Blocks, BlockDoes(b) PROVE Quits'
  <2>0. PICK T \in {{}, {b}}, R \in SUBSET (Blocks \ {b}), m \in Lines :
            Flow(T, R, m) /\ (m.cmd = "q" => R = {})
        BY <1>1, BlockFlows
  <2>1. Frame(b)
        BY <1>1, BlockFlows
  <2> SUFFICES ASSUME NEW y \in Blocks
               PROVE  /\ pc'[y] = "exited" \/ Contains(y, {"q"})' => QuitSent(y)'
                      /\ QuitSent(y)' => Behind(y, {"q"})'
                      /\ BoardSent(y)' => Behind(y, {"n", "s"})'
      BY DEF Quits
  <2>2. (QuitSent(y)' <=> QuitSent(y)) /\ (BoardSent(y)' <=> BoardSent(y))
        BY <2>1 DEF Frame, coordinator, QuitSent, BoardSent
  <2>3. Contains(y, {"q"})' => Contains(y, {"q"})
        BY <2>0, FlowContains
  <2>4. pc'[y] = "exited" => pc[y] = "exited" \/ Contains(y, {"q"})
    <3>1. CASE y # b
          BY <2>1, <3>1 DEF Frame
    <3>2. CASE y = b
      <4>1. CASE Loads(b) \/ Starts(b) \/ Answers(b)
            BY <3>2, <4>1 DEF Loads, Starts, Answers
      <4>2. CASE Drops(b)
        <5>1. pipe[b] # <<>>
              BY <4>2 DEF Drops, Flow
        <5>2. 1 \in DOMAIN pipe[b] /\ pipe[b][1] = Front(b)
              BY <5>1, MovedUp
        <5> QED BY <3>2, <4>2, <5>2 DEF Drops, Contains
      <4>3. ASSUME NEW T2, NEW next, Asks(b, T2, next) \/ Ends(b, T2, next)
            PROVE  pc'[b] # "exited"
            BY <4>3 DEF Asks, Ends
      <4> QED BY <1>1, <3>2, <4>1, <4>2, <4>3 DEF BlockDoes
    <3> QED BY <3>1, <3>2
  <2> QED BY <1>1, <2>2, <2>3, <2>4, BehindKeeps DEF Quits
<1>2. ASSUME CoordinatorDoes PROVE Quits'
  <2>1. BlocksIdle
        BY <1>2, CoordinatorFlows
  <2> SUFFICES ASSUME NEW y \in Blocks
               PROVE  /\ pc'[y] = "exited" \/ Contains(y, {"q"})' => QuitSent(y)'
                      /\ QuitSent(y)' => Behind(y, {"q"})'
                      /\ BoardSent(y)' => Behind(y, {"n", "s"})'
      BY DEF Quits
  <2>2. /\ pc[y] = "exited" \/ Contains(y, {"q"}) => QuitSent(y)
        /\ QuitSent(y) => Behind(y, {"q"})
        /\ BoardSent(y) => Behind(y, {"n", "s"})
        BY DEF Quits
  <2>3. y \in Nat /\ to \in Nat
        BY FoodokuAssumption DEF FoodokuAssumption, Types, Blocks
  <2>4. ASSUME pipe'[y] = pipe[y]
        PROVE  /\ Contains(y, {"q"})' <=> Contains(y, {"q"})
               /\ Behind(y, {"q"})' <=> Behind(y, {"q"})
               /\ Behind(y, {"n", "s"})' <=> Behind(y, {"n", "s"})
        BY <2>1, <2>4 DEF Behind, Contains, BlocksIdle
  <2>5. CASE Announces \/ GivesUp
    <3>1. ~QuitSent(y) /\ ~QuitSent(y)' /\ ~BoardSent(y)' /\ pipe' = pipe
          BY <2>3, <2>5 DEF Announces, GivesUp, QuitSent, BoardSent
    <3> QED BY <2>1, <2>2, <2>4, <3>1 DEF BlocksIdle
  <2>6. CASE \E x, m : Tries(x, m)
    <3>1. PICK x, m : Tries(x, m)
          BY <2>6
    <3>2. ~QuitSent(y) /\ ~QuitSent(y)' /\ ~BoardSent(y)'
          BY <3>1 DEF Tries, QuitSent, BoardSent
    <3>3. Contains(y, {"q"})' => Contains(y, {"q"})
      <4>1. m \in Lines /\ m.cmd = "p"
            BY <3>1 DEF Tries, Lines, PutLines
      <4> QED BY <3>1, <4>1, FlowContains DEF Tries
    <3> QED BY <2>1, <2>2, <3>2, <3>3 DEF BlocksIdle
  <2>7. CASE Closes
    <3>1. /\ pipe' = pipe /\ QuitSent(y) /\ QuitSent(y)' /\ ~BoardSent(y)'
          BY <2>7 DEF Closes, QuitSent, BoardSent
    <3> QED BY <2>2, <2>4, <3>1
  <2>8. CASE Sends
    <3> DEFINE m == Line(to)
    <3>1. m \in Lines /\ Flow({}, {to}, m) /\ to \in Blocks
          BY <2>8 DEF Sends, Types
    <3>2. m.cmd \in (IF job = "quit" THEN {"q"} ELSE {"n", "s"})
          BY <2>8, <3>1, LineIs DEF Sends, BoardLines
    <3>3. CASE y = to
      <4>1. CASE job = "quit"
        <5>1. m.cmd = "q"
              BY <3>2, <4>1
        <5>2. Behind(y, {"q"})'
          <6> HIDE DEF m
          <6> QED BY <3>1, <3>3, <5>1, BehindNew
        <5>3. QuitSent(y)' /\ ~BoardSent(y)'
              BY <2>3, <2>8, <3>3, <4>1 DEF Sends, QuitSent, BoardSent
        <5> QED BY <5>2, <5>3
      <4>2. CASE job # "quit"
        <5>1. ~QuitSent(y) /\ ~QuitSent(y)'
              BY <2>8, <4>2 DEF Sends, QuitSent
        <5>2. m.cmd \in {"n", "s"}
              BY <3>2, <4>2
        <5>3. Behind(y, {"n", "s"})'
          <6> HIDE DEF m
          <6>1. m.cmd # "p"
                BY <5>2
          <6> QED BY <3>1, <3>3, <5>2, <6>1, BehindNew
        <5>4. ~Contains(y, {"q"})'
          <6>1. ~Contains(y, {"q"})
                BY <2>2, <5>1
          <6> HIDE DEF m
          <6> QED BY <3>1, <5>2, <6>1, FlowContains
        <5>5. pc'[y] # "exited"
              BY <2>1, <2>2, <5>1 DEF BlocksIdle
        <5> QED BY <5>1, <5>3, <5>4, <5>5
      <4> QED BY <4>1, <4>2
    <3>4. CASE y # to
      <4>1. pipe'[y] = pipe[y]
            BY <3>1, <3>4 DEF Flow
      <4>2. /\ QuitSent(y) => QuitSent(y)'
            /\ QuitSent(y)' => QuitSent(y)
            /\ BoardSent(y)' => BoardSent(y)
        <5>1. CASE to + 1 \in Blocks
              BY <2>3, <2>8, <3>4, <5>1 DEF Sends, QuitSent, BoardSent, Blocks
        <5>2. CASE to + 1 \notin Blocks
          <6>1. y < to
                BY <3>1, <3>4, <5>2, FoodokuAssumption DEF FoodokuAssumption, Blocks
          <6> QED BY <2>3, <2>8, <5>2, <6>1 DEF Sends, QuitSent, BoardSent
        <5> QED BY <5>1, <5>2
      <4> QED BY <2>1, <2>2, <2>4, <4>1, <4>2 DEF BlocksIdle
    <3> QED BY <3>3, <3>4
  <2> QED BY <1>2, <2>5, <2>6, <2>7, <2>8 DEF CoordinatorDoes
<1> QED BY <1>1, <1>2 DEF Step

(* The boards of a puzzle are without conflicts. *)
LEMMA PuzzleFits ==
    ASSUME NEW z \in Puzzles, NEW X \in {z.A, z.S}, NEW b1 \in Blocks, NEW b2 \in Blocks,
           NEW c1 \in Cells, NEW c2 \in Cells, <<b1, c1>> # <<b2, c2>>,
           InLine(b1, c1, b2, c2), X[b1][c1] = X[b2][c2]
    PROVE  X[b1][c1] = 0
<1>1. /\ z.A[b1][c1] \in {0, z.S[b1][c1]} /\ z.A[b2][c2] \in {0, z.S[b2][c2]}
      /\ ~Clash(z.S, b1, c1, b2, c2)
      BY FoodokuAssumption DEF FoodokuAssumption
<1>2. CASE X = z.S
      BY <1>1, <1>2 DEF Clash
<1>3. CASE X = z.A
  <2>1. CASE z.S[b1][c1] = z.S[b2][c2]
        BY <1>1, <1>3, <2>1 DEF Clash
  <2>2. CASE z.S[b1][c1] # z.S[b2][c2]
        BY <1>1, <1>3, <2>2
  <2> QED BY <2>1, <2>2
<1> QED BY <1>2, <1>3

(* (Within a block.) *)
LEMMA PuzzleTwins ==
    ASSUME NEW z \in Puzzles, NEW b \in Blocks
    PROVE  NoTwins(z.A[b]) /\ NoTwins(z.S[b])
<1>1. ASSUME NEW X \in {z.A, z.S} PROVE NoTwins(X[b])
  <2> SUFFICES ASSUME NEW c1 \in Cells, NEW c2 \in Cells, c1 # c2, X[b][c1] = X[b][c2]
               PROVE  X[b][c1] = 0
      BY DEF NoTwins
  <2>1. InLine(b, c1, b, c2) /\ <<b, c1>> # <<b, c2>>
        BY DEF InLine
  <2> QED BY <2>1, PuzzleFits
<1> QED BY <1>1

(* So is what the blocks are to show. *)
LEMMA CurrentFits ==
    ASSUME Types, NEW b1 \in Blocks, NEW b2 \in Blocks, b1 # b2,
           NEW c1 \in Cells, NEW c2 \in Cells, InLine(b1, c1, b2, c2),
           Current(b1)[c1] = Current(b2)[c2]
    PROVE  Current(b1)[c1] = 0
<1>1. CASE puzzle = None
      BY <1>1 DEF Current
<1>2. CASE puzzle # None
  <2>1. puzzle \in Puzzles /\ <<b1, c1>> # <<b2, c2>>
        BY <1>2 DEF Types
  <2>2. CASE solved
        BY <1>2, <2>1, <2>2, PuzzleFits DEF Current
  <2>3. CASE ~solved
        BY <1>2, <2>1, <2>3, PuzzleFits DEF Current
  <2> QED BY <2>2, <2>3
<1> QED BY <1>1, <1>2

(* The last board that comes was so before. *)
LEMMA LastBoardBack ==
    ASSUME Types, NEW T, NEW R, NEW m \in Lines, Flow(T, R, m), NEW y \in Blocks,
           NEW i \in DOMAIN pipe'[y], Was(y, T, R, i) \in DOMAIN pipe[y], LastBoard(y, i)'
    PROVE  LastBoard(y, Was(y, T, R, i))
<1> DEFINE w == Was(y, T, R, i)
<1>1. SUFFICES ASSUME NEW j \in DOMAIN pipe[y], w < j PROVE ~IsBoard(pipe[y][j])
      BY DEF LastBoard
<1>2. w \in Nat \ {0} /\ j \in Nat
      BY LineAt
<1>3. PICK j2 \in DOMAIN pipe'[y] : pipe'[y][j2] = pipe[y][j] /\ Was(y, T, R, j2) = j
  <2>1. j # 1
        BY <1>1, <1>2
  <2> QED BY <2>1, FlowOn
<1>4. i < j2
      BY <1>1, <1>3, WasOrder
<1> QED BY <1>3, <1>4 DEF LastBoard

(* And it remains so, if no board is added. *)
LEMMA LastBoardOn ==
    ASSUME Types, NEW T, NEW R, NEW m \in Lines, Flow(T, R, m), NEW y \in Blocks,
           ~IsBoard(m) \/ y \notin R,
           NEW i \in DOMAIN pipe'[y], Was(y, T, R, i) \in DOMAIN pipe[y],
           LastBoard(y, Was(y, T, R, i))
    PROVE  LastBoard(y, i)'
<1>1. SUFFICES ASSUME NEW j \in DOMAIN pipe'[y], i < j PROVE ~IsBoard(pipe'[y][j])
      BY DEF LastBoard
<1>2. CASE /\ Was(y, T, R, j) \in DOMAIN pipe[y]
           /\ pipe'[y][j] = pipe[y][Was(y, T, R, j)]
  <2>1. Was(y, T, R, i) < Was(y, T, R, j)
        BY <1>1, <1>2, WasOrder
  <2> QED BY <1>2, <2>1 DEF LastBoard
<1>3. CASE y \in R /\ pipe'[y][j] = m
      BY <1>3
<1> QED BY <1>2, <1>3, FlowBack

(* Boards that come are boards of the puzzle: if the pipe of block y gets  *)
(* no board and none is announced.                                         *)
LEMMA BoardsKeep ==
    ASSUME Types, BoardsComing, NEW T, NEW R, NEW m \in Lines, Flow(T, R, m), NEW y \in Blocks,
           ~IsBoard(m) \/ y \notin R,
           version' = version, Owed(y) => Owed(y)', Current(y)' = Current(y),
           NEW i \in DOMAIN pipe'[y], IsBoard(pipe'[y][i])
    PROVE  /\ NoTwins(pipe'[y][i].cells)
           /\ version' = "instructor" => pipe'[y][i].cmd = "n"
           /\ ~Owed(y)' /\ LastBoard(y, i)' => pipe'[y][i].cells = Current(y)'
<1> DEFINE w == Was(y, T, R, i)
<1>1. w \in DOMAIN pipe[y] /\ pipe'[y][i] = pipe[y][w]
      BY FlowBack
<1>2. LastBoard(y, i)' => LastBoard(y, w)
      BY <1>1, LastBoardBack
<1> HIDE DEF w
<1> QED BY <1>1, <1>2 DEF BoardsComing

(* The steps of the coordinator, as far as boards are concerned. *)
LEMMA ComingCoordinator ==
    ASSUME Types, InHand, CoordinatorDoes, NEW y \in Blocks
    PROVE  /\ Announces => BoardComing(y)' /\ Owed(y)'
           /\ ~Announces => /\ puzzle' = puzzle /\ solved' = solved
                            /\ Current(y)' = Current(y)
                            /\ BoardComing(y)' <=> BoardComing(y)
                            /\ Owed(y)' => Owed(y)
                            /\ Owed(y) => Owed(y)' \/ (Sends /\ job # "quit" /\ y = to)
<1>0. y \in Nat /\ to \in Nat /\ y \in Blocks
      BY FoodokuAssumption DEF FoodokuAssumption, Types, Blocks
<1>1. CASE Announces
  <2>1. Owed(y)'
        BY <1>0, <1>1 DEF Announces, Owed
  <2>2. BoardComing(y)'
        BY <2>1 DEF Owed, BoardComing
  <2> QED BY <1>1, <2>1, <2>2
<1>2. CASE ~Announces
  <2>0. puzzle' = puzzle /\ solved' = solved
        BY <1>2 DEF CoordinatorDoes, Tries, GivesUp, Sends, Closes
  <2>1. Current(y)' = Current(y)
        BY <2>0 DEF Current
  <2>2. BoardComing(y) <=> Owed(y) \/ Contains(y, {"n", "s"})
        BY DEF BoardComing, Owed, Contains
  <2>3. BoardComing(y)' <=> Owed(y)' \/ Contains(y, {"n", "s"})'
        BY DEF BoardComing, Owed, Contains
  <2>4. CASE GivesUp \/ Closes
    <3>1. pipe' = pipe /\ ~Owed(y) /\ ~Owed(y)'
          BY <2>4 DEF GivesUp, Closes, Owed
    <3>2. Contains(y, {"n", "s"})' <=> Contains(y, {"n", "s"})
          BY <3>1 DEF Contains
    <3> QED BY <1>2, <2>0, <2>1, <2>2, <2>3, <3>1, <3>2
  <2>5. CASE \E x, m : Tries(x, m)
    <3>1. PICK x, m : Tries(x, m)
          BY <2>5
    <3>2. ~Owed(y) /\ ~Owed(y)'
          BY <3>1 DEF Tries, Owed
    <3>3. m \in Lines /\ m.cmd = "p" /\ Flow({}, {x}, m)
          BY <3>1 DEF Tries, Lines, PutLines
    <3>4. Contains(y, {"n", "s"})' <=> Contains(y, {"n", "s"})
          BY <3>3, FlowContains
    <3> QED BY <1>2, <2>0, <2>1, <2>2, <2>3, <3>2, <3>4
  <2>6. CASE Sends
    <3> DEFINE m == Line(to)
    <3>1. m \in Lines /\ Flow({}, {to}, m) /\ to \in Blocks
          BY <2>6 DEF Sends, Types
    <3>2. m.cmd \in (IF job = "quit" THEN {"q"} ELSE {"n", "s"})
          BY <2>6, <3>1, LineIs DEF Sends, BoardLines
    <3>3. CASE y = to /\ job # "quit"
      <4>1. Owed(y)
            BY <1>0, <2>6, <3>3 DEF Sends, Owed
      <4>2. Contains(y, {"n", "s"})'
        <5>1. m.cmd \in {"n", "s"}
              BY <3>2, <3>3
        <5> HIDE DEF m
        <5> QED BY <3>1, <3>3, <5>1, FlowContains
      <4> QED BY <1>2, <2>0, <2>1, <2>2, <2>3, <2>6, <3>3, <4>1, <4>2
    <3>4. CASE y # to \/ job = "quit"
      <4>1. Owed(y)' <=> Owed(y)
        <5>1. CASE to + 1 \in Blocks
              BY <1>0, <2>6, <3>4, <5>1 DEF Sends, Owed
        <5>2. CASE to + 1 \notin Blocks
          <6>1. y <= to
                BY <3>1, <5>2, FoodokuAssumption DEF FoodokuAssumption, Blocks
          <6> QED BY <1>0, <2>6, <3>4, <5>2, <6>1 DEF Sends, Owed
        <5> QED BY <5>1, <5>2
      <4>2. Contains(y, {"n", "s"})' <=> Contains(y, {"n", "s"})
        <5>1. y # to \/ m.cmd = "q"
              BY <3>2, <3>4
        <5> HIDE DEF m
        <5> QED BY <3>1, <5>1, FlowContains
      <4> QED BY <1>2, <2>0, <2>1, <2>2, <2>3, <4>1, <4>2
    <3> QED BY <3>3, <3>4
  <2> QED BY <1>2, <2>4, <2>5, <2>6 DEF CoordinatorDoes
<1> QED BY <1>1, <1>2

(* The boards under way are those of the puzzle. *)
LEMMA BoardsComingNext ==
    ASSUME Types, InHand, BoardsComing, Step
    PROVE  BoardsComing'
<1> SUFFICES ASSUME NEW y \in Blocks, NEW i \in DOMAIN pipe'[y], IsBoard(pipe'[y][i])
             PROVE  /\ NoTwins(pipe'[y][i].cells)
                    /\ version' = "instructor" => pipe'[y][i].cmd = "n"
                    /\ ~Owed(y)' /\ LastBoard(y, i)' => pipe'[y][i].cells = Current(y)'
    BY DEF BoardsComing
<1>1. ASSUME NEW b \in Blocks, BlockDoes(b)
      PROVE  /\ NoTwins(pipe'[y][i].cells)
             /\ version' = "instructor" => pipe'[y][i].cmd = "n"
             /\ ~Owed(y)' /\ LastBoard(y, i)' => pipe'[y][i].cells = Current(y)'
  <2>0. PICK T \in {{}, {b}}, R \in SUBSET (Blocks \ {b}), m \in Lines :
            Flow(T, R, m) /\ m.cmd \in {"r", "c", "answer", "q"}
        BY <1>1, BlockFlows
  <2>1. Frame(b)
        BY <1>1, BlockFlows
  <2>2. version' = version /\ Owed(y)' = Owed(y) /\ Current(y)' = Current(y)
        BY <2>1 DEF Frame, coordinator, Owed, Current
  <2>3. ~IsBoard(m)
        BY <2>0 DEF IsBoard
  <2> QED BY <2>0, <2>2, <2>3, BoardsKeep
<1>2. ASSUME CoordinatorDoes
      PROVE  /\ NoTwins(pipe'[y][i].cells)
             /\ version' = "instructor" => pipe'[y][i].cmd = "n"
             /\ ~Owed(y)' /\ LastBoard(y, i)' => pipe'[y][i].cells = Current(y)'
  <2>1. version' = version
        BY <1>2, CoordinatorFlows DEF BlocksIdle
  <2>2. CASE Announces
        BY <1>2, <2>1, <2>2, ComingCoordinator DEF Announces, BoardsComing
  <2>3. CASE ~Announces /\ ~(Sends /\ job # "quit" /\ y = to)
    <3>1. Current(y)' = Current(y) /\ (Owed(y) => Owed(y)')
          BY <1>2, <2>3, ComingCoordinator
    <3>2. \E R \in SUBSET Blocks, m \in Lines : Flow({}, R, m) /\ (~IsBoard(m) \/ y \notin R)
      <4>1. CASE Sends
        <5>1. Flow({}, {to}, Line(to)) /\ Line(to) \in Lines /\ {to} \in SUBSET Blocks
              BY <4>1 DEF Sends, Types
        <5>2. ~IsBoard(Line(to)) \/ y \notin {to}
              BY <2>3, <4>1, LineIs DEF Sends, Types, IsBoard
        <5> QED BY <5>1, <5>2
      <4>2. CASE ~Sends
        <5>1. CASE GivesUp \/ Closes
          <6>1. pipe' = pipe
                BY <5>1 DEF GivesUp, Closes
          <6>2. Flow({}, {}, NoLine) /\ {} \in SUBSET Blocks
                BY <6>1 DEF Types, Flow
          <6> QED BY <6>2, NoLineIs
        <5>2. CASE \E x, m : Tries(x, m)
          <6>1. PICK x, m : Tries(x, m)
                BY <5>2
          <6>2. m \in Lines /\ ~IsBoard(m) /\ {x} \in SUBSET Blocks
                BY <6>1 DEF Tries, Lines, PutLines, IsBoard
          <6> QED BY <6>1, <6>2 DEF Tries
        <5> QED BY <1>2, <2>3, <4>2, <5>1, <5>2 DEF CoordinatorDoes
      <4> QED BY <4>1, <4>2
    <3> QED BY <2>1, <3>1, <3>2, BoardsKeep
  <2>4. CASE Sends /\ job # "quit" /\ y = to
    <3> DEFINE m == Line(to)
               T == {}
               R == {to}
    <3>1. m \in Lines /\ Flow(T, R, m) /\ to \in Blocks /\ job \in {"new", "solution"}
          BY <2>4 DEF Sends, Types
    <3>2. /\ m \in BoardLines /\ (version = "instructor" => m.cmd = "n")
          /\ m.cells = Current(y) /\ NoTwins(m.cells)
      <4>1. /\ m \in BoardLines /\ (version = "instructor" => m.cmd = "n")
            /\ m.cells = IF job = "new" THEN puzzle.A[y] ELSE puzzle.S[y]
            BY <2>4, <3>1, LineIs
      <4>2. puzzle # None /\ puzzle \in Puzzles /\ (solved <=> job = "solution")
            BY <3>1 DEF InHand, Types
      <4>3. NoTwins(m.cells)
            BY <4>1, <4>2, PuzzleTwins
      <4>4. m.cells = Current(y)
            BY <3>1, <4>1, <4>2 DEF Current
      <4> QED BY <4>1, <4>3, <4>4
    <3>3. Current(y)' = Current(y)
      <4>1. ~Announces
            BY <2>4 DEF Sends, Announces
      <4> QED BY <1>2, <4>1, ComingCoordinator
    <3>4. PICK j \in DOMAIN pipe'[y] : pipe'[y][j] = m /\ j = Len(pipe[y]) + 1
      <4> HIDE DEF m, T, R
      <4>1. y \in R /\ y \notin T
            BY <2>4 DEF R, T
      <4> QED BY <3>1, <4>1, FlowNew
    <3>5. \/ pipe'[y][i] = m
          \/ i \in DOMAIN pipe[y] /\ pipe'[y][i] = pipe[y][i]
      <4> HIDE DEF m, T, R
      <4>1. y \notin T
            BY DEF T
      <4>2. 0 \notin DOMAIN pipe[y]
            BY DEF Types
      <4> QED BY <3>1, <4>1, <4>2, FlowBack DEF Was
    <3>6. CASE pipe'[y][i] = m
      <4> HIDE DEF m
      <4> QED BY <2>1, <3>2, <3>3, <3>6
    <3>7. CASE i \in DOMAIN pipe[y] /\ pipe'[y][i] = pipe[y][i]
      <4>1. i < j
            BY <3>1, <3>4, <3>7, Added
      <4>2. IsBoard(pipe'[y][j])
        <5> HIDE DEF m
        <5> QED BY <3>2, <3>4 DEF BoardLines, IsBoard
      <4>3. ~LastBoard(y, i)'
            BY <4>1, <4>2 DEF LastBoard
      <4> QED BY <2>1, <3>7, <4>3 DEF BoardsComing
    <3> QED BY <3>5, <3>6, <3>7
  <2> QED BY <2>2, <2>3, <2>4
<1> QED BY <1>1, <1>2 DEF Step

(* A solution has every digit in every block. *)
LEMMA SolutionIsFull ==
    ASSUME NEW z \in Puzzles, NEW b \in Blocks, NEW d \in Digits
    PROVE  \E c \in Cells : z.S[b][c] = d
<1> DEFINE f == z.S[b]
<1>1. f \in [Cells -> Digits]
      BY FoodokuAssumption DEF FoodokuAssumption
<1>2. \A c1, c2 \in Cells : f[c1] = f[c2] => c1 = c2
  <2>1. 0 \notin Digits
        BY DEF Digits
  <2> QED BY <1>1, <2>1, PuzzleTwins DEF NoTwins
<1> HIDE DEF f
<1>3. f \in Injection(Cells, Digits)
      BY <1>1, <1>2 DEF Injection, IsInjective
<1>4. /\ IsFiniteSet(Cells) /\ IsFiniteSet(Digits)
      /\ Cardinality(Cells) = Cardinality(Digits)
  <2>1. Height * Width \in Nat \ {0}
        BY FoodokuAssumption DEF FoodokuAssumption
  <2> DEFINE M == Height * Width
  <2>2. 0 \in Int /\ 1 \in Int /\ M - 1 \in Int /\ M \in Int /\ 0 <= M - 1 /\ 1 <= M
        BY <2>1
  <2> HIDE DEF M
  <2>3. /\ IsFiniteSet(0..(M - 1)) /\ IsFiniteSet(1..M)
        /\ Cardinality(0..(M - 1)) = M /\ Cardinality(1..M) = M
        BY <2>2, FS_Interval
  <2> QED BY <2>3 DEF M, Cells, Digits
<1>5. f \in Surjection(Cells, Digits)
      BY <1>3, <1>4, FS_Injection
<1> QED BY <1>5 DEF Surjection, f

(* Some block has eaten a board. *)
EatsBoard(b) ==
    /\ eaten' = eaten \cup {<<b, Front(b)>>} /\ misread' = misread \cup {b}
    /\ version = "instructor" /\ IsBoard(Front(b)) /\ pipe[b] # <<>>

(* The steps of a block, as far as boards are concerned. *)
LEMMA ComingBlock ==
    ASSUME Types, InHand, NEW b \in Blocks, BlockDoes(b), NEW y \in Blocks
    PROVE  /\ Owed(y)' <=> Owed(y)
           /\ Current(y)' = Current(y)
           /\ BoardComing(y)' => BoardComing(y)
           /\ BoardComing(y) => BoardComing(y)' \/ (y = b /\ (Loads(b) \/ EatsBoard(b)))
<1>0. PICK T \in {{}, {b}}, R \in SUBSET (Blocks \ {b}), m \in Lines :
          Flow(T, R, m) /\ m.cmd \in {"r", "c", "answer", "q"}
      BY BlockFlows
<1>1. Frame(b)
      BY BlockFlows
<1>2. (Owed(y)' <=> Owed(y)) /\ Current(y)' = Current(y)
      BY <1>1 DEF Frame, coordinator, Owed, Current
<1>3. BoardComing(y) <=> Owed(y) \/ Contains(y, {"n", "s"})
      BY DEF BoardComing, Owed, Contains
<1>4. BoardComing(y)' <=> Owed(y)' \/ Contains(y, {"n", "s"})'
      BY DEF BoardComing, Owed, Contains
<1>5. Contains(y, {"n", "s"})' => Contains(y, {"n", "s"})
      BY <1>0, FlowContains
<1>6. Contains(y, {"n", "s"}) =>
          Contains(y, {"n", "s"})' \/ (y = b /\ (Loads(b) \/ EatsBoard(b)))
  <2> SUFFICES ASSUME Contains(y, {"n", "s"}), ~Contains(y, {"n", "s"})'
               PROVE  y = b /\ (Loads(b) \/ EatsBoard(b))
      OBVIOUS
  <2>1. y = b
        BY <1>0, FlowContains
  <2>2. ASSUME NEW T2 \in {{}, {b}}, NEW R2, NEW m2 \in Lines, Flow(T2, R2, m2)
        PROVE  b \in T2 /\ IsBoard(Front(b)) /\ pipe[b] # <<>>
    <3>1. b \in T2 /\ IsBoard(Front(b))
          BY <2>1, <2>2, FlowContains DEF IsBoard
    <3> QED BY <2>2, <3>1 DEF Flow
  <2>3. IsBoard(Front(b)) /\ pipe[b] # <<>>
        BY <1>0, <2>2
  <2>4. ~Drops(b) /\ ~Starts(b) /\ ~Answers(b)
        BY <2>3 DEF Drops, Starts, Answers, PutLines, QueryLines, IsBoard
  <2>5. ASSUME NEW T2 \in {{}, {b}}, NEW next, Asks(b, T2, next) \/ Ends(b, T2, next)
        PROVE  EatsBoard(b)
    <3>1. GoesOn(b, T2, next) /\ put[b] \in PutLines
          BY <2>5 DEF Asks, Ends, GoesOn, InHand
    <3>2. \E R2 \in SUBSET Blocks : \E m2 \in Lines : Flow(T2, R2, m2)
      <4>1. CASE Asks(b, T2, next)
        <5>1. {Neighbours(b)[next]} \in SUBSET Blocks /\ Query(b, next, put[b]) \in Lines
              BY <3>1, <4>1, NeighbourOf, QueryIs DEF Asks
        <5> QED BY <4>1, <5>1 DEF Asks
      <4>2. CASE Ends(b, T2, next)
        <5>1. Flow(T2, {}, NoLine) /\ {} \in SUBSET Blocks
              BY <4>2 DEF Ends
        <5> QED BY <5>1, NoLineIs
      <4> QED BY <2>5, <4>1, <4>2
    <3>3. b \in T2
          BY <2>2, <3>2
    <3>4. ByEating(b, T2, next)
          BY <2>3, <3>1, <3>3 DEF GoesOn, ByAnswer, ByMistake, AnswerLines, IsBoard
    <3> QED BY <2>3, <3>4 DEF ByEating, EatsBoard
  <2> QED BY <2>1, <2>4, <2>5 DEF BlockDoes
<1> QED BY <1>2, <1>3, <1>4, <1>5, <1>6

(* Who has loaded the last board that comes has the board of the puzzle. *)
LEMMA LoadsCurrent ==
    ASSUME Types, InHand, BoardsComing, NEW b \in Blocks, Loads(b), ~BoardComing(b)'
    PROVE  /\ B'[b] = Current(b) /\ NoTwins(B'[b]) /\ BoardComing(b)
           /\ version = "instructor" => A'[b] = Current(b)
<1>1. pipe[b] # <<>> /\ Flow({b}, {}, NoLine)
      BY DEF Loads, Flow
<1>2. 1 \in DOMAIN pipe[b] /\ pipe[b][1] = Front(b)
      BY <1>1, MovedUp
<1>3. IsBoard(Front(b)) /\ B'[b] = Front(b).cells
      BY DEF Loads, BoardLines, IsBoard
<1>4. ~Owed(b)
  <2>1. Owed(b)' <=> Owed(b)
        BY DEF Loads, AtMain, Frame, coordinator, Owed
  <2> QED BY <2>1 DEF BoardComing, Owed
<1>5. LastBoard(b, 1)
  <2>0. \A i \in DOMAIN pipe[b] : i # 1 =>
           i - 1 \in DOMAIN Tail(pipe[b]) /\ Tail(pipe[b])[i - 1] = pipe[b][i]
        BY <1>1, MovedUp
  <2> SUFFICES ASSUME NEW j \in DOMAIN pipe[b], 1 < j, IsBoard(pipe[b][j]) PROVE FALSE
      BY DEF LastBoard
  <2>1. j - 1 \in DOMAIN Tail(pipe[b]) /\ Tail(pipe[b])[j - 1] = pipe[b][j]
    <3>1. j # 1
          OBVIOUS
    <3> QED BY <2>0, <3>1
  <2>2. pipe'[b] = Tail(pipe[b])
        BY <1>1 DEF Flow
  <2> QED BY <2>1, <2>2 DEF BoardComing, IsBoard
<1>6. NoTwins(Front(b).cells) /\ Front(b).cells = Current(b)
      BY <1>2, <1>3, <1>4, <1>5 DEF BoardsComing
<1>7. BoardComing(b)
      BY <1>2, <1>3 DEF BoardComing, IsBoard
<1>8. version = "instructor" => A'[b] = Current(b)
  <2>1. version = "instructor" => Front(b).cmd = "n"
        BY <1>2, <1>3 DEF BoardsComing
  <2> QED BY <1>2, <1>3, <1>4, <1>5, <2>1 DEF Loads, BoardsComing
<1> QED BY <1>3, <1>6, <1>7, <1>8

(* The solution leaves nothing to put. *)
LEMMA SolutionRefuses ==
    ASSUME Types, InHand, solved, NEW b \in Blocks, NEW p \in PutLines, B[b] = puzzle.S[b],
           version = "instructor" => A[b] = puzzle.S[b]
    PROVE  Refused(b, p)
<1>1. puzzle \in Puzzles /\ p.cell \in Cells /\ p.digit \in Digits
      BY DEF Types, InHand, PutLines
<1>2. CASE version = "instructor"
  <2>1. puzzle.S[b][p.cell] \in Digits
        BY <1>1, FoodokuAssumption DEF FoodokuAssumption
  <2> QED BY <1>2, <2>1 DEF Refused, Digits
<1>3. CASE version # "instructor"
      BY <1>1, <1>3, SolutionIsFull DEF Refused, checkBlockConflict
<1> QED BY <1>2, <1>3

(* The solution is shown. *)
LEMMA ShownNext == ASSUME Types, InHand, BoardsComing, Shown, Step PROVE Shown'
<1>1. ASSUME NEW b \in Blocks, BlockDoes(b), solved', NEW y \in Blocks, ~BoardComing(y)'
      PROVE  \/ \E e \in eaten' : e[1] = y /\ e[2].cmd = "n"
             \/ /\ B'[y] = puzzle'.S[y] /\ pc'[y] # "reading"
                /\ version' = "instructor" => A'[y] = puzzle'.S[y]
  <2>1. Frame(b) /\ eaten \subseteq eaten'
        BY <1>1, BlockFlows
  <2>2. solved /\ puzzle' = puzzle /\ version' = version /\ puzzle # None
        BY <1>1, <2>1 DEF Frame, coordinator, InHand
  <2>3. CASE BoardComing(y)
    <3>1. y = b /\ (Loads(b) \/ EatsBoard(b))
          BY <1>1, <2>3, ComingBlock
    <3>2. CASE Loads(b)
      <4>1. B'[b] = Current(b) /\ (version = "instructor" => A'[b] = Current(b))
            BY <1>1, <3>1, <3>2, LoadsCurrent
      <4>2. pc'[b] # "reading"
            BY <3>2 DEF Loads
      <4> QED BY <2>2, <3>1, <4>1, <4>2 DEF Current
    <3>3. CASE EatsBoard(b)
      <4>1. 1 \in DOMAIN pipe[b] /\ pipe[b][1] = Front(b)
            BY <3>3, MovedUp DEF EatsBoard
      <4>2. Front(b).cmd = "n"
            BY <3>3, <4>1 DEF EatsBoard, BoardsComing
      <4>3. <<b, Front(b)>> \in eaten'
            BY <3>3 DEF EatsBoard
      <4> QED BY <3>1, <4>2, <4>3
    <3> QED BY <3>1, <3>2, <3>3
  <2>4. CASE ~BoardComing(y) /\ \E e \in eaten : e[1] = y /\ e[2].cmd = "n"
        BY <2>1, <2>4
  <2>5. CASE /\ ~BoardComing(y) /\ B[y] = puzzle.S[y] /\ pc[y] # "reading"
             /\ version = "instructor" => A[y] = puzzle.S[y]
    <3>1. CASE y # b
          BY <2>1, <2>2, <2>5, <3>1 DEF Frame
    <3>2. CASE y = b
      <4>1. ~Starts(b)
            BY <2>2, <2>5, <3>2, SolutionRefuses DEF Starts
      <4>2. ASSUME NEW T, NEW next, Asks(b, T, next) \/ Ends(b, T, next) PROVE FALSE
            BY <2>5, <3>2, <4>2 DEF Asks, Ends, GoesOn
      <4>3. CASE Loads(b)
        <5>1. BoardComing(b)
              BY <1>1, <3>2, <4>3, LoadsCurrent
        <5> QED BY <2>5, <3>2, <5>1
      <4>4. CASE Drops(b) \/ Answers(b)
            BY <2>2, <2>5, <3>2, <4>4 DEF Drops, Answers
      <4> QED BY <1>1, <4>1, <4>2, <4>3, <4>4 DEF BlockDoes
    <3> QED BY <3>1, <3>2
  <2> QED BY <2>2, <2>3, <2>4, <2>5 DEF Shown
<1>2. ASSUME CoordinatorDoes, solved', NEW y \in Blocks, ~BoardComing(y)'
      PROVE  \/ \E e \in eaten' : e[1] = y /\ e[2].cmd = "n"
             \/ /\ B'[y] = puzzle'.S[y] /\ pc'[y] # "reading"
                /\ version' = "instructor" => A'[y] = puzzle'.S[y]
  <2>1. BlocksIdle
        BY <1>2, CoordinatorFlows
  <2>2. puzzle' = puzzle /\ solved' = solved /\ ~BoardComing(y)
        BY <1>2, ComingCoordinator
  <2> QED BY <1>2, <2>1, <2>2 DEF Shown, BlocksIdle
<1> QED BY <1>1, <1>2 DEF Step, Shown

(* No digit is there twice within a block. *)
LEMMA OwnBlockNext == ASSUME Types, InHand, BoardsComing, OwnBlock, Step PROVE OwnBlock'
<1>1. ASSUME NEW b \in Blocks, BlockDoes(b), NEW y \in Blocks
      PROVE  /\ NoTwins(B'[y])
             /\ pc'[y] = "reading" => \A c \in Cells : c # put'[y].cell => B'[y][c] # put'[y].digit
  <2>1. Frame(b)
        BY <1>1, BlockFlows
  <2>2. CASE y # b
        BY <2>1, <2>2 DEF Frame, OwnBlock
  <2>3. CASE y = b
    <3>1. CASE Loads(b)
      <4>1. pipe[b] # <<>> /\ IsBoard(Front(b))
            BY <3>1 DEF Loads, Flow, BoardLines, IsBoard
      <4>2. NoTwins(Front(b).cells)
            BY <4>1, MovedUp DEF BoardsComing
      <4> QED BY <2>3, <3>1, <4>2 DEF Loads
    <3>2. CASE Drops(b) \/ Answers(b)
          BY <2>3, <3>2 DEF Drops, Answers, OwnBlock
    <3>3. CASE Starts(b)
      <4>1. \A c \in Cells : c # Front(b).cell => B[b][c] # Front(b).digit
            BY <3>3 DEF Starts, Refused, checkBlockConflict
      <4> QED BY <2>3, <3>3, <4>1 DEF Starts, OwnBlock
    <3>4. ASSUME NEW T, NEW next, Asks(b, T, next)
          PROVE  NoTwins(B'[b]) /\ \A c \in Cells : c # put'[b].cell => B'[b][c] # put'[b].digit
          BY <3>4 DEF Asks, GoesOn, OwnBlock
    <3>5. ASSUME NEW T, NEW next, Ends(b, T, next)
          PROVE  NoTwins(B'[b]) /\ pc'[b] # "reading"
      <4>1. /\ NoTwins(B[b]) /\ B[b] \in [Cells -> Digits \cup {0}]
            /\ \A c \in Cells : c # put[b].cell => B[b][c] # put[b].digit
            BY <3>5 DEF Ends, GoesOn, OwnBlock, Types, Boards
      <4>2. put[b] \in PutLines /\ put[b].cell \in Cells
            BY <3>5 DEF Ends, GoesOn, InHand, PutLines
      <4>3. CASE conflict'[b]
            BY <3>5, <4>1, <4>3 DEF Ends
      <4>4. CASE ~conflict'[b]
        <5>1. B'[b] = [B[b] EXCEPT ![put[b].cell] = put[b].digit]
              BY <3>5, <4>4 DEF Ends
        <5>2. NoTwins(B'[b])
              BY <4>1, <4>2, <5>1 DEF NoTwins
        <5> QED BY <3>5, <5>2 DEF Ends
      <4> QED BY <3>5, <4>3, <4>4 DEF Ends
    <3> QED BY <1>1, <2>3, <3>1, <3>2, <3>3, <3>4, <3>5 DEF BlockDoes
  <2> QED BY <2>2, <2>3
<1>2. ASSUME CoordinatorDoes PROVE OwnBlock'
  <2>1. BlocksIdle
        BY <1>2, CoordinatorFlows
  <2> QED BY <2>1 DEF OwnBlock, BlocksIdle
<1> QED BY <1>1, <1>2 DEF Step, OwnBlock

(* One step's questions: those of y that are there after it were there     *)
(* before, unless the step asks one for y.                                 *)
LEMMA OldQuestions ==
    ASSUME Types, NEW T, NEW R, NEW m \in Lines, Flow(T, R, m), NEW y \in Blocks,
           ~IsQuery(m, y), OneQuestion(y), pc'[y] = pc[y], k'[y] = k[y], put'[y] = put[y],
           version' = version,
           Asked(y) => ~Contains(y, {"answer"})'
    PROVE  OneQuestion(y)'
<1> SUFFICES ASSUME NEW x \in Blocks, NEW i \in DOMAIN pipe'[x], IsQuery(pipe'[x][i], y)
             PROVE  /\ pc'[y] = "reading" /\ x = Neighbours(y)'[k'[y]]
                    /\ pipe'[x][i] = Query(y, k'[y], put'[y])
                    /\ \A j \in DOMAIN pipe'[x] : IsQuery(pipe'[x][j], y) => j = i
                    /\ ~Contains(y, {"answer"})'
    BY DEF OneQuestion, IsQuery, Query
<1>1. ASSUME NEW j \in DOMAIN pipe'[x], IsQuery(pipe'[x][j], y)
      PROVE  Was(x, T, R, j) \in DOMAIN pipe[x] /\ pipe'[x][j] = pipe[x][Was(x, T, R, j)]
      BY <1>1, FlowBack
<1> DEFINE w == Was(x, T, R, i)
<1>2. w \in DOMAIN pipe[x] /\ pipe'[x][i] = pipe[x][w]
      BY <1>1
<1>3. /\ pc[y] = "reading" /\ x = Neighbours(y)[k[y]]
      /\ pipe[x][w] = Query(y, k[y], put[y])
      /\ \A j \in DOMAIN pipe[x] : IsQuery(pipe[x][j], y) => j = w
  <2> HIDE DEF w
  <2> QED BY <1>2 DEF OneQuestion
<1>4. ASSUME NEW j \in DOMAIN pipe'[x], IsQuery(pipe'[x][j], y) PROVE j = i
  <2>1. /\ Was(x, T, R, j) \in DOMAIN pipe[x]
        /\ pipe'[x][j] = pipe[x][Was(x, T, R, j)]
        BY <1>1, <1>4
  <2>2. Was(x, T, R, j) = w
        BY <1>3, <1>4, <2>1
  <2> QED BY <1>2, <2>1, <2>2, WasOrder
<1>5. Asked(y)
      BY <1>2 DEF Asked
<1>6. Neighbours(y)' = Neighbours(y)
      BY DEF Neighbours, getRowNeighbors, getColNeighbors
<1> QED BY <1>2, <1>3, <1>4, <1>5, <1>6

(* So are answers, unless one is given. *)
LEMMA OldAnswers ==
    ASSUME Types, NEW T, NEW R, NEW m \in Lines, Flow(T, R, m), NEW y \in Blocks,
           m.cmd # "answer" \/ y \notin R, OneAnswer(y),
           pc'[y] = pc[y] \/ ~Contains(y, {"answer"})'
    PROVE  OneAnswer(y)'
<1> SUFFICES ASSUME NEW i \in DOMAIN pipe'[y], pipe'[y][i].cmd = "answer"
             PROVE  /\ pc'[y] = "reading"
                    /\ \A j \in DOMAIN pipe'[y] : pipe'[y][j].cmd = "answer" => j = i
    BY DEF OneAnswer
<1>1. ASSUME NEW j \in DOMAIN pipe'[y], pipe'[y][j].cmd = "answer"
      PROVE  Was(y, T, R, j) \in DOMAIN pipe[y] /\ pipe'[y][j] = pipe[y][Was(y, T, R, j)]
      BY <1>1, FlowBack
<1>2. pc[y] = "reading"
      BY <1>1 DEF OneAnswer
<1>3. pc'[y] = "reading"
      BY <1>2 DEF Contains
<1>4. ASSUME NEW j \in DOMAIN pipe'[y], pipe'[y][j].cmd = "answer" PROVE j = i
  <2>1. Was(y, T, R, j) = Was(y, T, R, i)
        BY <1>1, <1>4 DEF OneAnswer
  <2> QED BY <1>1, <2>1, WasOrder
<1> QED BY <1>3, <1>4

(* The first question of a put, and the next one. *)
LEMMA NewQuestion ==
    ASSUME Types, NEW b \in Blocks, NEW T, NEW n \in 1..LastQuery, NEW p \in PutLines,
           T \subseteq {b}, Flow(T, {Neighbours(b)[n]}, Query(b, n, p)), version' = version,
           ~Asked(b), ~Contains(b, {"answer"})',
           pc'[b] = "reading", k'[b] = n, put'[b] = p
    PROVE  OneQuestion(b)' /\ OneAnswer(b)'
<1> DEFINE m == Query(b, n, p)
           R == {Neighbours(b)[n]}
<1>1. m \in Lines /\ Flow(T, R, m) /\ Neighbours(b)[n] \in Blocks \ {b}
      BY QueryIs, NeighbourOf
<1>2. Neighbours(b)' = Neighbours(b)
      BY DEF Neighbours, getRowNeighbors, getColNeighbors
<1>3. OneAnswer(b)'
      BY DEF OneAnswer, Contains
<1>4. ASSUME NEW x \in Blocks, NEW i \in DOMAIN pipe'[x], IsQuery(pipe'[x][i], b)
      PROVE  x = Neighbours(b)[n] /\ pipe'[x][i] = m /\ i = Len(pipe[x]) + 1
  <2> HIDE DEF m, R
  <2>1. ~(Was(x, T, R, i) \in DOMAIN pipe[x] /\ pipe'[x][i] = pipe[x][Was(x, T, R, i)])
        BY <1>4 DEF Asked
  <2>2. x \in R /\ pipe'[x][i] = m /\ i = Len(pipe[x]) + 1
        BY <1>1, <2>1, FlowBack
  <2> QED BY <2>2 DEF R
<1>5. OneQuestion(b)'
  <2> SUFFICES ASSUME NEW x \in Blocks, NEW i \in DOMAIN pipe'[x], IsQuery(pipe'[x][i], b)
               PROVE  /\ pc'[b] = "reading" /\ x = Neighbours(b)'[k'[b]]
                      /\ pipe'[x][i] = Query(b, k'[b], put'[b])
                      /\ \A j \in DOMAIN pipe'[x] : IsQuery(pipe'[x][j], b) => j = i
                      /\ ~Contains(b, {"answer"})'
      BY DEF OneQuestion, IsQuery, Query
  <2> QED BY <1>2, <1>4
<1> QED BY <1>3, <1>5

(* Without questions and answers there is nothing to match. *)
LEMMA NothingAsked ==
    ASSUME NEW y \in Blocks, ~Asked(y), ~Contains(y, {"answer"})
    PROVE  OneQuestion(y) /\ OneAnswer(y)
BY DEF OneQuestion, OneAnswer, Asked, Contains

(* (After a step.) *)
LEMMA NothingAskedNext ==
    ASSUME NEW y \in Blocks, ~Asked(y)', ~Contains(y, {"answer"})'
    PROVE  OneQuestion(y)' /\ OneAnswer(y)'
<1>1. ASSUME NEW x \in Blocks, NEW i \in DOMAIN pipe'[x] PROVE ~IsQuery(pipe'[x][i], y)
      BY <1>1 DEF Asked
<1>2. OneQuestion(y)'
      BY <1>1 DEF OneQuestion, IsQuery
<1>3. OneAnswer(y)'
      BY DEF OneAnswer, Contains
<1> QED BY <1>2, <1>3

(* Who reads commands has nothing under way; who has an answer, no         *)
(* question.                                                               *)
LEMMA NothingUnderWay ==
    ASSUME Matched, NEW y \in Blocks \ misread
    PROVE  /\ pc[y] # "reading" => ~Asked(y) /\ ~Contains(y, {"answer"})
           /\ Contains(y, {"answer"}) => ~Asked(y)
BY DEF Matched, OneQuestion, OneAnswer, Asked, Contains

(* No question of y is asked for it by others. *)
LEMMA NotAskedNext ==
    ASSUME Types, NEW T, NEW R, NEW m \in Lines, Flow(T, R, m), NEW y \in Blocks,
           ~IsQuery(m, y), ~Asked(y)
    PROVE  ~Asked(y)'
BY FlowBack DEF Asked

(* An answer that is read was the only one. *)
LEMMA AnswerGone ==
    ASSUME Types, NEW b \in Blocks, OneAnswer(b), NEW R, NEW m \in Lines, Flow({b}, R, m),
           Front(b).cmd = "answer"
    PROVE  ~Contains(b, {"answer"})'
<1>1. pipe[b] # <<>> /\ pipe'[b] = Tail(pipe[b])
      BY DEF Flow
<1>2. 1 \in DOMAIN pipe[b] /\ pipe[b][1].cmd = "answer"
      BY <1>1, MovedUp
<1>3. ASSUME NEW i \in DOMAIN Tail(pipe[b]), Tail(pipe[b])[i].cmd = "answer" PROVE FALSE
  <2>1. /\ i \in Nat \ {0} /\ i + 1 \in DOMAIN pipe[b]
        /\ pipe[b][i + 1].cmd = "answer"
        BY <1>1, <1>3, MovedUp
  <2>2. i + 1 = 1
        BY <1>2, <2>1 DEF OneAnswer
  <2> QED BY <2>1, <2>2
<1> QED BY <1>1, <1>3 DEF Contains

(* Questions and answers match. *)
LEMMA MatchedNext == ASSUME Types, InHand, Addressed, Matched, Step PROVE Matched'
<1>1. ASSUME NEW b \in Blocks, BlockDoes(b), NEW y \in Blocks \ misread'
      PROVE  OneQuestion(y)' /\ OneAnswer(y)'
  <2>0. PICK T \in {{}, {b}}, R \in SUBSET (Blocks \ {b}), m \in Lines :
            /\ Flow(T, R, m) /\ (m.cmd \in {"r", "c"} => m.from = b)
            /\ OnlyAnswers(b, T, R, m)
        BY <1>1, BlockAnswers
  <2>1. Frame(b) /\ misread \subseteq misread'
        BY <1>1, BlockFlows
  <2>2. y \in Blocks \ misread /\ OneQuestion(y) /\ OneAnswer(y)
        BY <2>1 DEF Matched
  <2>3. version' = version
        BY <2>1 DEF Frame
  <2>4. CASE y # b /\ (m.cmd # "answer" \/ y \notin R)
    <3>1. /\ pc'[y] = pc[y] /\ k'[y] = k[y] /\ put'[y] = put[y]
          BY <2>1, <2>4 DEF Frame
    <3>2. ~IsQuery(m, y)
          BY <2>0, <2>4 DEF IsQuery
    <3>3. Asked(y) => ~Contains(y, {"answer"})'
      <4>1. Contains(y, {"answer"})' => Contains(y, {"answer"})
            BY <2>0, <2>4, FlowContains
      <4> QED BY <2>2, <4>1, NothingUnderWay
    <3>4. OneQuestion(y)'
          BY <2>0, <2>2, <2>3, <3>1, <3>2, <3>3, OldQuestions
    <3>5. OneAnswer(y)'
          BY <2>0, <2>2, <2>4, <3>1, OldAnswers
    <3> QED BY <3>4, <3>5
  <2>5. CASE y # b /\ m.cmd = "answer" /\ y \in R
    <3>1. Answers(b) /\ T = {b} /\ Front(b).from = y /\ m = Answer(b)
          BY <2>0, <2>5 DEF OnlyAnswers
    <3>2. 1 \in DOMAIN pipe[b] /\ pipe[b][1] = Front(b) /\ IsQuery(pipe[b][1], y)
      <4>1. pipe[b] # <<>>
            BY <3>1 DEF Answers, Flow
      <4> QED BY <3>1, <4>1, MovedUp DEF Answers, QueryLines, IsQuery
    <3>3. /\ pc[y] = "reading" /\ b = Neighbours(y)[k[y]] /\ ~Contains(y, {"answer"})
          /\ \A j \in DOMAIN pipe[b] : IsQuery(pipe[b][j], y) => j = 1
          BY <2>2, <3>2 DEF OneQuestion
    <3>4. ASSUME NEW x \in Blocks, NEW i \in DOMAIN pipe'[x], IsQuery(pipe'[x][i], y)
          PROVE  FALSE
      <4>1. Was(x, T, R, i) \in DOMAIN pipe[x] /\ pipe'[x][i] = pipe[x][Was(x, T, R, i)]
            BY <2>0, <2>5, <3>4, FlowBack DEF IsQuery
      <4>2. x = b
            BY <2>2, <3>3, <3>4, <4>1 DEF OneQuestion
      <4>3. Was(x, T, R, i) = 1
            BY <3>3, <3>4, <4>1, <4>2
      <4>4. i \in Nat \ {0}
            BY <2>0, FlowBack
      <4> QED BY <3>1, <4>2, <4>3, <4>4 DEF Was
    <3>5. OneQuestion(y)'
      <4>1. \A x \in Blocks : \A i \in DOMAIN pipe'[x] : ~IsQuery(pipe'[x][i], y)
            BY <3>4
      <4> QED BY <4>1 DEF OneQuestion, IsQuery
    <3>6. ASSUME NEW i \in DOMAIN pipe'[y], pipe'[y][i].cmd = "answer"
          PROVE  i = Len(pipe[y]) + 1
          BY <2>0, <3>3, <3>6, FlowBack DEF Contains
    <3>7. pc'[y] = "reading"
          BY <2>1, <2>5, <3>3 DEF Frame
    <3>8. OneAnswer(y)'
          BY <3>6, <3>7 DEF OneAnswer
    <3> QED BY <3>5, <3>8
  <2>6. CASE y = b
    <3>1. CASE Loads(b) \/ Drops(b) \/ Answers(b)
      <4>1. pc[b] = "main"
            BY <3>1 DEF Loads, Drops, Answers, AtMain
      <4>2. ~Asked(b) /\ ~Contains(b, {"answer"})
            BY <2>2, <2>6, <4>1, NothingUnderWay
      <4>3. \E R2 \in SUBSET (Blocks \ {b}) : \E m2 \in Lines :
                Flow({b}, R2, m2) /\ ~IsQuery(m2, b)
        <5>1. CASE Loads(b) \/ Drops(b)
          <6>1. Flow({b}, {}, NoLine) /\ ~IsQuery(NoLine, b) /\ {} \in SUBSET (Blocks \ {b})
                BY <5>1 DEF Loads, Drops, NoLine, IsQuery
          <6> QED BY <6>1, NoLineIs
        <5>2. CASE Answers(b)
          <6>1. Answer(b) \in Lines /\ ~IsQuery(Answer(b), b)
                BY DEF Answer, Has, Lines, AnswerLines, IsQuery
          <6>2. Front(b).from \in Blocks \ {b} /\ Flow({b}, {Front(b).from}, Answer(b))
                BY <5>2 DEF Answers, QueryLines
          <6> QED BY <6>1, <6>2
        <5> QED BY <3>1, <5>1, <5>2
      <4>4. PICK R2 \in SUBSET (Blocks \ {b}), m2 \in Lines : Flow({b}, R2, m2) /\ ~IsQuery(m2, b)
            BY <4>3
      <4>5. ~Asked(b)'
            BY <4>2, <4>4, NotAskedNext
      <4>6. ~Contains(b, {"answer"})'
            BY <4>2, <4>4, FlowContains
      <4> QED BY <2>6, <4>5, <4>6, NothingAskedNext
    <3>2. CASE Starts(b)
      <4>0. 1 \in 1..LastQuery
            BY FoodokuAssumption DEF FoodokuAssumption, LastQuery
      <4>1. pc[b] = "main" /\ 1 \in 1..LastQuery
            BY <3>2, <4>0 DEF Starts, AtMain
      <4>2. ~Asked(b) /\ ~Contains(b, {"answer"})
            BY <2>2, <2>6, <4>1, NothingUnderWay
      <4>3. /\ Flow({b}, {Neighbours(b)[1]}, Query(b, 1, Front(b))) /\ Front(b) \in PutLines
            /\ pc'[b] = "reading" /\ k'[b] = 1 /\ put'[b] = Front(b)
            BY <3>2 DEF Starts
      <4>4. ~Contains(b, {"answer"})'
            BY <4>2, <4>3, QueryIs, FlowContains
      <4> QED BY <2>3, <2>6, <4>1, <4>2, <4>3, <4>4, NewQuestion
    <3>3. ASSUME NEW T2 \in {{}, {b}}, NEW next, Asks(b, T2, next) \/ Ends(b, T2, next)
          PROVE  OneQuestion(b)' /\ OneAnswer(b)'
      <4>1. GoesOn(b, T2, next) /\ put[b] \in PutLines
            BY <3>3 DEF Asks, Ends, GoesOn, InHand
      <4>2. T2 = {b} /\ Front(b).cmd = "answer" /\ pipe[b] # <<>>
            BY <2>6, <4>1 DEF GoesOn, ByAnswer, ByMistake, ByEating, AnswerLines
      <4>3. Contains(b, {"answer"})
            BY <4>2, MovedUp DEF Contains
      <4>4. ~Asked(b)
            BY <2>2, <2>6, <4>3, NothingUnderWay
      <4>5. CASE Asks(b, T2, next)
        <5>1. /\ Flow({b}, {Neighbours(b)[next]}, Query(b, next, put[b]))
              /\ next \in 1..LastQuery /\ pc'[b] = "reading" /\ k'[b] = next /\ put'[b] = put[b]
              BY <4>2, <4>5 DEF Asks
        <5>2. ~Contains(b, {"answer"})'
              BY <2>2, <2>6, <4>1, <4>2, <5>1, QueryIs, AnswerGone
        <5> QED BY <2>3, <4>1, <4>4, <5>1, <5>2, NewQuestion
      <4>6. CASE Ends(b, T2, next)
        <5>1. Flow({b}, {}, NoLine) /\ ~IsQuery(NoLine, b)
              BY <4>2, <4>6 DEF Ends, NoLine, IsQuery
        <5>2. ~Contains(b, {"answer"})' /\ ~Asked(b)'
              BY <2>2, <2>6, <4>2, <4>4, <5>1, NoLineIs, AnswerGone, NotAskedNext
        <5> QED BY <5>2, NothingAskedNext
      <4> QED BY <3>3, <4>5, <4>6
    <3> QED BY <1>1, <2>6, <3>1, <3>2, <3>3 DEF BlockDoes
  <2> QED BY <2>4, <2>5, <2>6
<1>2. ASSUME CoordinatorDoes, NEW y \in Blocks \ misread'
      PROVE  OneQuestion(y)' /\ OneAnswer(y)'
  <2>0. PICK R \in SUBSET Blocks, m \in Lines : Flow({}, R, m) /\ m.cmd \in {"n", "s", "p", "q"}
        BY <1>2, CoordinatorFlows
  <2>1. BlocksIdle
        BY <1>2, CoordinatorFlows
  <2>2. y \in Blocks \ misread /\ OneQuestion(y) /\ OneAnswer(y)
        BY <2>1 DEF Matched, BlocksIdle
  <2>3. Asked(y) => ~Contains(y, {"answer"})'
    <3>1. Contains(y, {"answer"})' => Contains(y, {"answer"})
          BY <2>0, FlowContains
    <3> QED BY <2>2, <3>1, NothingUnderWay
  <2>4. /\ pc'[y] = pc[y] /\ k'[y] = k[y] /\ put'[y] = put[y] /\ version' = version
        /\ ~IsQuery(m, y) /\ m.cmd # "answer"
        BY <2>0, <2>1 DEF BlocksIdle, IsQuery
  <2>5. OneQuestion(y)'
        BY <2>0, <2>2, <2>3, <2>4, OldQuestions
  <2>6. OneAnswer(y)'
        BY <2>0, <2>2, <2>4, OldAnswers
  <2> QED BY <2>5, <2>6
<1> QED BY <1>1, <1>2 DEF Step, Matched

(* Who has the current board asks in time: the questions that were under   *)
(* way.                                                                    *)
LEMMA OldInTime ==
    ASSUME Types, NEW T, NEW R, NEW m \in Lines, Flow(T, R, m), NEW y \in Blocks,
           ~IsQuery(m, y), NEW x \in Blocks, ~IsBoard(m) \/ x \notin R,
           NEW i \in DOMAIN pipe'[x], IsQuery(pipe'[x][i], y),
           \A j \in DOMAIN pipe[x] : IsQuery(pipe[x][j], y) => LastBoard(x, j)
    PROVE  LastBoard(x, i)'
<1>1. Was(x, T, R, i) \in DOMAIN pipe[x] /\ pipe'[x][i] = pipe[x][Was(x, T, R, i)]
      BY FlowBack
<1> QED BY <1>1, LastBoardOn

(* The questions are asked in time. *)
LEMMA AskedInTimeNext ==
    ASSUME Types, InHand, Addressed, Quits, Matched, AskedInTime, Step
    PROVE  AskedInTime'
<1>1. ASSUME NEW b \in Blocks, BlockDoes(b), NEW y \in Blocks \ misread', ~BoardComing(y)',
             NEW x \in Blocks, NEW i \in DOMAIN pipe'[x], IsQuery(pipe'[x][i], y)
      PROVE  ~Owed(x)' /\ LastBoard(x, i)'
  <2>0. PICK T \in {{}, {b}}, R \in SUBSET (Blocks \ {b}), m \in Lines :
            /\ Flow(T, R, m)
            /\ m.cmd \in {"r", "c", "answer", "q"}
            /\ m.cmd = "q" => R = {}
            /\ m.cmd \in {"r", "c"} => m.from = b
        BY <1>1, BlockFlows
  <2>1. Frame(b) /\ misread \subseteq misread' /\ y \in Blocks \ misread
    <3>1. Frame(b) /\ misread \subseteq misread'
          BY <1>1, BlockFlows
    <3> QED BY <1>1, <3>1
  <2>2. (Owed(x)' <=> Owed(x)) /\ ~IsBoard(m)
        BY <1>1, <2>0, ComingBlock DEF IsBoard
  <2>3. CASE ~BoardComing(y) /\ ~IsQuery(m, y)
    <3>1. \A j \in DOMAIN pipe[x] : IsQuery(pipe[x][j], y) => ~Owed(x) /\ LastBoard(x, j)
          BY <2>1, <2>3 DEF AskedInTime
    <3>2. Was(x, T, R, i) \in DOMAIN pipe[x] /\ pipe'[x][i] = pipe[x][Was(x, T, R, i)]
          BY <1>1, <2>0, <2>3, FlowBack
    <3>3. ~Owed(x)
          BY <1>1, <3>1, <3>2
    <3>4. LastBoard(x, i)'
          BY <1>1, <2>0, <2>2, <2>3, <3>1, OldInTime
    <3> QED BY <2>2, <3>3, <3>4
  <2>4. CASE ~BoardComing(y) /\ IsQuery(m, y)
    <3>1. y = b
          BY <2>0, <2>4 DEF IsQuery
    <3>2. Contains(b, {"n", "s"}) => Contains(b, {"n", "s"})'
      <4>1. ~BoardComing(b)
            BY <2>4, <3>1
      <4> QED BY <4>1 DEF BoardComing, Contains
    <3>3. ~BoardSent(b)
      <4>1. BoardSent(b) => Behind(b, {"n", "s"})
            BY DEF Quits
      <4>2. ~Contains(b, {"n", "s"})
            BY <2>4, <3>1 DEF BoardComing, Contains
      <4>3. pc[b] = "reading" => ~Behind(b, {"n", "s"})
            BY <4>2 DEF Behind
      <4>4. Starts(b) => ~Behind(b, {"n", "s"})
        <5> SUFFICES ASSUME Starts(b) PROVE ~Behind(b, {"n", "s"})
            OBVIOUS
        <5>1. pipe[b] # <<>> /\ Front(b).cmd = "p"
              BY DEF Starts, Flow, PutLines
        <5>2. 1 \in DOMAIN pipe[b] /\ pipe[b][1].cmd = "p"
              BY <5>1, MovedUp
        <5> QED BY <4>2, <5>2 DEF Behind, Contains
      <4>5. pc[b] = "reading" \/ Starts(b)
        <5>1. Asked(y)'
              BY <1>1 DEF Asked
        <5>2. ASSUME pc[b] = "main" PROVE Starts(b)
          <6>1. ~Asked(b)
                BY <2>1, <3>1, <5>2, NothingUnderWay
          <6>2. CASE Loads(b) \/ Drops(b)
            <7>1. Flow({b}, {}, NoLine) /\ ~IsQuery(NoLine, b)
                  BY <6>2 DEF Loads, Drops, NoLine, IsQuery
            <7> QED BY <3>1, <5>1, <6>1, <7>1, NoLineIs, NotAskedNext
          <6>3. CASE Answers(b)
            <7>1. Answer(b) \in Lines /\ ~IsQuery(Answer(b), b)
                  BY DEF Answer, Has, Lines, AnswerLines, IsQuery
            <7>2. Flow({b}, {Front(b).from}, Answer(b))
                  BY <6>3 DEF Answers
            <7> QED BY <3>1, <5>1, <6>1, <7>1, <7>2, NotAskedNext
          <6>4. ASSUME NEW T2, NEW next, Asks(b, T2, next) \/ Ends(b, T2, next) PROVE FALSE
                BY <5>2, <6>4 DEF Asks, Ends, GoesOn
          <6> QED BY <1>1, <6>2, <6>3, <6>4 DEF BlockDoes
        <5>3. pc[b] \in {"main", "reading"}
          <6>1. CASE Loads(b) \/ Drops(b) \/ Starts(b) \/ Answers(b)
                BY <6>1 DEF Loads, Drops, Starts, Answers, AtMain
          <6>2. ASSUME NEW T2, NEW next, Asks(b, T2, next) \/ Ends(b, T2, next)
                PROVE  pc[b] = "reading"
                BY <6>2 DEF Asks, Ends, GoesOn
          <6> QED BY <1>1, <6>1, <6>2 DEF BlockDoes
        <5> QED BY <5>2, <5>3
      <4> QED BY <4>1, <4>3, <4>4, <4>5
    <3>4. job \notin {"new", "solution"}
      <4>1. ~Owed(b) /\ ~BoardSent(b)
            BY <2>4, <3>1, <3>3 DEF BoardComing, Owed
      <4>2. b \in Nat /\ to \in Nat
            BY FoodokuAssumption DEF FoodokuAssumption, Types, Blocks
      <4> QED BY <4>1, <4>2 DEF Owed, BoardSent
    <3>5. ~Owed(x)
          BY <3>4 DEF Owed
    <3>6. \/ /\ Was(x, T, R, i) \in DOMAIN pipe[x]
             /\ pipe'[x][i] = pipe[x][Was(x, T, R, i)]
          \/ i = Len(pipe[x]) + 1 /\ x \notin T /\ x \in R
          BY <2>0, FlowBack
    <3>7. CASE /\ Was(x, T, R, i) \in DOMAIN pipe[x]
               /\ pipe'[x][i] = pipe[x][Was(x, T, R, i)]
      <4>1. LastBoard(x, Was(x, T, R, i))
            BY <1>1, <2>1, <2>4, <3>7 DEF AskedInTime
      <4> QED BY <2>0, <2>2, <3>5, <3>7, <4>1, LastBoardOn
    <3>8. CASE i = Len(pipe[x]) + 1 /\ x \notin T /\ x \in R
      <4>1. pipe'[x] = Append(pipe[x], m)
            BY <2>0, <3>8 DEF Flow
      <4>2. ASSUME NEW j \in DOMAIN pipe'[x] PROVE ~(i < j)
        <5>1. Len(pipe[x]) \in Nat
              BY DEF Types
        <5>2. j \in DOMAIN pipe[x] \/ j = i
              BY <3>8, <4>1, <4>2, Added
        <5>3. j \in DOMAIN pipe[x] => j \in Nat /\ j < i
              BY <3>8, Added
        <5> QED BY <3>8, <5>1, <5>2, <5>3
      <4>3. LastBoard(x, i)'
            BY <4>2 DEF LastBoard
      <4> QED BY <2>2, <3>5, <4>3
    <3> QED BY <3>6, <3>7, <3>8
  <2>5. CASE BoardComing(y)
    <3>1. y = b /\ Loads(b)
          BY <1>1, <2>5, ComingBlock DEF EatsBoard
    <3>2. ~Asked(b)
          BY <2>1, <3>1, NothingUnderWay DEF Loads, AtMain
    <3>3. Flow({b}, {}, NoLine) /\ ~IsQuery(NoLine, b)
          BY <3>1 DEF Loads, NoLine, IsQuery
    <3>4. ~Asked(b)'
          BY <3>2, <3>3, NoLineIs, NotAskedNext
    <3> QED BY <1>1, <3>1, <3>4 DEF Asked
  <2> QED BY <2>3, <2>4, <2>5
<1>2. ASSUME CoordinatorDoes, NEW y \in Blocks \ misread', ~BoardComing(y)',
             NEW x \in Blocks, NEW i \in DOMAIN pipe'[x], IsQuery(pipe'[x][i], y)
      PROVE  ~Owed(x)' /\ LastBoard(x, i)'
  <2>0. BlocksIdle /\ y \in Blocks \ misread
        BY <1>2, CoordinatorFlows DEF BlocksIdle
  <2>1. ~Announces /\ ~BoardComing(y) /\ (Owed(x)' => Owed(x))
    <3>1. ~Announces
          BY <1>2, ComingCoordinator
    <3> QED BY <1>2, <3>1, ComingCoordinator
  <2>2. \A j \in DOMAIN pipe[x] : IsQuery(pipe[x][j], y) => ~Owed(x) /\ LastBoard(x, j)
        BY <2>0, <2>1 DEF AskedInTime
  <2>3. CASE ~(Sends /\ x = to)
    <3>1. \E R \in SUBSET Blocks, m \in Lines :
              Flow({}, R, m) /\ ~IsQuery(m, y) /\ (~IsBoard(m) \/ x \notin R)
      <4>1. CASE GivesUp \/ Closes
        <5>1. pipe' = pipe
              BY <4>1 DEF GivesUp, Closes
        <5>2. Flow({}, {}, NoLine) /\ {} \in SUBSET Blocks /\ ~IsQuery(NoLine, y)
              BY <5>1 DEF Types, Flow, NoLine, IsQuery
        <5> QED BY <5>2, NoLineIs
      <4>2. CASE \E z, m : Tries(z, m)
        <5>1. PICK z, m : Tries(z, m)
              BY <4>2
        <5>2. m \in Lines /\ ~IsBoard(m) /\ ~IsQuery(m, y) /\ {z} \in SUBSET Blocks
              BY <5>1 DEF Tries, Lines, PutLines, IsBoard, IsQuery
        <5> QED BY <5>1, <5>2 DEF Tries
      <4>3. CASE Sends
        <5>1. Flow({}, {to}, Line(to)) /\ Line(to) \in Lines /\ {to} \in SUBSET Blocks
              BY <4>3 DEF Sends, Types
        <5>2. ~IsQuery(Line(to), y)
              BY <4>3, LineIs DEF Sends, Types, BoardLines, IsQuery
        <5>3. x \notin {to}
              BY <2>3, <4>3
        <5> QED BY <5>1, <5>2, <5>3
      <4> QED BY <1>2, <2>1, <4>1, <4>2, <4>3 DEF CoordinatorDoes
    <3>2. PICK R \in SUBSET Blocks, m \in Lines :
              Flow({}, R, m) /\ ~IsQuery(m, y) /\ (~IsBoard(m) \/ x \notin R)
          BY <3>1
    <3>3. LastBoard(x, i)'
          BY <1>2, <2>2, <3>2, OldInTime
    <3>4. /\ Was(x, {}, R, i) \in DOMAIN pipe[x]
          /\ pipe'[x][i] = pipe[x][Was(x, {}, R, i)]
      <4> DEFINE T == {}
      <4> HIDE DEF T
      <4>1. /\ Was(x, T, R, i) \in DOMAIN pipe[x]
            /\ pipe'[x][i] = pipe[x][Was(x, T, R, i)]
            BY <1>2, <3>2, FlowBack DEF T
      <4> QED BY <4>1 DEF T
    <3>5. ~Owed(x)
          BY <1>2, <2>2, <3>4
    <3> QED BY <2>1, <3>3, <3>5
  <2>4. CASE Sends /\ x = to
    <3> DEFINE m == Line(to)
               R == {to}
               T == {}
    <3>1. Flow(T, R, m) /\ m \in Lines /\ to \in Blocks
          BY <2>4 DEF Sends, Types
    <3>2. ~IsQuery(m, y) /\ (job = "quit" => ~IsBoard(m))
          BY <2>4, LineIs DEF Sends, Types, BoardLines, IsQuery, IsBoard
    <3>3. Was(x, T, R, i) \in DOMAIN pipe[x] /\ pipe'[x][i] = pipe[x][Was(x, T, R, i)]
      <4> HIDE DEF m, R, T
      <4> QED BY <1>2, <3>1, <3>2, FlowBack
    <3>4. ~Owed(x)
      <4> HIDE DEF m, R, T
      <4> QED BY <1>2, <2>2, <3>3
    <3>5. job = "quit"
      <4>1. to \in Nat
            BY FoodokuAssumption DEF FoodokuAssumption, Types, Blocks
      <4> QED BY <2>4, <3>4, <4>1 DEF Owed, Sends
    <3>6. LastBoard(x, i)'
      <4>1. ~IsBoard(m)
            BY <3>2, <3>5
      <4> HIDE DEF m, R, T
      <4> QED BY <1>2, <2>2, <3>1, <3>2, <4>1, OldInTime
    <3> QED BY <2>1, <3>4, <3>6
  <2> QED BY <2>3, <2>4
<1>3. \A y \in Blocks \ misread' : ~BoardComing(y)' =>
          \A x \in Blocks : \A i \in DOMAIN pipe'[x] : IsQuery(pipe'[x][i], y) =>
              ~Owed(x)' /\ LastBoard(x, i)'
      BY <1>1, <1>2 DEF Step
<1> QED BY <1>3 DEF AskedInTime, IsQuery

(* A put that ends well has a `no' from everybody. *)
LEMMA EndsPassed ==
    ASSUME Types, InHand, NEW b \in Blocks, NEW T, NEW next, Ends(b, T, next),
           b \notin misread', ~conflict'[b], NEW n \in 1..LastQuery
    PROVE  Passed(b, n) /\ Front(b).cmd = "answer" /\ T = {b}
<1>1. /\ ByAnswer(b, T, next) /\ pc[b] = "reading" /\ k[b] \in 1..LastQuery
      /\ next > LastQuery
      BY DEF Ends, GoesOn, ByMistake, ByEating, InHand
<1>2. /\ Front(b).cmd = "answer" /\ T = {b} /\ ~conflict[b] /\ ~Front(b).yes
      BY <1>1 DEF ByAnswer, AnswerLines
<1>3. pipe[b] # <<>>
      BY <1>2 DEF Ends, GoesOn
<1>4. next = k[b] + 1
      BY <1>1, <1>2 DEF ByAnswer, NextQuery
<1>5. LastQuery \in Nat
      BY FoodokuAssumption DEF FoodokuAssumption, LastQuery
<1>6. n < k[b] \/ n = k[b]
      BY <1>1, <1>4, <1>5
<1>7. \E i \in DOMAIN pipe[b] : pipe[b][i].cmd = "answer" /\ ~pipe[b][i].yes
      BY <1>2, <1>3, MovedUp
<1> QED BY <1>1, <1>2, <1>6, <1>7 DEF Passed

(* Block b answers no to the n-th question of y. *)
AnswersNo(b, y, n) ==
    /\ Answers(b) /\ IsQuery(Front(b), y) /\ Front(b) = Query(y, n, put[y])
    /\ Neighbours(y)[n] = b /\ ~Has(b, Front(b)) /\ pipe[b] # <<>>

(* Who has passed after a step had passed before, or is answered now. *)
LEMMA PassedBack ==
    ASSUME Types, InHand, Matched, NEW b \in Blocks, BlockDoes(b),
           NEW y \in Blocks \ misread', NEW n \in 1..LastQuery, Passed(y, n)'
    PROVE  /\ put'[y] = put[y] /\ (y = b => pc[b] = "reading" /\ B'[b] = B[b])
           /\ Passed(y, n) \/ (y # b /\ AnswersNo(b, y, n))
<1>0. PICK T \in {{}, {b}}, R \in SUBSET (Blocks \ {b}), m \in Lines :
          /\ Flow(T, R, m)
          /\ m.cmd \in {"r", "c", "answer", "q"}
          /\ m.cmd = "q" => R = {}
          /\ m.cmd \in {"r", "c"} => m.from = b
          /\ OnlyAnswers(b, T, R, m)
      BY BlockAnswers
<1>1. Frame(b) /\ misread \subseteq misread'
      BY BlockFlows
<1>2. y \in Blocks \ misread /\ OneQuestion(y) /\ OneAnswer(y)
      BY <1>1 DEF Matched
<1>3. /\ pc'[y] = "reading" /\ ~conflict'[y]
      /\ \/ n < k'[y]
         \/ /\ n = k'[y]
            /\ \E i \in DOMAIN pipe'[y] : pipe'[y][i].cmd = "answer" /\ ~pipe'[y][i].yes
      BY DEF Passed
<1>4. CASE y # b
  <2>1. /\ pc'[y] = pc[y] /\ conflict'[y] = conflict[y] /\ k'[y] = k[y] /\ put'[y] = put[y]
        BY <1>1, <1>4 DEF Frame
  <2>2. CASE n < k'[y]
        BY <1>3, <1>4, <2>1, <2>2 DEF Passed
  <2>3. ASSUME n = k'[y], NEW i \in DOMAIN pipe'[y], pipe'[y][i].cmd = "answer", ~pipe'[y][i].yes
        PROVE  Passed(y, n) \/ AnswersNo(b, y, n)
    <3>1. CASE /\ Was(y, T, R, i) \in DOMAIN pipe[y]
               /\ pipe'[y][i] = pipe[y][Was(y, T, R, i)]
          BY <1>3, <2>1, <2>3, <3>1 DEF Passed
    <3>2. CASE y \in R /\ pipe'[y][i] = m
      <4>1. Answers(b) /\ Front(b).from = y /\ m = Answer(b)
            BY <1>0, <2>3, <3>2 DEF OnlyAnswers
      <4>2. ~Has(b, Front(b))
            BY <2>3, <3>2, <4>1 DEF Answer
      <4>3. pipe[b] # <<>> /\ IsQuery(Front(b), y)
            BY <4>1 DEF Answers, Flow, QueryLines, IsQuery
      <4>4. 1 \in DOMAIN pipe[b] /\ pipe[b][1] = Front(b)
            BY <4>3, MovedUp
      <4>5. b = Neighbours(y)[k[y]] /\ Front(b) = Query(y, k[y], put[y])
            BY <1>2, <4>3, <4>4 DEF OneQuestion
      <4> QED BY <2>1, <2>3, <4>1, <4>2, <4>3, <4>5 DEF AnswersNo
    <3> QED BY <1>0, <3>1, <3>2, FlowBack
  <2> QED BY <1>3, <1>4, <2>1, <2>2, <2>3
<1>5. CASE y = b
  <2>1. CASE Loads(b) \/ Drops(b) \/ Answers(b)
        BY <1>3, <1>5, <2>1 DEF Loads, Drops, Answers
  <2>2. CASE Starts(b)
    <3>1. ~Contains(b, {"answer"}) /\ k'[b] = 1
          BY <1>2, <1>5, <2>2, NothingUnderWay DEF Starts, AtMain
    <3>2. ~Contains(b, {"answer"})'
          BY <1>0, <3>1, FlowContains
    <3> QED BY <1>3, <1>5, <3>1, <3>2 DEF Contains
  <2>3. ASSUME NEW T2 \in {{}, {b}}, NEW next, Asks(b, T2, next)
        PROVE  /\ put'[y] = put[y] /\ pc[b] = "reading" /\ B'[b] = B[b]
               /\ Passed(y, n)
    <3>1. /\ GoesOn(b, T2, next) /\ put[b] \in PutLines /\ pc[b] = "reading"
          /\ k'[b] = next /\ put'[b] = put[b] /\ B'[b] = B[b]
          BY <2>3 DEF Asks, GoesOn, InHand
    <3>2. ByAnswer(b, T2, next) /\ pipe[b] # <<>>
          BY <1>5, <3>1 DEF GoesOn, ByAnswer, ByMistake, ByEating
    <3>3. Front(b).cmd = "answer" /\ T2 = {b} /\ ~conflict[b] /\ ~Front(b).yes
          BY <1>3, <1>5, <3>2 DEF ByAnswer, AnswerLines
    <3>4. next = k[b] + 1
          BY <3>2, <3>3 DEF ByAnswer, NextQuery
    <3>5. ~Contains(b, {"answer"})'
          BY <1>2, <1>5, <2>3, <3>1, <3>3, QueryIs, AnswerGone DEF Asks
    <3>6. n < k[b] \/ n = k[b]
      <4>1. n < next
            BY <1>3, <1>5, <3>1, <3>5 DEF Contains
      <4>2. k[b] \in Nat
            BY FoodokuAssumption DEF Types, FoodokuAssumption, LastQuery
      <4> QED BY <3>4, <4>1, <4>2
    <3>7. \E i \in DOMAIN pipe[b] : pipe[b][i].cmd = "answer" /\ ~pipe[b][i].yes
          BY <3>2, <3>3, MovedUp
    <3> QED BY <1>5, <3>1, <3>3, <3>6, <3>7 DEF Passed
  <2>4. ASSUME NEW T2, NEW next, Ends(b, T2, next) PROVE FALSE
        BY <1>3, <1>5, <2>4 DEF Ends
  <2> QED BY <1>5, <2>1, <2>2, <2>3, <2>4, <1>3 DEF BlockDoes
<1> QED BY <1>4, <1>5

(* What is known of two neighbours, both ways. *)
LEMMA BothWays ==
    ASSUME Pairs, NEW b1 \in Blocks \ misread, NEW b2 \in Blocks \ misread,
           NEW n \in 1..LastQuery, Neighbours(b1)[n] = b2
    PROVE  /\ b1 # b2
           /\ Apart(b1, n, b2) /\ Free(b1, n, b2) /\ OneOfTwo(b1, n, b2) /\ NotYet(b1, n, b2)
           /\ \E n2 \in 1..LastQuery :
                /\ Neighbours(b2)[n2] = b1 /\ (n2 < Height <=> n < Height)
                /\ Free(b2, n2, b1) /\ NotYet(b2, n2, b1)
                /\ \A c1, c2 : SameLine(n, c1, c2) <=> SameLine(n2, c2, c1)
<1>1. b1 # b2
      BY NeighbourOf
<1>2. PICK n2 \in 1..LastQuery : Neighbours(b2)[n2] = b1 /\ (n2 < Height <=> n < Height)
      BY Mutual
<1>3. \A c1, c2 : SameLine(n, c1, c2) <=> SameLine(n2, c2, c1)
      BY <1>2 DEF SameLine
<1> QED BY <1>1, <1>2, <1>3 DEF Pairs

(* What changes the contents of a block that has misread nothing. *)
LEMMA ContentsChange ==
    ASSUME Types, InHand, BoardsComing, NEW b \in Blocks, BlockDoes(b), NEW y \in Blocks \ misread'
    PROVE  \/ B'[y] = B[y] /\ (BoardComing(y) => BoardComing(y)')
           \/ y = b /\ Loads(b) /\ BoardComing(b) /\ ~BoardComing(b)' /\ B'[b] = Current(b)
              /\ pc'[b] = "main"
           \/ y = b /\ BoardComing(b)' /\ BoardComing(b)
           \/ /\ y = b /\ (BoardComing(b)' <=> BoardComing(b)) /\ pc[b] = "reading" /\ pc'[b] = "main"
              /\ B'[b] = [B[b] EXCEPT ![put[b].cell] = put[b].digit]
              /\ \A n \in 1..LastQuery : Passed(b, n)
<1>1. Frame(b)
      BY BlockFlows
<1>2. /\ BoardComing(y)' => BoardComing(y)
      /\ BoardComing(y) => BoardComing(y)' \/ (y = b /\ Loads(b))
      BY ComingBlock DEF EatsBoard
<1>3. CASE y # b
      BY <1>1, <1>2, <1>3 DEF Frame
<1>4. CASE y = b /\ Loads(b)
  <2>1. CASE BoardComing(b)'
        BY <1>2, <1>4, <2>1
  <2>2. CASE ~BoardComing(b)'
        BY <1>4, <2>2, LoadsCurrent DEF Loads
  <2> QED BY <2>1, <2>2
<1>5. CASE y = b /\ ~Loads(b) /\ B'[b] = B[b]
      BY <1>2, <1>5
<1>6. CASE y = b /\ ~Loads(b) /\ B'[b] # B[b]
  <2>1. PICK T \in {{}, {b}}, next \in Nat : Ends(b, T, next)
        BY <1>6 DEF BlockDoes, Drops, Starts, Answers, Asks
  <2>2. /\ ~conflict'[b] /\ B'[b] = [B[b] EXCEPT ![put[b].cell] = put[b].digit]
        /\ pc[b] = "reading" /\ pc'[b] = "main"
        BY <1>6, <2>1 DEF Ends, GoesOn
  <2>3. \A n \in 1..LastQuery : Passed(b, n)
        BY <1>6, <2>1, <2>2, EndsPassed
  <2> QED BY <1>2, <1>6, <2>2, <2>3
<1> QED BY <1>3, <1>4, <1>5, <1>6

(* ... and how it has come by the board that it has after a step.          *)
LEMMA ContentsAfter ==
    ASSUME Types, InHand, BoardsComing, NEW b \in Blocks, BlockDoes(b),
           NEW y \in Blocks \ misread', ~BoardComing(y)'
    PROVE  \/ B'[y] = B[y] /\ ~BoardComing(y)
           \/ y = b /\ Loads(y) /\ BoardComing(y) /\ B'[y] = Current(y)
           \/ /\ y = b /\ ~BoardComing(y)
              /\ B'[y] = [B[y] EXCEPT ![put[y].cell] = put[y].digit]
              /\ \A i \in 1..LastQuery : Passed(y, i)
<1>1. CASE B'[y] = B[y] /\ (BoardComing(y) => BoardComing(y)')
      BY <1>1
<1>2. CASE y = b /\ Loads(b) /\ BoardComing(b) /\ B'[b] = Current(b)
      BY <1>2
<1>3. CASE y = b /\ BoardComing(b)' /\ BoardComing(b)
      BY <1>3
<1>4. CASE /\ y = b /\ (BoardComing(b)' <=> BoardComing(b))
           /\ B'[b] = [B[b] EXCEPT ![put[b].cell] = put[b].digit]
           /\ \A n \in 1..LastQuery : Passed(b, n)
  <2>1. ~BoardComing(b)
        BY <1>4
  <2> QED BY <1>4, <2>1
<1> QED BY <1>1, <1>2, <1>3, <1>4, ContentsChange

(* The boards of neighbours, once loaded, are apart. *)
LEMMA ApartNext ==
    ASSUME Types, InHand, BoardsComing, Pairs, NEW b \in Blocks, BlockDoes(b),
           NEW b1 \in Blocks \ misread', NEW b2 \in Blocks \ misread',
           NEW n \in 1..LastQuery, Neighbours(b1)[n] = b2
    PROVE  Apart(b1, n, b2)'
<1>1. misread \subseteq misread'
      BY BlockFlows
<1>2. /\ b1 \in Blocks \ misread /\ b2 \in Blocks \ misread /\ b1 # b2
      /\ Apart(b1, n, b2) /\ Free(b1, n, b2) /\ NotYet(b1, n, b2)
      BY <1>1, BothWays
<1>3. PICK n2 \in 1..LastQuery :
          /\ Neighbours(b2)[n2] = b1 /\ (n2 < Height <=> n < Height)
          /\ Free(b2, n2, b1) /\ NotYet(b2, n2, b1)
          /\ \A c1, c2 : SameLine(n, c1, c2) <=> SameLine(n2, c2, c1)
      BY <1>1, BothWays
<1> SUFFICES ASSUME ~BoardComing(b1)', ~BoardComing(b2)', NEW c1 \in Cells, NEW c2 \in Cells,
                    SameLine(n, c1, c2), B'[b1][c1] = B'[b2][c2]
             PROVE  B'[b1][c1] = 0
    BY DEF Apart, SameLine
<1>4. InLine(b1, c1, b2, c2)
      BY IsInLine
<1>5. InLine(b2, c2, b1, c1)
      BY <1>4 DEF InLine
<1>6. B \in Boards
      BY DEF Types
<1>7. CASE B'[b1] = B[b1] /\ ~BoardComing(b1)
  <2>1. CASE B'[b2] = B[b2] /\ ~BoardComing(b2)
        BY <1>2, <1>7, <2>1 DEF Apart
  <2>2. CASE Loads(b2) /\ BoardComing(b2) /\ B'[b2] = Current(b2)
    <3>1. B'[b1] = Current(b1)
          BY <1>2, <1>7, <2>2 DEF NotYet
    <3> QED BY <1>2, <1>4, <2>2, <3>1, CurrentFits
  <2>3. CASE /\ ~BoardComing(b2) /\ B'[b2] = [B[b2] EXCEPT ![put[b2].cell] = put[b2].digit]
             /\ \A i \in 1..LastQuery : Passed(b2, i)
    <3>1. CASE c2 = put[b2].cell
      <4>1. B[b1][c1] # put[b2].digit
            BY <1>3, <1>7, <2>3, <3>1 DEF Free
      <4>2. B'[b2][c2] = put[b2].digit
            BY <1>2, <1>6, <2>3, <3>1 DEF Boards
      <4> QED BY <1>7, <4>1, <4>2
    <3>2. CASE c2 # put[b2].cell
      <4>1. B'[b2][c2] = B[b2][c2]
            BY <1>2, <1>6, <2>3, <3>2 DEF Boards
      <4> QED BY <1>2, <1>7, <2>3, <4>1 DEF Apart
    <3> QED BY <3>1, <3>2
  <2> QED BY <1>2, <2>1, <2>2, <2>3, ContentsAfter
<1>8. CASE /\ b1 = b /\ (~BoardComing(b2) /\ B'[b2] = B[b2])
           /\ \/ Loads(b1) /\ BoardComing(b1) /\ B'[b1] = Current(b1)
              \/ /\ ~BoardComing(b1)
                 /\ B'[b1] = [B[b1] EXCEPT ![put[b1].cell] = put[b1].digit]
                 /\ \A i \in 1..LastQuery : Passed(b1, i)
  <2>1. CASE BoardComing(b1) /\ B'[b1] = Current(b1)
    <3>1. B'[b2] = Current(b2)
          BY <1>3, <1>8, <2>1 DEF NotYet
    <3> QED BY <1>2, <1>4, <2>1, <3>1, CurrentFits
  <2>2. CASE /\ ~BoardComing(b1) /\ B'[b1] = [B[b1] EXCEPT ![put[b1].cell] = put[b1].digit]
             /\ Passed(b1, n)
    <3>1. CASE c1 = put[b1].cell
      <4>1. B[b2][c2] # put[b1].digit
            BY <1>2, <1>8, <2>2, <3>1 DEF Free
      <4>2. B'[b1][c1] = put[b1].digit
            BY <1>2, <1>6, <2>2, <3>1 DEF Boards
      <4> QED BY <1>8, <4>1, <4>2
    <3>2. CASE c1 # put[b1].cell
      <4>1. B'[b1][c1] = B[b1][c1]
            BY <1>2, <1>6, <2>2, <3>2 DEF Boards
      <4> QED BY <1>2, <1>8, <2>2, <4>1 DEF Apart
    <3> QED BY <3>1, <3>2
  <2> QED BY <1>8, <2>1, <2>2
<1>9. CASE b1 = b
  <2>1. ~BoardComing(b2) /\ B'[b2] = B[b2]
        BY <1>2, <1>9, ContentsAfter
  <2> QED BY <1>2, <1>7, <1>8, <1>9, <2>1, ContentsAfter
<1>10. CASE b1 # b
  <2>1. ~BoardComing(b1) /\ B'[b1] = B[b1]
        BY <1>2, <1>10, ContentsAfter
  <2> QED BY <1>7, <2>1
<1> QED BY <1>9, <1>10

(* Who has passed does not meet the digit. *)
LEMMA FreeNext ==
    ASSUME Types, InHand, BoardsComing, Matched, Pairs, NEW b \in Blocks, BlockDoes(b),
           NEW b1 \in Blocks \ misread', NEW b2 \in Blocks \ misread',
           NEW n \in 1..LastQuery, Neighbours(b1)[n] = b2
    PROVE  Free(b1, n, b2)'
<1>1. misread \subseteq misread'
      BY BlockFlows
<1>2. /\ b1 \in Blocks \ misread /\ b2 \in Blocks \ misread /\ b1 # b2
      /\ Free(b1, n, b2) /\ OneOfTwo(b1, n, b2) /\ NotYet(b1, n, b2)
      BY <1>1, BothWays
<1>3. PICK n2 \in 1..LastQuery : Neighbours(b2)[n2] = b1
      BY <1>1, BothWays
<1> SUFFICES ASSUME ~BoardComing(b1)', ~BoardComing(b2)', Passed(b1, n)',
                    NEW c2 \in Cells, SameLine(n, put'[b1].cell, c2)
             PROVE  B'[b2][c2] # put'[b1].digit
    BY DEF Free, SameLine
<1>4. /\ put'[b1] = put[b1] /\ (b1 = b => pc[b] = "reading")
      /\ Passed(b1, n) \/ (b1 # b /\ AnswersNo(b, b1, n))
      BY PassedBack
<1>5. ~BoardComing(b1)
      BY <1>4, ContentsChange DEF Loads, AtMain
<1>6. CASE Passed(b1, n)
  <2>1. ~BoardComing(b2)
        BY <1>2, <1>5, <1>6 DEF NotYet
  <2>2. ~Passed(b2, n2)
        BY <1>2, <1>3, <1>6 DEF OneOfTwo
  <2>3. B'[b2] = B[b2]
        BY <2>1, <2>2, ContentsChange
  <2> QED BY <1>2, <1>4, <1>5, <1>6, <2>1, <2>3 DEF Free
<1>7. CASE AnswersNo(b, b1, n)
  <2>1. /\ b2 = b /\ Front(b) = Query(b1, n, put[b1]) /\ ~Has(b, Front(b)) /\ B'[b] = B[b]
        /\ Front(b).cmd \in {"r", "c"}
        BY <1>7 DEF AnswersNo, Answers, IsQuery
  <2>2. Front(b) = IF n < Height
                   THEN [cmd |-> "r", line |-> RowIn(put[b1].cell), digit |-> put[b1].digit, from |-> b1]
                   ELSE [cmd |-> "c", line |-> ColIn(put[b1].cell), digit |-> put[b1].digit, from |-> b1]
        BY <2>1 DEF Query
  <2>3. CASE n < Height
        BY <1>4, <2>1, <2>2, <2>3 DEF Has, SameLine
  <2>4. CASE ~(n < Height)
        BY <1>4, <2>1, <2>2, <2>4 DEF Has, SameLine
  <2> QED BY <2>3, <2>4
<1> QED BY <1>4, <1>6, <1>7

(* Of two neighbours one has not passed the other. *)
LEMMA OneOfTwoNext ==
    ASSUME Types, InHand, Matched, Pairs, NEW b \in Blocks, BlockDoes(b),
           NEW b1 \in Blocks \ misread', NEW b2 \in Blocks \ misread',
           NEW n \in 1..LastQuery, Neighbours(b1)[n] = b2
    PROVE  OneOfTwo(b1, n, b2)'
<1>1. misread \subseteq misread' /\ Frame(b)
      BY BlockFlows
<1>2. OneOfTwo(b1, n, b2) /\ b1 # b2
      BY <1>1, BothWays
<1>3. \A y \in Blocks : Neighbours(y)' = Neighbours(y)
      BY <1>1 DEF Frame, Neighbours, getRowNeighbors, getColNeighbors
<1> SUFFICES ASSUME Passed(b1, n)', NEW n2 \in 1..LastQuery, Neighbours(b2)[n2] = b1,
                    Passed(b2, n2)'
             PROVE  FALSE
    BY <1>3 DEF OneOfTwo
<1>4. Passed(b1, n) \/ AnswersNo(b, b1, n)
      BY PassedBack
<1>5. Passed(b2, n2) \/ AnswersNo(b, b2, n2)
      BY PassedBack
<1>6. ~AnswersNo(b, b1, n)
  <2>1. AnswersNo(b, b1, n) => b = b2 /\ pc'[b] = "main"
        BY DEF AnswersNo, Answers
  <2> QED BY <2>1 DEF Passed
<1>7. ~AnswersNo(b, b2, n2)
  <2>1. AnswersNo(b, b2, n2) => b = b1 /\ pc'[b] = "main"
        BY DEF AnswersNo, Answers
  <2> QED BY <2>1 DEF Passed
<1> QED BY <1>2, <1>4, <1>5, <1>6, <1>7 DEF OneOfTwo

(* Who has the board has not passed who is still to load it. *)
LEMMA NotYetNext ==
    ASSUME Types, InHand, BoardsComing, Matched, AskedInTime, Pairs,
           NEW b \in Blocks, BlockDoes(b),
           NEW b1 \in Blocks \ misread', NEW b2 \in Blocks \ misread',
           NEW n \in 1..LastQuery, Neighbours(b1)[n] = b2
    PROVE  NotYet(b1, n, b2)'
<1>1. misread \subseteq misread'
      BY BlockFlows
<1>2. b1 \in Blocks \ misread /\ b1 # b2 /\ NotYet(b1, n, b2)
      BY <1>1, BothWays
<1> SUFFICES ASSUME ~BoardComing(b1)', BoardComing(b2)'
             PROVE  B'[b1] = Current(b1)' /\ ~Passed(b1, n)'
    BY DEF NotYet
<1>3. BoardComing(b2) /\ Current(b1)' = Current(b1)
      BY ComingBlock
<1>4. CASE BoardComing(b1)
  <2>1. B'[b1] = Current(b1) /\ b1 = b /\ pc'[b] = "main"
        BY <1>4, ContentsChange
  <2> QED BY <1>3, <2>1 DEF Passed
<1>5. CASE ~BoardComing(b1)
  <2>1. B[b1] = Current(b1) /\ ~Passed(b1, n)
        BY <1>2, <1>3, <1>5 DEF NotYet
  <2>2. B'[b1] = B[b1]
        BY <1>5, <2>1, ContentsChange
  <2>3. ~AnswersNo(b, b1, n)
    <3> SUFFICES ASSUME AnswersNo(b, b1, n) PROVE FALSE
        OBVIOUS
    <3>1. b = b2 /\ IsQuery(Front(b), b1) /\ 1 \in DOMAIN pipe[b] /\ pipe[b][1] = Front(b)
          BY MovedUp DEF AnswersNo
    <3>2. ~Owed(b) /\ LastBoard(b, 1)
          BY <1>2, <1>5, <3>1 DEF AskedInTime
    <3>3. ASSUME NEW j \in DOMAIN pipe[b], IsBoard(pipe[b][j]) PROVE FALSE
      <4>1. j \in Nat \ {0}
            BY LineAt
      <4>2. j # 1
            BY <3>1, <3>3 DEF IsBoard, IsQuery
      <4> QED BY <3>2, <3>3, <4>1, <4>2 DEF LastBoard
    <3>4. ~BoardComing(b)
          BY <3>2, <3>3 DEF BoardComing, Owed, IsBoard
    <3> QED BY <1>3, <3>1, <3>4
  <2>4. ~Passed(b1, n)'
        BY <2>1, <2>3, PassedBack
  <2> QED BY <1>3, <2>1, <2>2, <2>4
<1> QED BY <1>4, <1>5

(* Any two neighbours. *)
LEMMA PairsNext ==
    ASSUME Types, InHand, BoardsComing, Matched, AskedInTime, Pairs, Step
    PROVE  Pairs'
<1>1. ASSUME NEW b \in Blocks, BlockDoes(b) PROVE Pairs'
  <2>1. \A y \in Blocks : Neighbours(y)' = Neighbours(y)
    <3>1. Frame(b)
          BY <1>1, BlockFlows
    <3> QED BY <3>1 DEF Frame, Neighbours, getRowNeighbors, getColNeighbors
  <2> SUFFICES ASSUME NEW b1 \in Blocks \ misread', NEW b2 \in Blocks \ misread',
                      NEW n \in 1..LastQuery, Neighbours(b1)[n] = b2
               PROVE  /\ Apart(b1, n, b2)' /\ Free(b1, n, b2)'
                      /\ OneOfTwo(b1, n, b2)' /\ NotYet(b1, n, b2)'
      BY <2>1 DEF Pairs
  <2> QED BY <1>1, ApartNext, FreeNext, OneOfTwoNext, NotYetNext
<1>2. ASSUME CoordinatorDoes PROVE Pairs'
  <2>1. BlocksIdle
        BY <1>2, CoordinatorFlows
  <2>2. \A y \in Blocks : Neighbours(y)' = Neighbours(y)
        BY <2>1 DEF BlocksIdle, Neighbours, getRowNeighbors, getColNeighbors
  <2> SUFFICES ASSUME NEW b1 \in Blocks \ misread, NEW b2 \in Blocks \ misread,
                      NEW n \in 1..LastQuery, Neighbours(b1)[n] = b2
               PROVE  /\ Apart(b1, n, b2)' /\ Free(b1, n, b2)'
                      /\ OneOfTwo(b1, n, b2)' /\ NotYet(b1, n, b2)'
      BY <2>1, <2>2 DEF Pairs, BlocksIdle
  <2>3. Apart(b1, n, b2) /\ Free(b1, n, b2) /\ OneOfTwo(b1, n, b2) /\ NotYet(b1, n, b2)
        BY BothWays
  <2>4. \A y \in Blocks : \A i \in 1..LastQuery : Passed(y, i)' => Passed(y, i)
    <3> SUFFICES ASSUME NEW y \in Blocks, NEW i \in 1..LastQuery, Passed(y, i)'
                 PROVE  Passed(y, i)
        OBVIOUS
    <3>1. PICK R \in SUBSET Blocks, m \in Lines :
              Flow({}, R, m) /\ m.cmd \in {"n", "s", "p", "q"}
          BY <1>2, CoordinatorFlows
    <3>2. ASSUME NEW j \in DOMAIN pipe'[y], pipe'[y][j].cmd = "answer", ~pipe'[y][j].yes
          PROVE  \E j2 \in DOMAIN pipe[y] : pipe[y][j2].cmd = "answer" /\ ~pipe[y][j2].yes
      <4> DEFINE T == {}
      <4> HIDE DEF T
      <4>1. pipe'[y][j] # m
            BY <3>1, <3>2
      <4>2. \E w \in DOMAIN pipe[y] : pipe'[y][j] = pipe[y][w]
            BY <3>1, <4>1, FlowBack DEF T
      <4> QED BY <3>2, <4>2
    <3> QED BY <2>1, <3>2 DEF Passed, BlocksIdle
  <2>5. OneOfTwo(b1, n, b2)'
        BY <2>2, <2>3, <2>4 DEF OneOfTwo
  <2>6. CASE Announces
    <3>1. BoardComing(b1)' /\ BoardComing(b2)'
          BY <1>2, <2>6, ComingCoordinator
    <3> QED BY <2>5, <3>1 DEF Apart, Free, NotYet
  <2>7. CASE ~Announces
    <3>1. /\ BoardComing(b1)' <=> BoardComing(b1)
          /\ BoardComing(b2)' <=> BoardComing(b2)
          /\ Current(b1)' = Current(b1)
          BY <1>2, <2>7, ComingCoordinator
    <3>2. Apart(b1, n, b2)'
          BY <2>1, <2>3, <3>1 DEF Apart, BlocksIdle, SameLine
    <3>3. Free(b1, n, b2)'
          BY <2>1, <2>3, <2>4, <3>1 DEF Free, BlocksIdle, SameLine
    <3>4. NotYet(b1, n, b2)'
          BY <2>1, <2>3, <2>4, <3>1 DEF NotYet, BlocksIdle
    <3> QED BY <2>5, <3>2, <3>3, <3>4
  <2> QED BY <2>6, <2>7
<1> QED BY <1>1, <1>2 DEF Step

-----------------------------------------------------------------------------
(* The theorems *)

(* The invariant holds at the start, ... *)
LEMMA InvInit == Init => Inv
<1> SUFFICES ASSUME Init PROVE Inv
    OBVIOUS
<1>1. /\ version \in {"student", "instructor"} /\ puzzle = None /\ job = "prompt" /\ to = 0
      /\ left = MaxCommands /\ ~solved /\ misread = {} /\ eaten = {}
      /\ pipe = [b \in Blocks |-> <<>>] /\ pc = [b \in Blocks |-> "main"]
      /\ A = [b \in Blocks |-> [c \in Cells |-> 0]] /\ B = A
      /\ put = [b \in Blocks |-> None] /\ k = [b \in Blocks |-> 0]
      /\ conflict = [b \in Blocks |-> FALSE] /\ solved = FALSE
      BY DEF Init
<1>2. /\ 0 \in Blocks /\ 0 \in 0..LastQuery /\ MaxCommands \in Nat
      BY FoodokuAssumption DEF FoodokuAssumption, Blocks, LastQuery
<1>3. Types
  <2>1. A \in Boards /\ B \in Boards
        BY <1>1 DEF Boards
  <2>2. pipe \in [Blocks -> Seq(Lines)]
        BY <1>1
  <2>3. /\ pc \in [Blocks -> {"main", "reading", "exited"}]
        /\ put \in [Blocks -> PutLines \cup {None}] /\ k \in [Blocks -> 0..LastQuery]
        /\ conflict \in [Blocks -> BOOLEAN]
        BY <1>1, <1>2
  <2> QED BY <1>1, <1>2, <2>1, <2>2, <2>3 DEF Types
<1>4. \A b \in Blocks : pipe[b] = <<>> /\ pc[b] = "main" /\ B[b] = [c \in Cells |-> 0]
      BY <1>1
<1>5. \A b \in Blocks : DOMAIN pipe[b] = {}
      BY <1>4
<1>6. InHand /\ Addressed /\ Waits /\ BoardsComing
      BY <1>1, <1>4, <1>5 DEF InHand, Addressed, Waits, BoardsComing
<1>7. Quits
      BY <1>1, <1>4, <1>5 DEF Quits, QuitSent, BoardSent, Contains
<1>8. Shown /\ OwnBlock
      BY <1>1, <1>4 DEF Shown, OwnBlock, NoTwins
<1>9. Matched /\ AskedInTime
      BY <1>5 DEF Matched, OneQuestion, OneAnswer, AskedInTime
<1>10. \A b \in Blocks : ~BoardComing(b) /\ \A n \in 1..LastQuery : ~Passed(b, n)
       BY <1>1, <1>4, <1>5 DEF BoardComing, Passed
<1>11. Pairs
  <2> SUFFICES ASSUME NEW b1 \in Blocks, NEW b2 \in Blocks, NEW n \in 1..LastQuery
               PROVE  /\ Apart(b1, n, b2) /\ Free(b1, n, b2)
                      /\ OneOfTwo(b1, n, b2) /\ NotYet(b1, n, b2)
      BY DEF Pairs
  <2>1. Apart(b1, n, b2)
        BY <1>4 DEF Apart
  <2>2. Free(b1, n, b2) /\ OneOfTwo(b1, n, b2) /\ NotYet(b1, n, b2)
        BY <1>10 DEF Free, OneOfTwo, NotYet
  <2> QED BY <2>1, <2>2
<1> QED BY <1>3, <1>6, <1>7, <1>8, <1>9, <1>11 DEF Inv

(* ... and every step preserves it. *)
LEMMA InvNext == Inv /\ [Next]_vars => Inv'
<1> SUFFICES ASSUME Inv, [Next]_vars PROVE Inv'
    OBVIOUS
<1>0. /\ Types /\ InHand /\ Addressed /\ Waits /\ Quits /\ BoardsComing /\ Shown
      /\ OwnBlock /\ Matched /\ AskedInTime /\ Pairs
      BY DEF Inv
<1>1. CASE Next
  <2>1. Step
        BY <1>0, <1>1, StepEffects DEF Step, CoordinatorDoes
  <2>2. Types' /\ InHand' /\ Addressed' /\ Waits'
        BY <1>0, <2>1, TypesNext, InHandNext, AddressedNext, WaitsNext
  <2>3. Quits' /\ BoardsComing' /\ Shown' /\ OwnBlock'
        BY <1>0, <2>1, QuitsNext, BoardsComingNext, ShownNext, OwnBlockNext
  <2>4. Matched' /\ AskedInTime' /\ Pairs'
        BY <1>0, <2>1, MatchedNext, AskedInTimeNext, PairsNext
  <2> QED BY <2>2, <2>3, <2>4 DEF Inv
<1>2. CASE UNCHANGED vars
  <2> USE <1>0, <1>2 DEF vars, coordinator, asking
  <2>1. Types' /\ InHand' /\ Addressed'
        BY DEF Types, InHand, Addressed
  <2>2. Waits'
        BY DEF Waits, Asked, Contains, QuestionEaten, IsQuery
  <2>3. Quits'
        BY DEF Quits, QuitSent, BoardSent, Behind, Contains
  <2>4. BoardsComing' /\ OwnBlock'
        BY DEF BoardsComing, OwnBlock, IsBoard, Owed, LastBoard, Current, NoTwins
  <2>5. Shown'
        BY DEF Shown, BoardComing
  <2>0. \A b \in Blocks : Neighbours(b)' = Neighbours(b)
        BY DEF Neighbours, getRowNeighbors, getColNeighbors
  <2>6. Matched'
    <3>1. ASSUME NEW b \in Blocks \ misread PROVE OneQuestion(b)' /\ OneAnswer(b)'
      <4>1. OneQuestion(b) /\ OneAnswer(b) /\ Neighbours(b)' = Neighbours(b)
            BY <2>0 DEF Matched
      <4>2. OneQuestion(b)'
            BY <4>1 DEF OneQuestion, IsQuery, Contains, Query
      <4>3. OneAnswer(b)'
            BY <4>1 DEF OneAnswer
      <4> QED BY <4>2, <4>3
    <3> QED BY <3>1 DEF Matched
  <2>7. AskedInTime'
        BY DEF AskedInTime, BoardComing, Owed, LastBoard, IsBoard, IsQuery
  <2>8. Pairs'
    <3> SUFFICES ASSUME NEW b1 \in Blocks \ misread, NEW b2 \in Blocks \ misread,
                        NEW n \in 1..LastQuery, Neighbours(b1)[n] = b2
                 PROVE  /\ Apart(b1, n, b2)' /\ Free(b1, n, b2)'
                        /\ OneOfTwo(b1, n, b2)' /\ NotYet(b1, n, b2)'
        BY <2>0 DEF Pairs
    <3>1. Apart(b1, n, b2) /\ Free(b1, n, b2) /\ OneOfTwo(b1, n, b2) /\ NotYet(b1, n, b2)
          BY DEF Pairs
    <3>2. Apart(b1, n, b2)' /\ Free(b1, n, b2)'
          BY <3>1 DEF Apart, Free, BoardComing, Passed, SameLine
    <3>3. OneOfTwo(b1, n, b2)'
          BY <2>0, <3>1 DEF OneOfTwo, Passed
    <3>4. NotYet(b1, n, b2)'
          BY <3>1 DEF NotYet, BoardComing, Current, Passed
    <3> QED BY <3>2, <3>3, <3>4
  <2> QED BY <2>1, <2>2, <2>3, <2>4, <2>5, <2>6, <2>7, <2>8 DEF Inv
<1> QED BY <1>1, <1>2

(* The variables have their types, and blocks that have misread nothing    *)
(* ask and answer in turn: the inductive invariant.                        *)
THEOREM Invariance == Spec => []Inv
BY InvInit, InvNext, PTL DEF Spec

(* When nothing moves, only those wait whose question was thrown away.     *)
LEMMA InvWaits == Inv => NobodyWaitsInVain
<1> SUFFICES ASSUME Inv, NothingMoves, NEW b \in Blocks, pc[b] = "reading"
             PROVE  QuestionEaten(b)
    BY DEF NobodyWaitsInVain
<1>1. Types /\ Waits /\ Quits
      BY DEF Inv
<1>2. Asked(b) \/ Contains(b, {"answer"}) \/ QuestionEaten(b)
      BY <1>1 DEF Waits
<1>3. pipe[b] = <<>>
      BY DEF NothingMoves
<1>4. ~Contains(b, {"answer"}) /\ ~Contains(b, {"q"})
      BY <1>3 DEF Contains
<1>5. ~QuitSent(b)
      BY <1>1, <1>4 DEF Quits, Behind
<1>6. job = "prompt"
      BY <1>5 DEF QuitSent, NothingMoves
<1>7. \A x \in Blocks : pipe[x] = <<>>
  <2> SUFFICES ASSUME NEW x \in Blocks PROVE pipe[x] = <<>>
      OBVIOUS
  <2>1. ~QuitSent(x)
        BY <1>6 DEF QuitSent
  <2> QED BY <1>1, <2>1 DEF Quits, NothingMoves
<1>8. ~Asked(b)
      BY <1>7 DEF Asked
<1> QED BY <1>2, <1>4, <1>8

(* Nobody waits for an answer in vain, though blocks ask one another while *)
(* they wait themselves and may exit before they answer, unless the        *)
(* question was thrown away.                                               *)
THEOREM WaitersServed == Spec => []NobodyWaitsInVain
BY Invariance, InvWaits, PTL

(* The invariant says that the solution stays. *)
LEMMA InvSolution == Inv => SolutionStays
BY DEF Inv, Shown, SolutionStays

(* The solution, once shown by a block, stays until the next game.         *)
THEOREM SolutionKept == Spec => []SolutionStays
BY Invariance, InvSolution, PTL

(* The invariant says that blocks do not clash. *)
LEMMA InvClash == Inv => NoClashUnlessMisread
<1> SUFFICES ASSUME Inv, \A b \in Blocks : ~BoardComing(b),
                    NEW b1 \in Blocks \ misread, NEW c1 \in Cells,
                    NEW b2 \in Blocks \ misread, NEW c2 \in Cells,
                    B[b1][c1] # 0, Clash(B, b1, c1, b2, c2)
             PROVE  FALSE
    BY DEF NoClashUnlessMisread
<1>1. OwnBlock /\ Pairs
      BY DEF Inv
<1>2. /\ <<b1, c1>> # <<b2, c2>> /\ InLine(b1, c1, b2, c2) /\ B[b1][c1] = B[b2][c2]
      BY DEF Clash
<1>3. CASE b1 = b2
      BY <1>1, <1>2, <1>3 DEF OwnBlock, NoTwins
<1>4. CASE b1 # b2
  <2>1. PICK n \in 1..LastQuery : Neighbours(b1)[n] = b2 /\ SameLine(n, c1, c2)
        BY <1>2, <1>4, InLineIs
  <2>2. Apart(b1, n, b2)
        BY <1>1, <2>1 DEF Pairs
  <2> QED BY <1>2, <2>1, <2>2 DEF Apart
<1> QED BY <1>3, <1>4

(* Two blocks that have never misread an answer show no digit twice in a   *)
(* row, a column or a block, however their puts and those of others were   *)
(* interleaved.                                                            *)
THEOREM NoClash == Spec => []NoClashUnlessMisread
BY Invariance, InvClash, PTL
=============================================================================
