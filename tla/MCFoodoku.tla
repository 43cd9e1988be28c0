----------------------------- MODULE MCFoodoku ------------------------------
(* Values for the constants of Foodoku.                                     *)
EXTENDS Foodoku

(* A solution in which every row is the one above shifted. *)
Solution ==
    [b \in Blocks |-> [c \in Cells |->
        LET row == (b \div Height) * Height + RowIn(c)
            col == (b % Height) * Width + ColIn(c)
        IN  ((col + (row % Height) * Width + (row \div Height)) % (Height * Width)) + 1]]

(* The first cell of block 2 is given. *)
OnePuzzle ==
    {[S |-> Solution,
      A |-> [b \in Blocks |-> [c \in Cells |-> IF b = 2 /\ c = 0 THEN Solution[b][c] ELSE 0]]]}

(* The same digit in one row (blocks 0 and 1) and in one column (blocks 1  *)
(* and 3), and another for block 0.                                        *)
SomePuts ==
    {[block |-> 0, cell |-> 1, digit |-> 1], [block |-> 1, cell |-> 0, digit |-> 1],
     [block |-> 3, cell |-> 2, digit |-> 1]}
=============================================================================
