---------------------------- MODULE PagedSearch -----------------------------
(***************************************************************************)
(* What the memory simulators of Labs A9 and A10 share: n processes, each  *)
(* with a sorted array of its own that lies behind its essential pages,    *)
(* take turns in making m binary searches.  A page table is a function     *)
(* from pages to frames; NoFrame stands for a valid bit that is not set.   *)
(* `version' says which program runs, the student's or the instructor's.   *)
(***************************************************************************)
EXTENDS Integers, SequencesExt

CONSTANTS
    n, m,          (* number of processes, and of searches each makes      *)
    NFRAMES,       (* frames for users, 12288                              *)
    Essential,     (* essential pages of a process, 10                     *)
    PerPage,       (* elements in a page, 1024                             *)
    size,          (* the size of each process's array                     *)
    Keys           (* what is searched for: indices                        *)

Procs == 0..n - 1
Frames == 0..NFRAMES - 1
NoFrame == -1

PageOf(index) == Essential + index \div PerPage
DataPages(p) == Essential..PageOf(size[p] - 1)
Pages(p) == 0..PageOf(size[p] - 1)

(* initializeSimulation fails if there is no room for the essential pages. *)
ASSUME SearchAssumption ==
    /\ n \in Nat \ {0} /\ m \in Nat \ {0}
    /\ Essential \in Nat \ {0} /\ PerPage \in Nat \ {0}
    /\ NFRAMES \in Nat /\ NFRAMES >= n * Essential
    /\ size \in [Procs -> Nat \ {0}]
    /\ Keys \subseteq Nat

VARIABLES
    version,     (* never changes                                          *)
    ready,       (* the ready queue                                        *)
    search,      (* the search under way                                   *)
    count,       (* searches that each process has completed               *)
    table, free  (* page tables, and what is free                          *)

Student == version = "student"

NoTable(p) == [j \in Pages(p) |-> NoFrame]
Loaded(t) == {j \in DOMAIN t : t[j] # NoFrame}

(* The loaded pages of a page table in the order of the loops over it. *)
LoadedInOrder(t) ==
    [i \in 1..Cardinality(Loaded(t)) |->
        CHOOSE j \in Loaded(t) : Cardinality({k \in Loaded(t) : k <= j}) = i]

-----------------------------------------------------------------------------
(* A binary search under way: who searches, for what, and in which range. *)
NoSearch == [pid |-> -1, key |-> 0, left |-> 0, right |-> 0]
NewSearch(p, k) == [pid |-> p, key |-> k, left |-> 0, right |-> size[p] - 1]

Mid(s) == (s.left + s.right) \div 2
Narrow(s) == IF s.key <= Mid(s) THEN [s EXCEPT !.right = Mid(s)]
                                ELSE [s EXCEPT !.left = Mid(s) + 1]
Found(s) == s.left >= s.right

Page == PageOf(Mid(search))
=============================================================================
