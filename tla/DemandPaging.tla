---------------------------- MODULE DemandPaging ----------------------------
(***************************************************************************)
(* Lab A9: demand paging without replacement.  A process whose search      *)
(* faults when no frame is free is swapped out, and starts that search     *)
(* again when another process has ended.  In the student's program         *)
(* (A9/demandpaging.c) the free frames are a stack, in the instructor's    *)
(* (A9/LA9_Solution) a queue; and the latter, when it unloads a process,   *)
(* puts the numbers of its pages there instead of the frames.              *)
(***************************************************************************)
EXTENDS PagedSearch

(* A process fits into memory, as 2 * 10^6 integers do.                    *)
ASSUME FitsAssumption == \A p \in Procs : Cardinality(Pages(p)) <= NFRAMES

VARIABLES
    swapped,         (* the queue of those that have been swapped out      *)
    keys,            (* what each process searches for now; {} if unknown  *)
    active, domp,    (* active processes, and their minimum so far         *)
    failed           (* no frames for an essential page: exit(EXIT_FAILURE) *)

vars == <<version, ready, swapped, search, count, keys, table, free, active,
          domp, failed>>

(* loadProcessEssentialPages, loadprocess: frames from the end of the      *)
(* stack or the front of the queue for pages 0, 1, ...                     *)
NextFree == IF Student THEN Last(free) ELSE Head(free)
Without(f, k) == IF Student THEN SubSeq(f, 1, Len(f) - k)
                            ELSE SubSeq(f, k + 1, Len(f))
EssentialPages(p, f) ==
    [j \in Pages(p) |-> IF j >= Essential THEN NoFrame
                        ELSE IF Student THEN f[Len(f) - j] ELSE f[j + 1]]

AllFrames == [i \in 1..NFRAMES |-> i - 1]

Init ==
    /\ version \in {"student", "solution"}
    /\ ready = [i \in 1..n |-> i - 1] /\ swapped = <<>>
    /\ search = NoSearch
    /\ count = [p \in Procs |-> 0] /\ keys = [p \in Procs |-> {}]
    /\ table = [p \in Procs |-> EssentialPages(p, Without(AllFrames, p * Essential))]
    /\ free = Without(AllFrames, n * Essential)
    /\ active = n /\ domp = n /\ failed = FALSE

(* swapOutProcess, unloadprocess.  The instructor's leaves the page table  *)
(* as it is until loadprocess clears it.                                   *)
Released(p) == LET pages == LoadedInOrder(table[p])
               IN  IF Student THEN [i \in DOMAIN pages |-> table[p][pages[i]]]
                              ELSE pages
AfterRelease(p) == IF Student THEN [table EXCEPT ![p] = NoTable(p)] ELSE table

Begin ==
    /\ search = NoSearch /\ ready # <<>> /\ ~failed
    /\ LET p == Head(ready)
       IN  \E k \in IF keys[p] = {} THEN {k \in Keys : k < size[p]} ELSE keys[p] :
              /\ keys' = [keys EXCEPT ![p] = {k}]
              /\ search' = NewSearch(p, k)
    /\ ready' = Tail(ready)
    /\ UNCHANGED <<version, swapped, count, table, free, active, domp, failed>>

Searching == search # NoSearch /\ ~Found(search)
Faults == Searching /\ table[search.pid][Page] = NoFrame

Hit ==
    /\ Searching /\ ~Faults
    /\ search' = Narrow(search)
    /\ UNCHANGED <<version, ready, swapped, count, keys, table, free, active,
                   domp, failed>>

LoadPage ==
    /\ Faults /\ free # <<>>
    /\ table' = [table EXCEPT ![search.pid][Page] = NextFree]
    /\ free' = Without(free, 1)
    /\ search' = Narrow(search)
    /\ UNCHANGED <<version, ready, swapped, count, keys, active, domp, failed>>

SwapOut ==
    /\ Faults /\ free = <<>>
    /\ LET p == search.pid
       IN  /\ free' = Released(p) /\ table' = AfterRelease(p)
           /\ swapped' = Append(swapped, p)
    /\ search' = NoSearch
    /\ active' = active - 1
    /\ domp' = IF active' < domp THEN active' ELSE domp
    /\ UNCHANGED <<version, ready, count, keys, failed>>

(* What ends a search that has found its key. *)
Complete(p) ==
    /\ search # NoSearch /\ Found(search) /\ p = search.pid
    /\ count' = [count EXCEPT ![p] = @ + 1]
    /\ keys' = [keys EXCEPT ![p] = {}]
    /\ search' = NoSearch
    /\ version' = version /\ domp' = domp

FinishSearch(p) ==
    /\ Complete(p) /\ count'[p] < m
    /\ ready' = Append(ready, p)
    /\ UNCHANGED <<swapped, table, free, active, failed>>

(* A process ends, and nobody waits to be swapped in. *)
FinishLast(p) ==
    /\ Complete(p) /\ count'[p] = m /\ swapped = <<>>
    /\ free' = free \o Released(p) /\ table' = AfterRelease(p)
    /\ active' = active - 1
    /\ UNCHANGED <<ready, swapped, failed>>

(* Mutant of FinishSwapIn: the process that ends keeps its frames. *)
FinishSwapInLeaks(p) ==
    /\ Complete(p) /\ count'[p] = m /\ swapped # <<>>
    /\ LET w == Head(swapped)
       IN  IF Len(free) < Essential
           THEN failed' = TRUE /\ UNCHANGED <<ready, table, free, active>>
           ELSE /\ table' = [AfterRelease(p) EXCEPT ![w] = EssentialPages(w, free)]
                /\ free' = Without(free, Essential)
                /\ ready' = <<w>> \o ready
                /\ active' = active /\ failed' = failed
    /\ swapped' = Tail(swapped)

(* Mutant of FinishSwapIn: nobody is swapped in. *)
FinishSwapInNobody(p) ==
    /\ Complete(p) /\ count'[p] = m /\ swapped # <<>>
    /\ free' = free \o Released(p) /\ table' = AfterRelease(p)
    /\ active' = active - 1
    /\ UNCHANGED <<ready, swapped, failed>>

(* A process ends and the first that waits is swapped in.  The student's   *)
(* puts it at the front of the ready queue, the instructor's goes on with  *)
(* its search at once, which is the same.  (It does not look whether there *)
(* are frames for the essential pages, but there always are.)              *)
FinishSwapIn(p) ==
    /\ Complete(p) /\ count'[p] = m /\ swapped # <<>>
    /\ LET w == Head(swapped)
           f == free \o Released(p)
       IN  IF Len(f) < Essential
           THEN failed' = TRUE /\ UNCHANGED <<ready, table, free, active>>
           ELSE /\ table' = [AfterRelease(p) EXCEPT ![w] = EssentialPages(w, f)]
                /\ free' = Without(f, Essential)
                /\ ready' = <<w>> \o ready
                /\ active' = active /\ failed' = failed
    /\ swapped' = Tail(swapped)

Next == \/ Begin \/ Hit \/ LoadPage \/ SwapOut
        \/ \E p \in Procs : FinishSearch(p) \/ FinishLast(p) \/ FinishSwapIn(p)

Spec == Init /\ [][Next]_vars

(* The simulation is one loop that runs until the ready queue is empty. *)
FairSpec == Spec /\ WF_vars(Next)

-----------------------------------------------------------------------------
(* Properties *)

ReadyOrSearching == ToSet(ready) \cup (IF search = NoSearch THEN {} ELSE {search.pid})
Resident(p) == p \in ReadyOrSearching
Ended == {p \in Procs : count[p] = m}

TypeOK ==
    /\ version \in {"student", "solution"}
    /\ ready \in Seq(Procs) /\ swapped \in Seq(Procs)
    /\ count \in [Procs -> 0..m] /\ keys \in [Procs -> SUBSET Keys]
    /\ \A p \in Procs : table[p] \in [Pages(p) -> Frames \cup {NoFrame}]
    /\ free \in Seq(Frames)
    /\ active \in 0..n /\ domp \in 0..n /\ failed \in BOOLEAN

InUse == UNION {{p} \X Loaded(table[p]) : p \in ReadyOrSearching}

(* Frames are neither lost nor made: what is free and what the resident    *)
(* processes have loaded adds up to all frames.  In the student's program  *)
(* it is also every frame; the instructor's hands out the numbers of pages *)
(* as frames once the first process has been unloaded.                     *)
FramesAddUp ==
    ~failed =>
        /\ Cardinality(InUse) + Len(free) = NFRAMES
        /\ Student => {table[x[1]][x[2]] : x \in InUse} \cup ToSet(free) = Frames

(* A process that has not ended is in one place, and only those that have  *)
(* not been swapped out count as active; so the rings of n entries, one of *)
(* which is also extended at its front, never overflow.  And no frame is   *)
(* lost when a search is given up, a process ends or one is swapped in.    *)
EveryoneAccounted ==
    LET waiting == ready \o swapped \o IF search = NoSearch THEN <<>> ELSE <<search.pid>>
    IN  /\ TypeOK /\ FramesAddUp
        /\ ~failed => /\ IsInjective(waiting)
                      /\ ToSet(waiting) = Procs \ Ended
                      /\ active = Len(waiting) - Len(swapped)

(* Every process completes its m searches: there is always one that keeps  *)
(* its frames, what an ending process returns is enough to swap another    *)
(* in, and the simulation does not stop while processes are swapped out.   *)
SimulationEnds == <>(Ended = Procs)
=============================================================================
