--------------------------- MODULE PageReplacement --------------------------
(***************************************************************************)
(* Lab A10: demand paging with replacement.  When no more than NFFMIN      *)
(* frames are free, a page that is faulted in takes the frame of a free    *)
(* entry, chosen by what that frame held last, and the entry is given the  *)
(* frame of the process's own page of least history.  `version' says which *)
(* program runs, the student's (A10/LRU.c) or the instructor's             *)
(* (A10/LA10_Solution/LRU.c).                                              *)
(*                                                                         *)
(* Essential pages are never replaced; their history is left out, and so   *)
(* is what becomes of the history and the reference bit of a page while it *)
(* is not loaded, as nothing reads them then.                              *)
(***************************************************************************)
EXTENDS PagedSearch

CONSTANTS
    NFFMIN,      (* 1000                                                   *)
    HistoryBits, (* 16                                                     *)
    Accesses     (* the most that a search makes: 21 for 2 * 10^6 elements *)

(* There are frames for the first search of every process, so that it has  *)
(* a page of its own to be replaced later.  Without one the instructor's   *)
(* program would read and write list[-1].                                  *)
ASSUME ReplacementAssumption ==
    /\ NFFMIN \in Nat /\ HistoryBits \in Nat \ {0}
    /\ Accesses \in Nat /\ \A p \in Procs : size[p] <= 2 ^ Accesses
    /\ NFRAMES - n * Essential > NFFMIN + (n - 1) * Accesses

VARIABLES
    ref, hist,   (* reference bits, and histories                          *)
    stopped,     (* who was given up for want of a victim                  *)
    holds,       (* history: the page whose contents a frame has           *)
    used         (* history: the last completed search that used a page    *)

rVars == <<version, ready, search, count, table, free, ref, hist, stopped, holds, used>>

NoOwner(f) == [frame |-> f, owner |-> -1, page |-> -1]
NoPage == <<-1, -1>>
(* The value of bit i of a history, 2^i; and a history of ones. *)
Bit[i \in 0..HistoryBits] == IF i = 0 THEN 1 ELSE 2 * Bit[i - 1]
Full == Bit[HistoryBits] - 1

(* The frames in the order of the free list at the start, from whose end   *)
(* the essential pages are taken.                                          *)
Initially == [i \in 1..NFRAMES |-> IF Student THEN i - 1 ELSE NFRAMES - i]
FirstFrame(p, j) == Initially[NFRAMES - p * Essential - j]

RInit ==
    /\ version \in {"student", "solution"}
    /\ ready = [i \in 1..n |-> i - 1]
    /\ search = NoSearch
    /\ count = [p \in Procs |-> 0]
    /\ table = [p \in Procs |-> [j \in Pages(p) |->
                   IF j < Essential THEN FirstFrame(p, j) ELSE NoFrame]]
    /\ free = [i \in 1..NFRAMES - n * Essential |-> NoOwner(Initially[i])]
    /\ ref = [p \in Procs |-> {}] /\ hist = [p \in Procs |-> [j \in DataPages(p) |-> 0]]
    /\ stopped = {}
    /\ holds = [f \in Frames |-> NoPage]
    /\ used = [p \in Procs |-> [j \in DataPages(p) |-> 0]]

RBegin ==
    /\ search = NoSearch /\ ready # <<>>
    /\ LET p == Head(ready)
       IN  \E k \in {k \in Keys : k < size[p]} : search' = NewSearch(p, k)
    /\ ready' = Tail(ready)
    /\ UNCHANGED <<version, count, table, free, ref, hist, stopped, holds, used>>

-----------------------------------------------------------------------------
(* One turn of the loop of simulate_BS, bsloop *)

Reads(p) == search # NoSearch /\ ~Found(search) /\ p = search.pid
RFaults(p) == Reads(p) /\ table[p][Page] = NoFrame

RHit(p) ==
    /\ Reads(p) /\ ~RFaults(p)
    /\ ref' = [ref EXCEPT ![p] = @ \cup {Page}]
    /\ search' = Narrow(search)
    /\ UNCHANGED <<version, ready, count, table, free, hist, stopped, holds, used>>

(* The page is in frame f now, has been used, and has a full history. *)
Map(p, f, t) ==
    /\ table' = [table EXCEPT ![p] = [t EXCEPT ![Page] = f]]
    /\ hist' = [hist EXCEPT ![p][Page] = Full]
    /\ holds' = [holds EXCEPT ![f] = <<p, Page>>]
    /\ used' = [used EXCEPT ![p][Page] = count[p]]
    /\ search' = Narrow(search)
    /\ UNCHANGED <<version, ready, count, stopped>>

RLoadPage(p) ==
    /\ RFaults(p) /\ Len(free) > NFFMIN
    /\ Map(p, Last(free).frame, table[p])
    /\ free' = Front(free)
    /\ ref' = [ref EXCEPT ![p] = @ \cup {Page}]

(* Mutant of Candidates: both programs pass over full histories. *)
CandidatesFresh(p) ==
    {j \in Loaded(table[p]) \cap DataPages(p) : hist[p][j] < Full}

(* The pages among which a victim is chosen; the student's search for the  *)
(* least history starts with the full one as its minimum.                  *)
Candidates(p) ==
    {j \in Loaded(table[p]) \cap DataPages(p) : Student => hist[p][j] < Full}

Victim(p) ==
    CHOOSE q \in Candidates(p) :
        \A j \in Candidates(p) : \/ hist[p][q] < hist[p][j]
                                 \/ hist[p][q] = hist[p][j] /\ q <= j

(* Attempts 1 to 4: the first free entry whose frame held this page, that  *)
(* held nothing, that held another page of the process, or any.            *)
First(S) == {CHOOSE i \in S : \A j \in S : i <= j}
Reusable(p) ==
    LET same == {i \in DOMAIN free : free[i].owner = p /\ free[i].page = Page}
        none == {i \in DOMAIN free : free[i].owner = -1}
        own  == {i \in DOMAIN free : free[i].owner = p}
    IN  IF same # {} THEN First(same)
        ELSE IF none # {} THEN First(none)
        ELSE IF own # {} THEN First(own)
        ELSE DOMAIN free

(* Mutant of Exchange: the entry is labelled with the page faulted in. *)
ExchangeLabel(i, q) ==
    LET e == [frame |-> table[search.pid][q], owner |-> search.pid, page |-> Page]
    IN  IF Student THEN [free EXCEPT ![i] = Last(free), ![Len(free)] = e]
                   ELSE [free EXCEPT ![i] = e]

(* Entry i is used, and the victim q put at the end or in its place. *)
Exchange(i, q) ==
    LET e == [frame |-> table[search.pid][q], owner |-> search.pid, page |-> q]
    IN  IF Student THEN [free EXCEPT ![i] = Last(free), ![Len(free)] = e]
                   ELSE [free EXCEPT ![i] = e]

Replace(p) ==
    /\ RFaults(p) /\ Len(free) <= NFFMIN /\ Candidates(p) # {}
    /\ \E i \in Reusable(p) :
          /\ Map(p, free[i].frame, [table[p] EXCEPT ![Victim(p)] = NoFrame])
          /\ free' = Exchange(i, Victim(p))
    /\ ref' = [ref EXCEPT ![p] = (@ \ {Victim(p)}) \cup {Page}]

(* No victim: the student's process is neither queued again nor released.  *)
NoVictim(p) ==
    /\ Student
    /\ RFaults(p) /\ Len(free) <= NFFMIN /\ Candidates(p) = {}
    /\ stopped' = stopped \cup {p}
    /\ search' = NoSearch
    /\ UNCHANGED <<version, ready, count, table, free, ref, hist, holds, used>>

-----------------------------------------------------------------------------
(* The end of a search *)

(* Mutant of Shifted: new references enter at the wrong end. *)
ShiftedLow(p) ==
    [j \in DataPages(p) |->
        IF table[p][j] = NoFrame THEN hist[p][j]
        ELSE (2 * hist[p][j] + IF j \in ref[p] THEN 1 ELSE 0) % Bit[HistoryBits]]

(* updatePageHistory: shift right, a reference becomes the first bit. *)
Shifted(p) ==
    [j \in DataPages(p) |->
        IF table[p][j] = NoFrame THEN hist[p][j]
        ELSE hist[p][j] \div 2 + IF j \in ref[p] THEN Bit[HistoryBits - 1] ELSE 0]

RComplete(p) ==
    /\ search # NoSearch /\ Found(search) /\ p = search.pid
    /\ hist' = [hist EXCEPT ![p] = Shifted(p)]
    /\ used' = [used EXCEPT ![p] = [j \in DataPages(p) |->
                    IF j \in ref[p] THEN count[p] + 1 ELSE used[p][j]]]
    /\ ref' = [ref EXCEPT ![p] = {}]
    /\ count' = [count EXCEPT ![p] = @ + 1]
    /\ search' = NoSearch
    /\ UNCHANGED <<version, stopped, holds>>

RFinishSearch(p) ==
    /\ RComplete(p) /\ count'[p] < m
    /\ ready' = Append(ready, p)
    /\ UNCHANGED <<table, free>>

(* releaseProcessFrames; the instructor's page table is left as it is. *)
FinishProcess(p) ==
    /\ RComplete(p) /\ count'[p] = m
    /\ LET pages == LoadedInOrder(table[p])
       IN  free' = free \o [i \in DOMAIN pages |-> NoOwner(table[p][pages[i]])]
    /\ table' = IF Student THEN [table EXCEPT ![p] = NoTable(p)] ELSE table
    /\ ready' = ready

Process(p) == \/ RHit(p) \/ RLoadPage(p) \/ Replace(p) \/ NoVictim(p)
              \/ RFinishSearch(p) \/ FinishProcess(p)

RNext == RBegin \/ \E p \in Procs : Process(p)

RSpec == RInit /\ [][RNext]_rVars

(* The simulation is one loop that runs until the ready queue is empty. *)
RFairSpec == RSpec /\ WF_rVars(RNext)

-----------------------------------------------------------------------------
(* Properties *)

(* The pages of those that have not ended, also of those that were given up *)
RInUse == UNION {{p} \X Loaded(table[p]) : p \in {p \in Procs : count[p] < m}}

RTypeOK ==
    /\ version \in {"student", "solution"}
    /\ ready \in Seq(Procs) /\ stopped \subseteq Procs
    /\ count \in [Procs -> 0..m]
    /\ \A p \in Procs : table[p] \in [Pages(p) -> Frames \cup {NoFrame}]
    /\ \A i \in DOMAIN free : free[i].frame \in Frames
    /\ \A p \in Procs : /\ ref[p] \subseteq Pages(p)
                        /\ hist[p] \in [DataPages(p) -> 0..Full]

(* Every frame is in one place, loaded for one page or free once.          *)
(* Processes that were given up keep theirs.                               *)
RFramesAddUp ==
    /\ Cardinality(RInUse) + Len(free) = NFRAMES
    /\ {table[x[1]][x[2]] : x \in RInUse} \cup {free[i].frame : i \in DOMAIN free} = Frames

(* Through all exchanges of entries no frame is lost or listed twice, and  *)
(* what an entry says of its frame is true, so that the load which the     *)
(* first attempt avoids is one that is not needed; and a frame that is in  *)
(* use has the contents of its page.                                       *)
LabelsTrue ==
    /\ RTypeOK /\ RFramesAddUp
    /\ \A i \in DOMAIN free :
          free[i].page # -1 => holds[free[i].frame] = <<free[i].owner, free[i].page>>
    /\ \A x \in RInUse : x[2] >= Essential => holds[table[x[1]][x[2]]] = x

(* How many searches of p ago page j was last used, as far as a history of *)
(* HistoryBits can tell; a page just loaded counts as used in the last.    *)
Age(p, j) == IF count[p] - used[p][j] < HistoryBits THEN count[p] - used[p][j]
                                                    ELSE HistoryBits

(* The aging histories find a page that has been unused for longest, by    *)
(* completed searches; the student's too, for all that it passes over.     *)
VictimLeastRecent ==
    [][\A p \in Procs : \A q, j \in DataPages(p) :
          /\ count'[p] = count[p]
          /\ table[p][q] # NoFrame /\ table'[p][q] = NoFrame
          /\ table[p][j] # NoFrame
         => Age(p, j) <= Age(p, q)]_rVars

(* Every process completes its m searches, but for those of the student's  *)
(* that are given up when all their pages have full histories.             *)
RSimulationEnds == <>(\A p \in Procs : count[p] = m \/ (Student /\ p \in stopped))
=============================================================================
