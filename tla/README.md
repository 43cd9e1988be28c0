# Verification of the Operating Systems Laboratory programs

This directory holds TLA+ models of the programs in this repository (assignments
A1 to A11 of an operating systems laboratory, each with the student's program
and the instructor's solution), the TLC configurations that check them on small
instances, and TLAPS proofs that hold for every size of instance.

Nine laboratories are modelled, each in the student's version and the
instructor's. Six of them are concurrent protocols: **A2** (a ball game played with
signals), **A4** (sudoku blocks that question one another over pipes), **A5** (a
leader and followers that poll a word of shared memory), **A6** (a restaurant:
processes, shared memory, SysV semaphores), **A7** (boats and visitors: threads,
counting semaphores, barriers) and **A8** (a resource manager: threads,
condition variables, the banker's algorithm). Three are simulators: **A3** (one CPU
under FCFS and round robin, by a heap of events), **A9** (demand paging with
swapping) and **A10** (page replacement by approximate LRU).

## 1. Inventory

| Lab | Parts and their state | Interaction | What is hard | What should hold |
|---|---|---|---|---|
| A1 `rebuild.c` | recursive `fork`/`exec` over a dependency graph; visited bits in `done.txt` | parent waits for child; the file is shared | the file is read, then rewritten by a child, then used again; cyclic dependencies | each item is rebuilt once, after what it depends on |
| A2 `parent.c`, `child.c`, `dummy.c` | a ring of players; parent keeps whose turn it is; each child its state (playing, out, ...) | `SIGUSR1`, `SIGUSR2`, `SIGINT` and a dummy process the parent waits for | signals that arrive before `pause()`, signals that coalesce | one ball; a player who is out stays out; exactly one winner |
| A3 `schedule.c` | processes, an event heap and a ready queue | sequential, event by event | simultaneous events, the heap's limits, what is kept from one round to the next | time never runs backwards; both versions print the same; nobody starves under round robin |
| A4 `coordinator.c`, `block.c` | a board of 9 block processes; a pipe per block | commands, questions and answers come through the same pipe; a block asks four others before it accepts a digit | blocks that ask one another at the same time; a command where an answer is expected; lines thrown away | no row, column or block holds a digit twice; the solution stays; nobody waits in vain |
| A5 `leader.c`, `follower.c` | shared memory: number of followers, number joined, whose turn | busy waiting on the turn | a join that is not atomic; the last turn | every follower writes once per round; nobody is left spinning |
| A6 cooks, waiters, customers | shared memory with clock, tables, queues; semaphores | `P`/`V` on `cook`, `waiter[w]`, `customer[c]`; sections under `mutex` | two actors between a section and its `V`; one slot for food that is ready; a clock that is set back; closing time; semaphores removed under the processes | nobody is forgotten; everyone eats what was cooked for them |
| A7 `boating.c` | semaphores `boat`, `rider`; tables `BA`, `BC`, `BT`; a barrier per boat and `EOS` | `P`, `V`, `pthread_barrier_wait` | a boat other than the released one is taken; spurious wakeups; teardown | a ride has one boat, one visitor and that visitor's time; the session ends |
| A8 `resource.c` | `available`, `allocation`, `need`; request queue and pending queue | requests under a mutex and barrier; one condition variable per thread | a wakeup before the sleep; requests left in the queue; safety | nothing is lost; avoidance never deadlocks |
| A9 `demandpaging.c` | page tables, free-frame list, ready and swap queues, active processes | one loop; processes take turns, search by search | a search abandoned in the middle; who is swapped in when; rings extended at both ends | frames are neither lost nor made; everyone is in one queue; all searches are made |
| A10 `LRU.c` | page tables with reference bits and histories, free frames labelled with their last page | as A9 | exchanges of entries, labels that are trusted, the victim's choice at the limits of the history | a frame is in one place; labels are true; victims are unused for longest; all searches are made |
| A11 `findall.c` | none | walks directories | - | - |
| `notes/`, `sample_codes/` | demonstrations of one system call each; producer and consumer in `sem.c` | - | - | - |

The hazards of the modelled parts, each at its line and with the properties
that would show it going wrong, are in `PROJECT.json` under `hazards`.

## 2. Modules

| Module | Models | Kind |
|---|---|---|
| `PthreadSync` | the counting semaphore of A7 (`P`, `V`), a two-party barrier | operators |
| `Boating` | `A7/boating.c` | state machine, properties, `Inv` |
| `BoatingSolution` | `A7/LA7_Solution/boating.c` (extends `Boating`, other boats) | state machine |
| `RideService` | what both promise | abstract specification |
| `BoatingProofs` | - | proofs about both |
| `Vectors`, `SafetyCheck` | arithmetic on resource vectors, `issafe` | operators |
| `ResourceClaims` | threads, resource types, totals and claims of a session; what it means to be safe | constants, their assumption, operators |
| `Session` | what both programs of A8 have: threads that follow scripts | constants, their assumption, variables |
| `ResourceManager` | `A8/resource.c` | state machine |
| `ResourceSolution` | `A8/LA8_Solution/resource.c` | state machine |
| `Banker` | what both promise: the banker's algorithm | abstract specification |
| `ResourceProofs` | - | proofs about `SafetyCheck`, the tables of a master, the books of a banker, and both programs |
| `RestaurantState` | what the processes of both restaurants share, `P`, `V` | constants, their assumption, variables, operators |
| `Restaurant` | `A6/LA6_Solution/{cook,waiter,customer,resource}.c` | state machine |
| `StudentRestaurant` | `A6/22CS30056_Sumit_Kumar/{cook,waiter,customer}.c` | state machine |
| `RestaurantProofs` | - | proofs about both |
| `TableService` | what both promise | abstract specification |
| `Foodoku` | `A4/{coordinator,block}.c` and `A4/LA4_Solution`, by the variable `version` | state machine |
| `FoodokuProofs` | - | proofs |
| `CpuScheduler` | `A3/schedule.c` and then `A3/solution/schedule.c` on the same input | state machine |
| `SchedulerProofs` | - | proofs |
| `LeaderFollowers` | `A5/{leader,follower}.c` and `A5/LA5_Solution`, by the variable `version` | state machine, properties, `Inv` |
| `LeaderFollowersProofs` | - | proofs |
| `BallGame` | `A2/{parent,child,dummy}.c` and `A2/LA2_Solution`, by the variable `version` | state machine |
| `BallGameProofs` | - | proofs |
| `PagedSearch` | what A9 and A10 share: binary searches over pages | constants, their assumption, variables, operators |
| `DemandPaging` | `A9/demandpaging.c` and `A9/LA9_Solution`, by the variable `version` | state machine |
| `PageReplacement` | `A10/LRU.c` and `A10/LA10_Solution`, by the variable `version` | state machine |
| `PagingProofs` | - | proofs about A9 and A10 |
| `MC*` | constants for TLC | model values, symmetry |

Names follow the code (`BA`, `found_boat`, `pendingQueue`, `cookqueue`, ...);
where a name stands for something else the module's comments say so. Where one proof
module extends two programs, the names that both have begin with `S` (or `s`) in the
one: `StudentRestaurant`, `BoatingSolution`, `ResourceSolution`, and with `R` (`r`) in `PageReplacement`. Every
definition is listed with the lines it stands for in `PROJECT.json` under `map`.

### A7: boats and visitors

State: the two semaphores (value and set of waiting threads), the tables `BA`,
`BC`, `BT` indexed by boat, the barrier of each boat as the set of threads in
it, `EOS`, `pending_visitors`, the locals that survive a step, and a program
counter per thread. A critical section of `bmtx` is one step; so are `P` and
`V`, which run under the semaphore's own mutex. `P` puts the thread in the
waiting set and moves its program counter; the thread is runnable when it is
out of the set. `V` wakes any one waiter. With `spurious` (a variable
that `Init` chooses and nothing changes) a wait may end at any time: as the
code's `P` uses `if`, the thread then simply goes on.

The sleeps that stand for sightseeing and riding take no time, so the models
contain every order the durations could produce. One assumption is taken from
them: in `BoatingSolution` no visitor is back from sightseeing (3 seconds or
more) before all boats have initialised their barriers (`BoatsReady`).

`BT[b]` holds the visitor whose time it is instead of a number, which is what
the agreement between boat and visitor is about.

### A8: the resource manager

`ResourceManager` is the master's loop as steps (`ReceiveQuit`,
`ReceiveRelease`, `ReceiveAdditional`, `GrantFirst`, `DeferFirst`, `EndPass`
over two passes) and user threads that send requests and sleep. Scripts are not
files here: a thread may send any request its script could contain
(`ScriptRequests`), and `held` remembers the script's own view of what it has.
`Avoid` says whether the program was compiled with `_DLAVOID`; it is chosen in
`Init` and never changes, so that one run covers both builds.
`Sent` and `asleep` are different steps because the request is enqueued before
the thread locks the mutex it sleeps with.

`ResourceSolution` has the other protocol: one request at a time under `rmtx`,
a rendezvous at `REQB` and `ACKB[i]`, and `cmtx[i]` held from before the request
until the sleep.

Waits end only when signalled in these two modules. If they did not, the
student's thread would go on without its resources, and the solution's would
hold `cmtx` at `REQB` while the master waits for it; nothing is promised then.

### A6: the restaurant

Each section under `mutex` is a step; the `V` that follows it outside is
another. The clock is kept as far as the code tests it: `late` (past 240
minutes). `settime` refuses to go back, so that `late` never becomes false, and
any delay may make it true. A customer process may be delayed before its first
step, so it may sit down late; the code only looks at when it was due.

When all customers are gone, the customers' `main` removes the semaphores. `P`
then fails at once and its result is ignored: `MayPass`. The cooks and waiters
that remain only read, so that the steps stay atomic without the mutex.

`lost` is a history variable: the customers whose announcement in
`food_ready` was overwritten before the waiter read it.

`StudentRestaurant` has the same shared variables (`RestaurantState`). It
differs in three protocols. A customer is told before its
order is placed, so that the abstract stage "ordered" is read off the waiter
(`InHall`) and not off the semaphore. A cook leaves after an order only, a waiter
after an order or a call for nothing, calling a cook within its section. And each
of the three programs removes the semaphores when its own children are gone
(`Remove`), which may be long before the others are: `ServesUntilRemoved` is the
refinement of `TableService` up to that step. A cook sets the clock to the value
it read before cooking plus the time spent (`ClockSet`), so that `late` can become
false again. After the removal the sections are no longer exclusive; the model
keeps them as steps and lets the tests of the tables come out either way.

### A4: Foodoku

A pipe is a sequence of lines: a command of the coordinator, a question of a
neighbour (`r` or `c` with a line of the block and a digit) or an answer. The
coordinator writes a board or `q` block by block (`sendLine`), and the blocks
work meanwhile. A block that is to put a digit asks its neighbours one by one
(`startPut`, `readAnswer`) and reads nothing else while it waits; a
command or question in front of the answer makes `scanf("%d")` fail and is taken
for "no conflict" (`misreadAnswer`), and the answer arrives later as a stray line.
The instructor's block reads on to the end of the line after each command: after
a misread at the last neighbour this throws the line in front away. `misread` and
`eaten` are history variables that record both. A refused put changes nothing but
the pipe; what is displayed is left out.

### A3: the CPU scheduler

One iteration of the event loop is one step (`Join`, `TimeOut`, `StartIO`, `Exit`), with
the scheduling decision at its end (`Dispatch`). The heap is modelled as the array
it is: `push_event`, `pop_event` and `makeheap` are recursive functions over it, and the
two versions' orders of events (`Before`) are translated as they stand, including that
the student's is by type only between a timeout and an arrival. The model runs
the student's program and then the instructor's on the same `proc.txt`, each for all
quanta, and keeps what they print.


### A5: leader and followers

`joined`, `turn` and `cell` are `M[1]`, `M[2]` and `M[3..]`. There are no locks,
so every load or store of `M[1]` and `M[2]` is a step; `M[3+i]` has one writer
and is read by the leader in its own turn. Both versions are one module, as they
differ in a handful of tests: the student's follower keeps the number it has
stored and is refused if it is too big, the instructor's first tests for room
and then loads `M[1]` again after storing it. The student's leader adds up once
before the first round.

The join is not atomic, so that two followers may get one number or a number may
be missing. `UniqueIds` names what the rest depends on; `Inv` and `StartsComplete`
say what holds without it. The polling loops are not compiled with optimisation,
so that each test loads its word again. `fresh` is a history variable: who has
drawn since the leader last gave the turn away.

### A2: the ball game

Each process has a set of pending signals and a stack of the handlers it is in.
A signal can be delivered at any moment when it is not already being handled,
so that handlers interrupt one another as they do under `signal()`; one that is
sent while it is pending is merged with it. The student's parent does its steps in
`main`, with `pc` as program counter, the instructor's does the same ones in its
handler; `Here` and `Goto` say where a step stands. `TestSignal` and `Pause` are
different steps, because an answer may come between the test of
`received_signal` and `pause()`. `line` is the table's current line; `ball`,
`missed` and `winners` are history variables that the lines and the parent's
table are compared with. With `n = 1` the instructor's search for the next
player does not end once that player has missed (`NextPlayer`).

### A9 and A10: paging

Both labs simulate `n` processes that make `m` binary searches each over sorted
arrays behind their essential pages, in round robin. `Begin` takes a process
from the ready queue; every turn of the search loop is a step that hits, loads,
or deals with a shortage of frames; the end of a search is one step with all
that follows from it. The programs are sequential: what varies is what is
searched for, chosen in `Begin` from `Keys`, and in A10 the random free entry of
attempt 4. Data pages carry no data; what an array holds at an index is that
index.

`DemandPaging`: a process that faults without a free frame is swapped out and its
search is repeated (`keys` remembers what for). The instructor's `unloadprocess`
puts page numbers into the list of free frames, and the model does too.

`PageReplacement`: a free entry is its frame, the process that had it and the
page it held. Two history variables say what the entries and the page histories
are to be compared with: `holds` (whose contents are in a frame) and `used` (when
a page was last used). The student's search for a victim wants a history below
0xFFFF; a process all of whose pages have it is given up with its frames, which is
`NoVictim` and `stopped`. With no page at all the instructor's program leaves its
arrays; `ReplacementAssumption` says that there are frames for first searches.

## 3. Runs

| Run | Instance | Shows | States |
|---|---|---|---|
| `boating` | 2 boats, 3 visitors, with and without spurious wakeups, fair | `Inv` of the proofs, refinement of `RideService`; without spurious wakeups the scan after `P(&rider)` always finds a boat, and the session ends unless visitors are stranded | 158,838 |
| `boating_solution` | the same, symmetry | the ride time read outside the mutex is right, re-initialising a barrier drops nobody, refinement | 21,386 |
| `manager` | 2 threads, 2 types of 1 unit, 3 requests each, queues of 2, both builds | conservation and agreement with scripts, nothing grantable is left in the queue, rest only in a real deadlock or after a lost wakeup; with avoidance, refinement of `Banker` | 132,298 |
| `manager_solution` | 2 threads, 2 types, both builds, fair | one traversal is enough; with avoidance, refinement of `Banker` and the session ends | 22,334 |
| `restaurant` | 2 cooks, 2 waiters, 3 customers, 2 tables, symmetry | calls and duties add up, every order is in one place, reasons for hanging, refinement of `TableService` | 82,811 |
| `student_restaurant` | 2 cooks, 2 waiters, 3 customers, symmetry | the same questions of the student's version, refinement until the removal | 219,411 |
| `foodoku` | 2x2 blocks of 2x2 cells, one given cell, three puts that clash pairwise, 3 commands before `q`, both versions, fair | digits clash only after a misread, the solution stays, nobody waits in vain, the game ends unless a line was thrown away | 291,767 |
| `scheduler` | 4 processes with 9 possible jobs each, quanta 100, 2 and 1, both versions | same output, the heap's root is next and every process in one place, bounded waiting | 802,629 |
| `turns` | 2 followers, 3 processes that try to join, both versions, fair | `Inv` of the proofs, exclusive turns, complete rounds, a start with `n` followers, the session ends | 264,348 |
| `ball_game` | 3 players, both versions, fair | no signal is merged with another, every printed line is true, the right player wins unless the student's parent oversleeps | 145,634 |
| `demand_paging` | 4 processes, 11 frames, 2 essential pages, 3 searches, both versions, fair | frames add up and everyone is in one place, all searches are made | 13,679 |
| `page_replacement` | 2 processes of 8 pages, 11 frames, 4 searches, 2 bits of history, both versions, fair | frames add up and labels are true, victims are unused for longest, all searches are made but those of processes given up | 59,840 |

Bounds. Two boats and three visitors are the least with which a boat is used
twice, a visitor finds more than one free boat, and a visitor is left over when
two are stranded. Two threads over two resource types can each hold what the
other needs, the least deadlock. `MaxRequests` lets a thread ask, be granted, release and ask again; `MAX_QUEUE_SIZE = 2` (10000 in the code) makes the queue fill up. In
A6 three customers and two waiters put two customers at one waiter, so that two
cooks can finish for the same waiter; two tables turn one customer away. A board of
four blocks in A4 gives each a neighbour in its row and one in its column, so that three
blocks can ask in a ring; the three puts clash along a row and along a column, and three
commands are a game, and a put with another or with the solution on its way. (The
model is written for any block size; 3x3 is out of reach.) Four
processes make a heap of three levels in A3, and bursts, arrivals and
quanta of a few units make most events simultaneous with others. In A5 the third
process is the one that two followers need to find one too many or to share a
number and still fill the places; two leader's draws make sums differ and repeat.
Three players in A2 are the least with one who is out, one who has
the ball and one who waits. In A9 three frames are free at the start for up to ten pages that are wanted,
so that processes are swapped out before any has ended. In A10 the
first searches use up the frames above `NFFMIN = 2`, all four attempts are
made, and two bits of history saturate within four searches.

Deadlock is not checked (`CHECK_DEADLOCK FALSE`) where a program may stop: at
its end, and where it is left waiting, which the liveness properties,
`WaitingExplained` (A8), `UnservedExplained` and `WaitsInVainExplained` (A6) examine instead:
they describe the states in which no step is possible. Symmetry is used only without liveness.

Fairness is weak fairness of each thread's or process's steps: the operating
system runs every thread that can run, and a section under a mutex is one step
that stays enabled until it is taken. Nothing is assumed about which waiter a
semaphore or condition variable wakes. In `ResourceSolution` `rmtx` is handed on
because scripts end. In A4 the programs run on and the player need not type
anything. `Restaurant`, `StudentRestaurant`, `ResourceManager` and `CpuScheduler` state no
fairness: what is asked of them is where they can come to rest. In A2 there is strong fairness of a miss besides: a ball that is
thrown for ever is missed at some time, since every draw misses with
probability 0.2. A9 and A10 are single loops: weak fairness of the whole
next-state relation says that the loop goes on.

### Known ways to hang, and what holds nevertheless

No text of the repository promises that these cannot happen; the properties say
exactly when they do.

* A7: a visitor takes the free boat of lowest index (`A7/boating.c:116`), not the
  boat its `V(&boat)` woke. The booked boat sleeps in `P(&boat)`, the woken one
  waits at its barrier, and if no other visitor comes the session hangs.
  `EndsUnlessStranded`: this is the only way, and any later visitor frees both.
* A8: the student's thread enqueues its request, then locks its mutex and waits
  without testing whether it has been granted (`A8/resource.c:481`), so that a
  wakeup can be lost. `WaitingExplained`: the session hangs for this reason or, without
  avoidance, in a real deadlock. In the instructor's version neither happens (`SessionEnds`).
* A6: what a customer can wait for in vain. In the instructor's version
  (`UnservedExplained`): its waiter has left, the cooks have left, or the announcement was
  overwritten (`A6/LA6_Solution/cook.c:47`). In the student's (`WaitsInVainExplained`), where a
  removal ends every other wait: its waiter has left or the announcement was overwritten.
* A4: the instructor's block may throw a line away, a question or `Q` among them, and then
  another waits for ever (`NobodyWaitsInVain`, `QuitEnds`). In the student's version
  nobody waits in vain, though blocks exit without answering: the asker's own `q`, misread
  as an answer, ends its wait.
* A2: the student's parent can sleep through an answer (`Overslept`, `A2/parent.c:100`);
  the instructor's cannot, as it plays in the handler.

### Things the models taught

* The student's manager makes a second pass over the queue after each first
  one; it never grants anything: what was refused in the first
  pass stays refused, as the grants made after it only take resources away
  (`GrantKeepsRefusal`).
* Under avoidance the test against `available` follows from the safety check.
* A cook leaves past closing time with an empty cooking queue, "No more new orders"
  (`A6/LA6_Solution/cook.c:63`), while a waiter may still be noting one.
* In A3 the two orders of simultaneous events differ, and the student's is not even
  transitive (an arrival, the end of a burst and a timeout can form a cycle). But a burst's
  end and a timeout are never pending together, and where an arrival meets a burst's end,
  the case the two orders decide differently, the end adds nothing to the ready queue.
* In A4 two blocks can accept the same digit only when one has misread an answer.
* In A9 there is always a process that keeps its frames, so that nobody is left
  swapped out, and what an ending process returns suffices for the next.
* In A10 labels stay true although a page may be in two frames at once.
* In A2 no signal is ever pending twice or beside another, and whoever claims to have won
  (`OneCanWin`) is right, for any number of players.

## 4. Proofs

`BoatingProofs`, for any number of boats and visitors, with or without spurious
wakeups, from `BoatingAssumption`:

* `Invariance`: `Inv` = `TypeOK`, `Bookings` (what `BA`, `BC`, `BT` say of the
  visitors), `Barriers` (who may wait at a boat's barrier), `Rides` (whom a boat
  on the water carries), `Closing`, `RidesOwed`. `RideAgreement` alone is not
  inductive: that `BC[b]` is still the visitor aboard when the boat reads it
  needs `BA`/`BC` to keep other visitors away from before the barrier until the
  next offer, and that in turn needs to know who is in the barrier.
* `TypeCorrect`, `RidesAgree`, `RidesCounted`, `TeardownIsLast` follow from it.
* `Refinement`: `Spec => ImplementsRideService`. A meeting at the barrier maps
  to `Board`, the end of a ride to the end of a ride, `exit` to the closing.
* `ScanSucceeds`: without spurious wakeups a visitor past `P(&rider)` finds a free
  boat. The number of free boats is the value of `rider` plus the visitors in
  `P(&rider)` or at their scan plus the boats that are offered and not yet posted
  (`Scan`), and the visitors that wait in `rider` are as many as its value is negative.

The second half of `BoatingProofs` does the same for the instructor's version (`SInv`;
`STypeCorrect`, `STeardownIsLast`, `SRefinement`). What is new there is what the boat
reads outside `bmtx`: `BookingIsStable` says that the table's entry of a boat afloat is one
visitor's from the barrier to the end of the ride. It needs `SBarriers` (a visitor at
the barrier is the one of the table) and `Starting` (nobody looks for a boat before
the barriers are initialised, which is the assumption `BoatsReady` of the model).

`ResourceProofs` begins, for any finite sets of threads and types, with the check that both
managers make before a grant:

* `SafetyCheckSound`: if `issafe` says yes, there is an order in which all can finish;
  the recursion's own path yields it. `SafetyCheckComplete`: if there is an order,
  `issafe` says yes, because whoever is first in the order among those left is found
  ready (`ReadyGrows`). The check is a recursive function over sets, and the work of a
  set of threads a sum over it. Both are reasoned about by induction on cardinality and
  on positions, with the least counterexample that `WFMin` of
  `WellFoundedInduction` provides (`LeastNumber`).
* `EarlierGrantSafe`: if a request would be safe after another has been granted, it
  would have been safe before. So granting never makes something else grantable.

* `BankersBooks` is what a banker keeps in order, for any finite sets of threads and types,
  any total and claims: the counts are in bounds, holdings and claims add up to what was
  announced, nobody waits for more than its claim, and the state is safe, so that there is
  an order of the live threads in which each can finish with what is free and what those
  before it return. It holds at the start (`StartIsSafe`: any order works) and is kept by a
  request (`ReturnKeepsSafe`: the order still works after a thread has returned resources),
  by a grant (its guard) and by a thread that quits (`QuitKeepsSafe`: the order works
  without it). And if all live threads wait, the first of the order can be granted
  (`BooksProceed`, from `FirstCanBeGranted`).
* `Banker` has no run of its own: the runs of the two managers compare them with it on
  small instances, and the theorems `Refinement` and `SRefinement` do for all. As their steps
  are the banker's, both keep their books in order under `_DLAVOID` (`SafetyKept`,
  `SSafetyKept`).

The rest of `ResourceProofs` is about the managers. For the instructor's, with and without `_DLAVOID`:

* `SInvariance`: `SInv` = `STypeOK`, `Locks` (who holds `rmtx` and `cmtx`), `Posted` (what a
  thread at the barrier has put into the globals `reqfrom`, `reqtype`, `REQ` is still
  there), `Exits`, `Queue` (a thread is queued once, for what its claim leaves it),
  `Sleepers`, `SBooks` and `SScripts` (the tables account for every unit and agree with
  what each script says). `SBooks` alone is not inductive: that a request fits the
  claim when the master reads it needs `Posted`, and that needs `Locks`.
* `NoLostWakeup` (`Sleepers`): who sleeps, or is about to, is queued or the one being
  signalled. `SConservedAlways` follows from `SBooks`, `SScripts` and `Queue`; the fold over
  the queue is unrolled by induction on positions (`FoldIs`).
* `SRefinement`: with `_DLAVOID` the booking of a request is the banker's `Request`, a
  served entry its `Grant`, a `QUIT` its `Quit`; `safetoallocate` implies the banker's
  guard by `SafetyCheckSound`.
* `OneTraversalIsEnough`: what the traversal has passed stays ungrantable (`Passed`), by
  `EarlierGrantSafe` and because the check is exact in both directions.
* `NoDeadlock`: with `_DLAVOID` the master never waits at `REQB` with all threads asleep. One
  of them could be granted (`BooksProceed`), and the traversal has passed it.

For the student's, with and without `_DLAVOID`:

* Here a thread has up to all its requests in the request queue at once, so that the
  invariant cannot compare its script with the tables. `Scripts` says instead that
  there is a run of counts over the queue, one per position, which begins with
  `allocation[t]`, stays within the claim at each request of `t`, and ends in what the
  script holds (`Runs`); a request taken from the front takes the first step of the run,
  one that is sent appends a step. `OnTheirWay` and `Pending` say that a thread sends
  nothing after an `ADDITIONAL` request until it is granted: it is pending at most once,
  and the master's own queues cannot overflow. The request queue can (`Overflow`); the
  process then exits, as the code does.
* `ConservedAlways`, `Refinement` as for the other.
* `WaitingIsExplained`: both passes leave nothing grantable (`Passed`), there is a live thread
  while the master waits (`Attended`), with `_DLAVOID` some live thread is not pending
  (`SomeoneFree`, from `BooksProceed`), and without it, if all are pending, the
  first of any safe order could be granted (`DeadlockIsReal`). So a session that hangs
  has lost a wakeup or is in a deadlock. `Hangs` writes out when no thread and not the
  master can move, because proofs cannot reason about `ENABLED`.

`RestaurantProofs`, for any cooks, waiters, tables and customers, from `RestaurantAssumption`. The lemmas about queues and places come first:
they are about records (`PlacesIn`), and both restaurants are looked at as such a record.
For the instructor's version:

* `Invariance`: `Inv` = `Types`, `Hands` (what the staff hold, and how high a customer's
  semaphore can be), `Hall`, `Kitchen` and `Sums`. It speaks of how often a customer has been
  told (`told`) and of five places for its order (`OnePlace`). Uniqueness alone is not
  inductive: an order taken from `cookqueue` must not be on the stove already, which needs
  that no customer is told twice for one order, which needs that it is in the queue of its
  own waiter once (`Hall`). Twenty-two actions have eight effects on these (`SitsIn`, `IsAskedIn`,
  ..., `EatsIn`; `CookEffects`, `WaiterEffects`, `CustomerEffects`), so that preservation is
  proved per effect.
* `Sums`: `order_pending`, `no_of_empty_tables` and the waiters' `S` are the sizes of the sets
  they count; `S` lags one behind between `PlaceOrder` and `CallCook`. `TypeCorrect` and
  `OrdersSomewhere` follow.
* `CallsAlwaysAddUp`: `CallsAddUp` is two balances, the orders against the calls for a
  cook and, per waiter, the duties against the calls for it. `NoIdleCall`: no cook is woken
  for nothing before the semaphores are removed.
* `HangIsExplained`: `UnservedExplained`, with `Hangs` written out as in A8. A cook that
  still waits to be called then has no order left, by the first balance, and such a waiter
  no duty, by the second (`NoOrderLeft`, `NoDutyLeft`). A waiter leaves only with `S` at 0,
  hence never with food ready (`NoneLeft`). What is left are the three reasons.
* `Refinement`: `Spec => ImplementsTableService`. `View` says what the customers see in terms
  of `told` and the places; what is announced in vain is ready for ever, and never eaten.

And for the student's version, with the same lemmas about the places:

* `StudentInvariance`: `SInv` = `STypes`, `SLimits` and, as long as there are semaphores,
  `SBooks` (`SHands`, `SHall`, `SKitchen`, `STables`, `CookCalls`, `SWaiterCalls`). Once a program
  has removed them the hand of a cook may be empty and calls are no longer counted; what
  stays is `SLimits`: no table is given twice, no customer is called more than twice. As a customer
  is told before its order is placed, a customer counts as told (`sTold`) when its waiter
  has placed the order. The balance of the orders and the calls for a cook (`CookCalls`) is part of the
  invariant here: that a cook which is woken finds an order (`SPrepareOrder` takes the front
  without asking) is what keeps its hands in order, and needs it.
* `StudentCalls` is `CallsCoverDuties`, type correctness included.
* `StudentServes`: `Spec => ServesUntilRemoved`. Telling a customer is not seen; what places
  the order for the customers is the step after it.
* `StudentHangIsExplained`: `WaitsInVainExplained`. If neither its waiter has left nor the
  announcement was in vain, the order is with a cook or in the queue. But all
  cooks cannot have left, or the semaphores were removed, and a cook that waits to be
  called has no order left, by `CookCalls`.

`SchedulerProofs`, for any number of processes, any quanta and any `proc.txt`, from
`SchedulerAssumption`:

* What is in the heap. An order that is no order of all events is enough: the student's
  `compare_events` is not transitive (a timeout, a burst's end and an arrival at one time), but
  of the first two only one is ever pending (`Single`, `EventsOrdered`). `Rise` and
  `Sink` are recursive functions of the place; that they exist is proved by induction
  (`ClimbExists`, `DescendExists`), and so is what they leave (`Risen`, `Sunk`), in the general
  form in which `makeheap` needs it: below some place everything is a heap, above it nothing is
  said. `EventPushed`, `EventPopped`, `Pushed` and `MadeHeap` are the results, for heaps of any size.
* `Invariance`: `SchedulerInv` = types, bounds of `bno` and `Loop`. `Loop` says that every process is
  in one place (`Placed`), that the event which ends a time on the CPU is of the process
  that runs, and that when it comes the k-th of the queue has been ready for at most n - k
  quanta (`Timely`). `BoundedWait` alone is not inductive, as it does not say how far off
  that event is or how long those in front may take; and a process that joins the queue behind k others
  is in time only because the one that runs is not among them (`QueueFits`).
* `EveryProcessIsOnce`, `WaitIsBounded` and `TimeMovesOn` (no event comes out of the heap late)
  follow from it.
* `AccountsKept`: one program adds up waiting and idle time as it goes, the other derives them
  from turnaround and burst times. They agree by `Accounts`: what a process
  has waited, been given (`Given`) and spent in IO (`Away`) fills the time from its arrival up to
  its next event, or up to its place in the queue (`Books`), and what the CPU has given to all and
  its idle time fill the time of the round (`Filled`). So the report of a round is in
  either program a function of who exits when (`Summary`, `ReportIs`).
* `BothPrintTheSame`: `SameOutput`, by `OrderKept`. A round is looked at without what the programs do
  differently (`Seen`): the pending events as a set (`Plain`: an arrival and an IO's end
  are alike), the queue, who runs, what is left of whose burst, the exits, the time. What an
  event does to that is an operator of both (`Effect`), and every step takes the root of
  the heap and has its effect (`Stepping`). The instructor's order of simultaneous events
  (`Sooner`) is total, so that a round has one way to go (`Follows`, `History`), and two
  rounds which end have the same end (`OneEnd`). The student's order differs where the end of a burst
  meets an arrival. It may then take the end (`Early`) before processes that the instructor's
  takes into the queue first. But the end adds nothing to the queue, and whether it finds
  the queue empty or not, the one that runs next is the first of those who come at that
  time or were there (`Commute`). So the invariant `InOrder` says that the student's program is where the
  instructor's way leads, or one end ahead of it (`OnTheWay`). That what comes of a step is later than
  what it takes needs bursts, IO and quanta of at least 1, as `SchedulerAssumption` has them.

`LeaderFollowersProofs`, for any `n`, any finite set of processes and both
versions, from `LeaderAssumption`:

* `Invariance`: `Inv` = `TypeOK`, `Numbers` (a process with the turn has a number
  in 1..n), `Joining`, `StartsComplete` and, with `UniqueIds`, `Turns` (the turn has not moved since a process
  saw it), `Signs` (it is negative only when the leader has announced the end)
  and `Drawn` (the numbers below the turn have drawn). `UniqueIds` is itself no
  invariant; but a member keeps its number (`MembersKept`), so that numbers which
  are unique after a step were unique before it.
* `TurnsAreExclusive` and `RoundsComplete` need all of them: exclusion because a
  second process at work would have seen the same number, completeness because
  only the one whose turn it is draws.
* `StartsAreComplete` needs no uniqueness. `Joining`: `M[1]` may fall back, as updates are
  lost, but never counts more followers than have stored a number, since who is about to
  store k has found k-1 there and what was reached stays reached (`ReachedKept`).
* `TypeCorrect`: `M[2]` stays in -n..n whatever was lost at the join.

`BallGameProofs`, for any number of children and both versions, from `GameAssumption`:

* `Invariance`: `Inv` = `Types`, `Stacks` (at most one handler per signal, of which only the
  innermost still has something to do), `Token`, `Exits` (who has exited), `Table` and
  `Count` (the parent's table and the answer it has got against `ball` and `missed`),
  `Notes` (what each child remembers), `Lines` (what is printed so far is right) and `Claims`.
* `OneBall` is not inductive: that nothing else is pending when a signal is sent needs
  `Token`, which says where the one thing is that is under way. It is the ball, the
  answer, the `SIGUSR1` of the line or the `SIGINT`, pending at one process or being
  worked on by one child, in the phase that the parent's place (`post`) stands for; and
  nothing is under way when the parent itself is at work. A handler that has only to
  return counts as `idle`, so that handlers which nest (the instructor's parent does so in
  every round) do not matter; the instructor's child in `tellmiss` after a catch is such.
* `Notes` needs to know whose entry the line still lacks (`ToPrint`, `Untold`).
  `LinesTrueAlways` follows from it, `OneBallAlways` from `Token` and `Table`, and
  `OneCanWinAlways` from `Claims` and `Count`: at the end one player is in play, and it
  is the one that never missed. That `find_next_player` finds one in play, whoever that
  is, is `FindsPlayer`.

`FoodokuProofs`, for any height and width of the board, both versions and any boards of the
generator, from `FoodokuAssumption`:

* `Invariance`: `Inv` = `Types`, `InHand`, `Addressed`, `Waits`, `Quits`, `BoardsComing`,
  `Shown`, `OwnBlock`, `Matched`, `AskedInTime` and `Pairs`. The many actions have a few
  effects on the pipes, what they put at the end of one and take from the front of another
  (`StepEffects`, `BlockAnswers`, `BlockFlows`).
* `SolutionKept` is `Shown`: a block shows the solution, or a board is on its way to it. A put
  that is still under way does not disturb that, since none follows the solution in a pipe
  (`Quits`), and a put into a cell that is taken is refused (`SolutionIsFull`).
* `WaitersServed` follows from `Waits`, that a block which waits has its question or the answer
  in a pipe unless the question was thrown away, and from `Quits`: if the other has exited
  without answering, the waiting block's own `q` is in its pipe and ends the wait.
* `NoClash`: that the digits of a block differ is `OwnBlock`. `Pairs` is about two neighbours that
  have misread nothing. They show no clash (`Apart`); what one of them is about to put and
  has the other's `no` for, the other does not show (`Free`); and they never have each
  other's `no` at the same time (`OneOfTwo`), because a block that waits answers nobody.
  That is inductive with `Matched` (such a block has at most one question or answer under
  way, at the neighbour it has got to) and, across a change of boards, with `NotYet` and
  `AskedInTime`: a block with the new board asks only blocks whose new board has
  been sent, and they read it before the question.

`PagingProofs`, for any numbers of processes, searches, frames and pages and both versions
of A9 and A10, from `SearchAssumption`, `FitsAssumption` (A9) and `ReplacementAssumption` (A10):

* `EveryoneIsAccounted` (A9), from `Inv` = `Types`, `Line` (a process is in one queue or searches,
  and otherwise has ended), `Counts`, `Keeps`, `Total` and `Cover`. `Total` says that what
  those in memory (`Here`) have loaded and what is free add up to all frames.
  `EveryoneAccounted` alone is not inductive: that a process which is swapped in finds frames
  for its essential pages needs `Keeps`, that whoever is in memory has its own. As
  each step changes one process's page table, the sets of loaded pages are taken apart
  and put together process by process (`OwnedJoin`, `OwnedLeave`, `OwnedLoad`), and the loop over a
  page table gives back each loaded page once (`LoadedOnce`, `FramesReleased`).
* `SwapInNeverFails` (A9): the exit for want of frames is never taken. The instructor's
  program makes no test there, and needs none.
* `LabelsAreTrue` (A10), from `RInv` = `RTypes`, `RLine`, `RTotal`, `RCover`, `Labels` and `Aged`.
  That an exchange leaves every other frame with the contents that its page or its label
  names needs that no frame is in two places. That is not part of the invariant but
  follows from it by counting (`InOnePlace`): there are as many places, entries of the free list and
  loaded pages, as frames (`RTotal`), and every frame is in one of them (`RCover`).
* `VictimsLeastRecent` (A10) is an action property. `Aged` bounds the history of each loaded page
  from both sides by its age (`Fits`): a page last used a searches ago has bit `HistoryBits` - 1 - a set and
  none above. A shift keeps this (`ShiftFits`), and of two histories the
  smaller is that of the older page or of one of the same age (`SmallerIsOlder`). So the victim is
  as old as any other page among the candidates; what the student's search passes over has
  all bits set, and is as young as can be. The value of a bit is the recursive function `Bit`,
  whose equations are proved from its definition (`DoublesExist`).

What is only model-checked: everything about liveness (`SessionEnds`, `SimulationEnds`,
`EndsUnlessStranded`, `OneWinner` and the like), since the prover has no rule for fairness; and that
`Hangs` in A6 and A8 is what it says, no step being possible. Every safety invariant that a
run checks is proved.

## 5. Not modelled

* A1: `rebuild` starts a process per dependency and waits for it before it starts the
  next, so that no two of them run at once and the file they share is never
  contended; what is left is a depth-first traversal of a graph that the lab takes to be acyclic.
* A4's board generator (`FoodokuAssumption` states what it is relied on for), the
  descriptors that blocks and coordinator leave open, and the 3x3 board.
* The demonstrations in `notes/` and `sample_codes/`, each of one or two system calls.
* The statistics that A9 and A10 print, except the degree of multiprogramming.
* A11 keeps no state. The input generators draw random numbers once; the models
  take their inputs from the sets these draw from.
* Printing, `fflush`, lengths of delays, and memory that is freed when a
  session is torn down (A7: other boats may still run then, see the hazards).
* Starting up: the programs of A5 and A6 are taken to be started in the right
  order, the ones that wait for shared memory after it has been set up.
* Spurious wakeups in A8 (see above).

## 6. State and outlook

Modelled and checked: both versions of A2, A3, A4, A5, A6, A7, A8, A9 and A10, with abstract
services for A6, A7 and A8. Proved for all of these: the invariants, the event heap
of A3 and that its two programs print the same, the safety check of A8, and the refinement of `TableService`, `RideService` and `Banker` by both versions
of each (of `TableService` by the student's restaurant until the semaphores are removed).

What would come next: A1, if its graphs need not be acyclic, and the walk of A11.
