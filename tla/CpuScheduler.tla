---------------------------- MODULE CpuScheduler ----------------------------
(***************************************************************************)
(* Lab A3: one CPU, processes that alternate CPU bursts and IO bursts, and *)
(* a simulation by events that are kept in a heap.  A process that is      *)
(* ready waits in a FIFO queue and runs for at most a quantum.             *)
(*                                                                         *)
(* The student's program (A3/schedule.c) and the instructor's              *)
(* (A3/solution/schedule.c) order simultaneous events differently, build   *)
(* the heap differently and compute waiting and idle time in different     *)
(* ways.  The model runs one after the other on the same proc.txt, each    *)
(* once per quantum, and keeps what they print.                            *)
(*                                                                         *)
(* One iteration of the loop over the events is one step.  Both queues     *)
(* hold at most one entry per process, for which the arrays are large      *)
(* enough.                                                                 *)
(***************************************************************************)
EXTENDS Integers, Sequences, FiniteSets, Folds

CONSTANTS
    n,          (* the number of processes                                 *)
    Quanta,     (* 10^9, 10 and 5 in the code                              *)
    Inputs      (* what proc.txt may say                                   *)

Processes == 1..n

ASSUME SchedulerAssumption ==
    /\ n \in Nat \ {0}
    /\ Quanta \in Seq(Nat \ {0}) /\ Quanta # <<>>
    /\ \A J \in Inputs : \A p \in Processes :
          /\ J[p].atime \in Nat /\ J[p].CPUB # <<>>
          /\ J[p].CPUB \in Seq(Nat \ {0}) /\ J[p].IOB \in Seq(Nat \ {0})
          /\ Len(J[p].IOB) = Len(J[p].CPUB) - 1

VARIABLES
    J,           (* the contents of proc.txt, never changes                *)
    version,     (* which program runs, "none" after both                  *)
    round,       (* which call of schedule                                 *)
    phase,       (* "start" or "run" of schedule                           *)
    now,         (* the time of the last event                             *)
    EQ,          (* the event heap, EQ[1] is the root                      *)
    RQ,          (* the ready queue                                        *)
    running,     (* the process on the CPU, or 0                           *)
    bno, rbt,    (* per process: burst, what remains of it                 *)
    since,       (* per process: last_state_change                         *)
    wait,        (* per process: wait_time                                 *)
    idle,        (* cpu_idle_time                                          *)
    exits,       (* printed in this round: who exits when                  *)
    output       (* printed before: per program, one record per round      *)

vars == <<J, version, round, phase, now, EQ, RQ, running, bno, rbt, since,
          wait, idle, exits, output>>

quantum == Quanta[round]
SumOver(f, S) == MapThenFoldSet(+, 0, LAMBDA x : f[x], LAMBDA T : CHOOSE x \in T : TRUE, S)
Total(s) == SumOver(s, DOMAIN s)

-----------------------------------------------------------------------------
(* The event heap *)

Joins == {"arrival", "io"}
rank == [arrival |-> 1, io |-> 1, end |-> 2, timeout |-> 3]

(* Mutant of Before: the student's program does not look at the types. *)
BeforeByNumber(a, b) ==
    \/ a.time < b.time
    \/ a.time = b.time /\ version = "student" /\ a.p < b.p
    \/ a.time = b.time /\ version = "instructor"
         /\ \/ rank[a.type] < rank[b.type]
            \/ rank[a.type] = rank[b.type] /\ a.p < b.p

(* compare_events; eventcmp                                                *)
Before(a, b) ==
    \/ a.time < b.time
    \/ a.time = b.time /\ version = "student"
         /\ IF a.type = "timeout" /\ b.type \in Joins THEN FALSE
            ELSE (a.type \in Joins /\ b.type = "timeout") \/ a.p < b.p
    \/ a.time = b.time /\ version = "instructor"
         /\ \/ rank[a.type] < rank[b.type]
            \/ rank[a.type] = rank[b.type] /\ a.p < b.p

(* Event e rises from the hole at i, ...                                   *)
Rise(H, i0, e) ==
    LET up[i \in DOMAIN H] ==
            IF i = 1 \/ ~Before(e, H[i \div 2]) THEN [H EXCEPT ![i] = e]
            ELSE [up[i \div 2] EXCEPT ![i] = H[i \div 2]]
    IN  up[i0]

(* Mutant of Sink: only the left child is looked at. *)
SinkLeft(H, i0, e) ==
    LET down[i \in DOMAIN H] ==
            IF 2 * i \in DOMAIN H /\ Before(H[2 * i], e)
            THEN [down[2 * i] EXCEPT ![i] = H[2 * i]]
            ELSE [H EXCEPT ![i] = e]
    IN  down[i0]

(* ... or sinks from it: the left child is compared with it first, then    *)
(* the right one with the earlier of these two.                            *)
Sink(H, i0, e) ==
    LET at(i, j) == IF i = j THEN e ELSE H[j]
        earlier(i, j, c) == IF c \in DOMAIN H /\ Before(H[c], at(i, j)) THEN c ELSE j
        smallest(i) == earlier(i, earlier(i, i, 2 * i), 2 * i + 1)
        down[i \in DOMAIN H] ==
            IF smallest(i) = i THEN [H EXCEPT ![i] = e]
            ELSE [down[smallest(i)] EXCEPT ![i] = H[smallest(i)]]
    IN  down[i0]

push_event(H, e) == Rise(Append(H, e), Len(H) + 1, e)

pop_event(H) ==
    LET rest == SubSeq(H, 1, Len(H) - 1) IN
    IF rest = <<>> THEN rest ELSE Sink(rest, 1, H[Len(H)])

(* The heap at the start: the arrivals pushed one by one, or sunk from the *)
(* last parent to the root.                                                *)
Arrivals == SubSeq([p \in Processes |-> [time |-> J[p].atime, p |-> p, type |-> "arrival"]],
                   1, n)

pushed ==
    LET heap[i \in 0..n] ==
            IF i = 0 THEN <<>> ELSE push_event(heap[i - 1], Arrivals[i])
    IN  heap[n]

makeheap ==
    LET heap[i \in 1..(n \div 2 + 1)] ==
            IF i > n \div 2 THEN Arrivals ELSE Sink(heap[i + 1], i, heap[i + 1][i])
    IN  heap[1]

-----------------------------------------------------------------------------
Init ==
    /\ J \in Inputs
    /\ version = "student" /\ round = 1 /\ phase = "start"
    /\ now = 0 /\ EQ = <<>> /\ RQ = <<>> /\ running = 0
    /\ bno = [p \in Processes |-> 1] /\ rbt = [p \in Processes |-> 0]
    /\ since = [p \in Processes |-> 0] /\ wait = [p \in Processes |-> 0]
    /\ idle = 0 /\ exits = <<>>
    /\ output = [v \in {"student", "instructor"} |-> <<>>]

(* schedule, before its loop *)
Begin ==
    /\ version # "none" /\ phase = "start"
    /\ phase' = "run"
    /\ now' = 0 /\ idle' = 0 /\ RQ' = <<>> /\ running' = 0
    /\ bno' = [p \in Processes |-> 1]
    /\ rbt' = [p \in Processes |-> J[p].CPUB[1]]
    /\ since' = [p \in Processes |-> 0]
    /\ EQ' = IF version = "student" THEN pushed ELSE makeheap
    /\ exits' = <<>>
    /\ UNCHANGED <<J, version, round, wait, output>>

(* Mutant of Dispatch: what runs is the whole burst, whatever the quantum. *)
DispatchWhole(t, evs, queue, free, rem, from) ==
    IF free /\ queue # <<>>
    THEN LET x == Head(queue) IN
         /\ EQ' = push_event(evs, [time |-> t + rem[x], p |-> x, type |-> "end"])
         /\ RQ' = Tail(queue) /\ running' = x
         /\ rbt' = [rem EXCEPT ![x] = 0]
         /\ wait' = [wait EXCEPT ![x] = @ + t - from[x]]
         /\ since' = [from EXCEPT ![x] = t]
    ELSE /\ EQ' = evs /\ RQ' = queue /\ running' = IF free THEN 0 ELSE running
         /\ rbt' = rem /\ since' = from
         /\ UNCHANGED wait

(* The end of an iteration, at time t: when the CPU is free the first of   *)
(* the ready queue runs until its burst or the quantum is over.            *)
Dispatch(t, evs, queue, free, rem, from) ==
    IF free /\ queue # <<>>
    THEN LET x == Head(queue)
             run == IF rem[x] <= quantum THEN rem[x] ELSE quantum
         IN /\ EQ' = push_event(evs, [time |-> t + run, p |-> x,
                                      type |-> IF run = rem[x] THEN "end" ELSE "timeout"])
            /\ RQ' = Tail(queue) /\ running' = x
            /\ rbt' = [rem EXCEPT ![x] = @ - run]
            /\ wait' = [wait EXCEPT ![x] = @ + t - from[x]]
            /\ since' = [from EXCEPT ![x] = t]
    ELSE /\ EQ' = evs /\ RQ' = queue /\ running' = IF free THEN 0 ELSE running
         /\ rbt' = rem /\ since' = from
         /\ UNCHANGED wait

(* An event of one of these types is taken from the heap. *)
Take(types) ==
    /\ phase = "run" /\ EQ # <<>> /\ EQ[1].type \in types
    /\ now' = EQ[1].time
    /\ idle' = IF running = 0 THEN idle + EQ[1].time - now ELSE idle
    /\ UNCHANGED <<J, version, round, phase, output>>

(* PROCESS_ARRIVAL, IO_BURST_END; ARRIVAL *)
Join ==
    /\ Take(Joins)
    /\ LET p == EQ[1].p t == EQ[1].time IN
       Dispatch(t, pop_event(EQ), Append(RQ, p), running = 0, rbt, [since EXCEPT ![p] = t])
    /\ UNCHANGED <<bno, exits>>

(* CPU_TIMEOUT; TIMEOUT *)
TimeOut ==
    /\ Take({"timeout"})
    /\ LET p == EQ[1].p t == EQ[1].time IN
       Dispatch(t, pop_event(EQ), Append(RQ, p), TRUE, rbt, [since EXCEPT ![p] = t])
    /\ UNCHANGED <<bno, exits>>

(* CPU_BURST_END; CPUBURSTEND, and there is another burst *)
StartIO ==
    /\ Take({"end"})
    /\ LET p == EQ[1].p
           t == EQ[1].time
           back == [time |-> t + J[p].IOB[bno[p]], p |-> p,
                    type |-> IF version = "student" THEN "io" ELSE "arrival"]
       IN /\ bno[p] < Len(J[p].CPUB)
          /\ bno' = [bno EXCEPT ![p] = @ + 1]
          /\ Dispatch(t, push_event(pop_event(EQ), back), RQ, TRUE,
                      [rbt EXCEPT ![p] = J[p].CPUB[bno[p] + 1]], [since EXCEPT ![p] = t])
    /\ UNCHANGED exits

(* The same, and there is none.  The student's program has counted the     *)
(* time in the ready queue, the instructor's subtracts.                    *)
Exit ==
    /\ Take({"end"})
    /\ LET p == EQ[1].p
           t == EQ[1].time
           tat == t - J[p].atime
       IN /\ bno[p] = Len(J[p].CPUB)
          /\ exits' = Append(exits,
                 [time |-> t, p |-> p, tat |-> tat,
                  wait |-> IF version = "student" THEN wait[p]
                           ELSE tat - (Total(J[p].CPUB) + Total(J[p].IOB))])
          /\ Dispatch(t, pop_event(EQ), RQ, TRUE, rbt, [since EXCEPT ![p] = t])
    /\ UNCHANGED bno

Busy == SumOver([p \in Processes |-> Total(J[p].CPUB)], Processes)

Report ==
    [exits |-> exits, total |-> now,
     wait |-> IF version = "student" THEN SumOver(wait, Processes)
              ELSE Total([i \in DOMAIN exits |-> exits[i].wait]),
     idle |-> IF version = "student" THEN idle ELSE now - Busy]

(* The totals; then reset_processes and the next quantum, or the other     *)
(* program.                                                                *)
Finish ==
    /\ phase = "run" /\ EQ = <<>>
    /\ output' = [output EXCEPT ![version] = Append(@, Report)]
    /\ phase' = "start"
    /\ wait' = [p \in Processes |-> 0]
    /\ IF round < Len(Quanta) THEN round' = round + 1 /\ UNCHANGED version
       ELSE round' = 1 /\ version' = IF version = "student" THEN "instructor" ELSE "none"
    /\ UNCHANGED <<J, now, EQ, RQ, running, bno, rbt, since, idle, exits>>

Next == Begin \/ Join \/ TimeOut \/ StartIO \/ Exit \/ Finish

Spec == Init /\ [][Next]_vars

-----------------------------------------------------------------------------
(* Properties *)

(* The two programs print the same exits, waiting times, totals and idle   *)
(* times, whatever the order in which they take simultaneous events.       *)
SameOutput == version = "none" => output["student"] = output["instructor"]

(* The event at the root is the next one; and a process that has not       *)
(* exited is in one place: it is ready, or one event will move it, and     *)
(* that is the end of its time on the CPU only if it runs.                 *)
EveryProcessOnce ==
    phase = "run" =>
        /\ \A i \in DOMAIN EQ : i # 1 => Before(EQ[1], EQ[i])
        /\ \A p \in Processes :
              LET pending == {i \in DOMAIN EQ : EQ[i].p = p}
                  queued == {i \in DOMAIN RQ : RQ[i] = p}
                  gone == \E i \in DOMAIN exits : exits[i].p = p
              IN  /\ Cardinality(pending) + Cardinality(queued) = IF gone THEN 0 ELSE 1
                  /\ (running = p) <=> \E i \in pending : EQ[i].type \notin Joins

(* Nobody is ready for longer than all others may run once, and the CPU is *)
(* not idle meanwhile.                                                     *)
BoundedWait ==
    phase = "run" =>
        \A i \in DOMAIN RQ : running # 0 /\ now - since[RQ[i]] <= (n - 1) * quantum

=============================================================================
