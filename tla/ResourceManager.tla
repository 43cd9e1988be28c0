-------------------------- MODULE ResourceManager --------------------------
(***************************************************************************)
(* Lab A8, A8/resource.c: user threads put requests in a bounded queue     *)
(* under reqMutex; a master thread takes them out one by one, books what   *)
(* they return, keeps what they ask for in a queue of its own, and grants  *)
(* what it can: all that is available or, compiled with _DLAVOID, what     *)
(* also leaves a safe state.  A thread that asked for something sleeps on  *)
(* its condition variable until the master signals it; it does so in a     *)
(* step of its own, after it has let go of reqMutex, and without testing   *)
(* any condition.  A wait is taken to end only when it is signalled.       *)
(*                                                                         *)
(* The tables are touched by the master alone, so each request it books    *)
(* and each pending request it examines is one step.  Delays take no time. *)
(***************************************************************************)
EXTENDS Session

CONSTANTS MAX_QUEUE_SIZE   (* the capacity of each queue                   *)

ASSUME ManagerAssumption ==
    MAX_QUEUE_SIZE \in Nat /\ Cardinality(Threads) <= MAX_QUEUE_SIZE

VARIABLES
    available, allocation, need,   (* the tables                           *)
    requestQueue,                  (* from the threads to the master       *)
    pendingQueue, tempQueue,       (* the master's locals                  *)
    activeThreads

tables == <<available, allocation, need>>
vars == <<Avoid, available, allocation, need, requestQueue, pendingQueue, tempQueue,
          activeThreads, mpc, tpc, held, sent>>

Init ==
    /\ Avoid \in BOOLEAN
    /\ available = Total
    /\ allocation = [t \in Threads |-> Zero]
    /\ need = maxNeed
    /\ requestQueue = <<>>
    /\ pendingQueue = <<>>
    /\ tempQueue = <<>>
    /\ activeThreads = Cardinality(Threads)
    /\ mpc = "receive"
    /\ tpc = [t \in Threads |-> "delay"]
    /\ held = [t \in Threads |-> Zero]
    /\ sent = [t \in Threads |-> 0]

Running == mpc # "overflow"

-----------------------------------------------------------------------------
(* userThread *)

(* enqueueRequest by thread t, which then goes on at `to'. *)
Send(t, req, to) ==
    /\ Running
    /\ tpc[t] = "delay"
    /\ Len(requestQueue) < MAX_QUEUE_SIZE
    /\ requestQueue' = Append(requestQueue, req)
    /\ tpc' = [tpc EXCEPT ![t] = to]
    /\ UNCHANGED <<tables, pendingQueue, tempQueue, activeThreads, mpc>>

(* enqueueRequest on a full queue: the whole process exits. *)
Overflow(t) ==
    /\ Running
    /\ tpc[t] = "delay"
    /\ Len(requestQueue) = MAX_QUEUE_SIZE
    /\ mpc' = "overflow"
    /\ UNCHANGED <<tables, requestQueue, pendingQueue, tempQueue,
                   activeThreads, tpc, script>>

(* An R line: the request's type says whether it asks for anything. *)
SendR(t, q) ==
    /\ sent[t] < MaxRequests
    /\ IF IsZero(Wanted(q))
       THEN Send(t, [type |-> "RELEASE", thread |-> t, resources |-> q], "delay")
       ELSE Send(t, [type |-> "ADDITIONAL", thread |-> t, resources |-> q], "sent")
    /\ held' = [held EXCEPT ![t] = Add(@, q)]
    /\ sent' = [sent EXCEPT ![t] = @ + 1]

SendQ(t) ==
    /\ Send(t, [type |-> "QUIT", thread |-> t, resources |-> Zero], "done")
    /\ UNCHANGED script

(* pthread_cond_wait on the thread's own condition variable. *)
Sleep(t) ==
    /\ Running
    /\ tpc[t] = "sent"
    /\ tpc' = [tpc EXCEPT ![t] = "asleep"]
    /\ UNCHANGED <<tables, requestQueue, pendingQueue, tempQueue,
                   activeThreads, mpc, script>>

-----------------------------------------------------------------------------
(* masterThread *)

(* Where the master goes after a request, or after its first pass. *)
AfterBooking(pending, active) ==
    IF Len(pending) > 0 THEN "second" ELSE IF active > 0 THEN "receive" ELSE "done"

Book(t, q) ==
    /\ available' = Add(available, Returned(q))
    /\ allocation' = [allocation EXCEPT ![t] = Sub(@, Returned(q))]
    /\ need' = [need EXCEPT ![t] = Add(@, Returned(q))]

(* Mutants of ReceiveQuit: the allocation is not cleared, or the pending   *)
(* requests are not tried again.                                           *)
ReceiveQuitKeeps ==
    /\ mpc = "receive" /\ requestQueue # <<>>
    /\ Head(requestQueue).type = "QUIT"
    /\ LET t == Head(requestQueue).thread
       IN  /\ available' = Add(available, allocation[t])
           /\ need' = [need EXCEPT ![t] = Zero]
    /\ activeThreads' = activeThreads - 1
    /\ requestQueue' = Tail(requestQueue)
    /\ mpc' = AfterBooking(pendingQueue, activeThreads')
    /\ UNCHANGED <<allocation, pendingQueue, tempQueue, tpc, script>>

ReceiveQuitIdle ==
    /\ mpc = "receive" /\ requestQueue # <<>>
    /\ Head(requestQueue).type = "QUIT"
    /\ LET t == Head(requestQueue).thread
       IN  /\ available' = Add(available, allocation[t])
           /\ allocation' = [allocation EXCEPT ![t] = Zero]
           /\ need' = [need EXCEPT ![t] = Zero]
    /\ activeThreads' = activeThreads - 1
    /\ requestQueue' = Tail(requestQueue)
    /\ mpc' = IF activeThreads' > 0 THEN "receive" ELSE "done"
    /\ UNCHANGED <<pendingQueue, tempQueue, tpc, script>>

ReceiveQuit ==
    /\ mpc = "receive" /\ requestQueue # <<>>
    /\ Head(requestQueue).type = "QUIT"
    /\ LET t == Head(requestQueue).thread
       IN  /\ available' = Add(available, allocation[t])
           /\ allocation' = [allocation EXCEPT ![t] = Zero]
           /\ need' = [need EXCEPT ![t] = Zero]
    /\ activeThreads' = activeThreads - 1
    /\ requestQueue' = Tail(requestQueue)
    /\ mpc' = AfterBooking(pendingQueue, activeThreads')
    /\ UNCHANGED <<pendingQueue, tempQueue, tpc, script>>

ReceiveRelease ==
    /\ mpc = "receive" /\ requestQueue # <<>>
    /\ Head(requestQueue).type = "RELEASE"
    /\ Book(Head(requestQueue).thread, Head(requestQueue).resources)
    /\ requestQueue' = Tail(requestQueue)
    /\ mpc' = AfterBooking(pendingQueue, activeThreads)
    /\ UNCHANGED <<pendingQueue, tempQueue, activeThreads, tpc, script>>

(* pendingQueue has room: a thread has at most one request pending, and    *)
(* there are no more threads than entries (TypeOK).                        *)
ReceiveAdditional ==
    /\ mpc = "receive" /\ requestQueue # <<>>
    /\ Head(requestQueue).type = "ADDITIONAL"
    /\ Book(Head(requestQueue).thread, Head(requestQueue).resources)
    /\ pendingQueue' =
          Append(pendingQueue, [Head(requestQueue) EXCEPT !.resources = Wanted(@)])
    /\ requestQueue' = Tail(requestQueue)
    /\ mpc' = "first"
    /\ UNCHANGED <<tempQueue, activeThreads, tpc, script>>

isSafeState(t, q) ==
    issafe(Threads, Sub(available, q), [allocation EXCEPT ![t] = Add(@, q)],
           [need EXCEPT ![t] = Sub(@, q)])

(* Mutant of CanGrant: the state is checked as it is before the grant. *)
CanGrantStale(p) ==
    /\ Leq(p.resources, available)
    /\ Avoid => issafe(Threads, available, allocation, need)

CanGrant(p) ==
    /\ Leq(p.resources, available)
    /\ Avoid => isSafeState(p.thread, p.resources)

(* The master takes the first pending request in pass `pass': it grants it *)
(* and signals the thread, or puts it aside.                               *)
GrantFirst(pass) ==
    /\ mpc = pass /\ pendingQueue # <<>>
    /\ CanGrant(Head(pendingQueue))
    /\ LET t == Head(pendingQueue).thread
           q == Head(pendingQueue).resources
       IN  /\ available' = Sub(available, q)
           /\ allocation' = [allocation EXCEPT ![t] = Add(@, q)]
           /\ need' = [need EXCEPT ![t] = Sub(@, q)]
           /\ tpc' = [tpc EXCEPT ![t] = IF @ = "asleep" THEN "delay" ELSE @]
    /\ pendingQueue' = Tail(pendingQueue)
    /\ UNCHANGED <<requestQueue, tempQueue, activeThreads, mpc, script>>

DeferFirst(pass) ==
    /\ mpc = pass /\ pendingQueue # <<>>
    /\ ~CanGrant(Head(pendingQueue))
    /\ tempQueue' = Append(tempQueue, Head(pendingQueue))
    /\ pendingQueue' = Tail(pendingQueue)
    /\ UNCHANGED <<tables, requestQueue, activeThreads, mpc, tpc, script>>

EndPass(pass) ==
    /\ mpc = pass /\ pendingQueue = <<>>
    /\ pendingQueue' = tempQueue
    /\ tempQueue' = <<>>
    /\ mpc' = IF pass = "first" THEN AfterBooking(tempQueue, activeThreads)
              ELSE IF activeThreads > 0 THEN "receive" ELSE "done"
    /\ UNCHANGED <<tables, requestQueue, activeThreads, tpc, script>>

Master ==
    /\ \/ ReceiveQuit \/ ReceiveRelease \/ ReceiveAdditional
       \/ \E pass \in {"first", "second"} :
             GrantFirst(pass) \/ DeferFirst(pass) \/ EndPass(pass)
    /\ UNCHANGED Avoid

UserStep(t) ==
    /\ \/ \E q \in ScriptRequests(held[t], maxNeed[t]) : SendR(t, q)
       \/ SendQ(t) \/ Overflow(t) \/ Sleep(t)
    /\ UNCHANGED Avoid

Next == Master \/ \E t \in Threads : UserStep(t)

Spec == Init /\ [][Next]_vars

-----------------------------------------------------------------------------
(* Properties *)

(* The shape of the state.  No count goes negative or above the total, and *)
(* no queue exceeds its capacity.                                          *)
TypeOK ==
    LET Requests == [type : {"QUIT", "RELEASE", "ADDITIONAL"}, thread : Threads,
                     resources : [Resources -> -Cap..Cap]]
    IN  /\ available \in Counts
        /\ allocation \in [Threads -> Counts] /\ need \in [Threads -> Counts]
        /\ held \in [Threads -> Counts] /\ sent \in [Threads -> 0..MaxRequests]
        /\ requestQueue \in Seq(Requests) /\ Len(requestQueue) <= MAX_QUEUE_SIZE
        /\ pendingQueue \in Seq(Requests) /\ tempQueue \in Seq(Requests)
        /\ Len(pendingQueue) + Len(tempQueue) <= MAX_QUEUE_SIZE
        /\ activeThreads \in 0..Cardinality(Threads)
        /\ mpc \in {"receive", "first", "second", "done", "overflow"}
        /\ tpc \in [Threads -> {"delay", "sent", "asleep", "done"}]

(* The threads whose QUIT has not been processed. *)
Live == {t \in Threads :
            \/ tpc[t] # "done"
            \/ \E i \in DOMAIN requestQueue : /\ requestQueue[i].thread = t
                                              /\ requestQueue[i].type = "QUIT"}

Waiting == pendingQueue \o tempQueue

(* Nothing is created or lost: free and allocated resources add up to the  *)
(* total, a thread's allocation and need to its claim until it quits, and  *)
(* until a queue overflows a thread holds, by its script, what the master  *)
(* has booked for it and what its requests that are still on their way or  *)
(* pending will change.                                                    *)
Conserved ==
    /\ TypeOK
    /\ Work(available, allocation, Threads) = Total
    /\ \A t \in Live : Add(allocation[t], need[t]) = maxNeed[t]
    /\ Running => \A t \in Live :
          held[t] = FoldLeft(LAMBDA sum, p : IF p.thread = t THEN Add(sum, p.resources)
                                             ELSE sum,
                             allocation[t], requestQueue \o Waiting)

(* Thread t has a request that the master has booked and not granted. *)
IsPending(t) == \E i \in DOMAIN Waiting : Waiting[i].thread = t

(* The master waits for a request, and no thread will make one.  (Written  *)
(* out, so that it can be reasoned about: it is ~ENABLED Next.)            *)
Hangs == /\ mpc = "receive" /\ requestQueue = <<>>
         /\ \A t \in Threads : tpc[t] \in {"asleep", "done"}

(* When the master turns to the next request it has left none ungranted    *)
(* that it could grant, although a grant made late in a pass follows the   *)
(* refusal of others and each release changes what is safe.  And the       *)
(* session hangs for one of two reasons only: without avoidance the        *)
(* threads may be in a real deadlock, so that there is no order in which   *)
(* they could finish; or one of them fell asleep after its grant had been  *)
(* signalled, and the others wait for what it holds.                       *)
WaitingExplained ==
    LET missed == \E t \in Live : tpc[t] = "asleep" /\ ~IsPending(t)
    IN  /\ mpc = "receive" => \A i \in DOMAIN pendingQueue : ~CanGrant(pendingQueue[i])
        /\ Hangs => missed \/ (~Avoid /\ ~issafe(Live, available, allocation, need))

(* Under avoidance the manager is a banker: a thread waits, for the        *)
(* banker, from when its request is booked to when it is granted, and is   *)
(* there until its QUIT is processed.                                      *)
PendingOf(t) ==
    IF IsPending(t) THEN Waiting[CHOOSE i \in DOMAIN Waiting : Waiting[i].thread = t].resources
    ELSE None

Banker == INSTANCE Banker WITH live <- Live,
                               pending <- [t \in Threads |-> PendingOf(t)]

ImplementsBanker == Banker!Init /\ [][Avoid => Banker!Next]_(Banker!vars)
=============================================================================
