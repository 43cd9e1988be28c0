---------------------------- MODULE PthreadSync ----------------------------
(***************************************************************************)
(* The synchronisation objects the labs build from, or take from, pthreads.*)
(* Both keep the set of threads blocked inside the call.  A thread's       *)
(* program counter moves past the call at once; the thread takes its next  *)
(* step only when it is no longer in that set.                             *)
(***************************************************************************)
EXTENDS Integers

(* The counting semaphore made of a mutex and a condition variable.  Its   *)
(* mutex makes each of P and V one step.                                   *)
NewSemaphore == [value |-> 0, waiting |-> {}]

(* P(s) by thread t: one down, and t waits (once) if that is negative. *)
P(s, t) ==
    [value   |-> s.value - 1,
     waiting |-> IF s.value - 1 < 0 THEN s.waiting \cup {t} ELSE s.waiting]

(* Mutant of V: the signal is sent only while the value stays negative, so *)
(* that the last waiting thread is never woken.                            *)
VForgetsLast(s) ==
    LET up == s.value + 1 IN
    IF up < 0 /\ s.waiting # {}
    THEN {[value |-> up, waiting |-> s.waiting \ {t}] : t \in s.waiting}
    ELSE {[value |-> up, waiting |-> s.waiting]}

(* The semaphores V(s) can leave behind: one up, and if that is not        *)
(* positive pthread_cond_signal wakes one waiting thread, whichever; it    *)
(* does nothing when nobody waits.                                         *)
V(s) ==
    LET up == s.value + 1 IN
    IF up <= 0 /\ s.waiting # {}
    THEN {[value |-> up, waiting |-> s.waiting \ {t}] : t \in s.waiting}
    ELSE {[value |-> up, waiting |-> s.waiting]}

(* POSIX lets pthread_cond_wait return without a signal. *)
SpuriousWakeups(s) == {[s EXCEPT !.waiting = @ \ {t}] : t \in s.waiting}

(* A pthread_barrier_t for two threads, as the set of threads waiting in   *)
(* it: the second to arrive releases the first and leaves it empty.        *)
Arrive(barrier, t) == IF barrier = {} THEN {t} ELSE {}
=============================================================================
