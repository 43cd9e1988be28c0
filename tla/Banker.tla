------------------------------- MODULE Banker -------------------------------
(***************************************************************************)
(* What the resource manager of Lab A8 promises in its deadlock-avoidance  *)
(* mode (_DLAVOID), without queues, locks and condition variables.  A      *)
(* thread announces the most it will ever need, returns resources at once, *)
(* waits for those it asks for, and gives everything back when it quits.   *)
(* A request is granted only if the threads can still finish one after the *)
(* other afterwards.                                                       *)
(***************************************************************************)
EXTENDS ResourceClaims

VARIABLES available,   (* free resources                                   *)
          allocation,  (* what each thread holds                           *)
          need,        (* what each thread may still ask for               *)
          pending,     (* what each thread waits for, or None              *)
          live         (* the threads that have not quit                   *)

vars == <<available, allocation, need, pending, live>>

-----------------------------------------------------------------------------
Init ==
    /\ available = Total
    /\ allocation = [t \in Threads |-> Zero]
    /\ need = maxNeed
    /\ pending = [t \in Threads |-> None]
    /\ live = Threads

(* Thread t returns `back' and then waits for `want', unless it is zero.   *)
Request(t, back, want) ==
    /\ t \in live
    /\ pending[t] = None
    /\ Leq(back, allocation[t])
    /\ Leq(want, need[t])
    /\ available' = Add(available, back)
    /\ allocation' = [allocation EXCEPT ![t] = Sub(@, back)]
    /\ need' = [need EXCEPT ![t] = Add(@, back)]
    /\ pending' = [pending EXCEPT ![t] = IF IsZero(want) THEN None ELSE want]
    /\ live' = live

(* What granting thread t's request needs. *)
Grantable(t) ==
    /\ t \in live
    /\ pending[t] # None
    /\ Leq(pending[t], available)
    /\ Safe(live, Sub(available, pending[t]),
            [allocation EXCEPT ![t] = Add(@, pending[t])],
            [need EXCEPT ![t] = Sub(@, pending[t])])

Grant(t) ==
    /\ Grantable(t)
    /\ available' = Sub(available, pending[t])
    /\ allocation' = [allocation EXCEPT ![t] = Add(@, pending[t])]
    /\ need' = [need EXCEPT ![t] = Sub(@, pending[t])]
    /\ pending' = [pending EXCEPT ![t] = None]
    /\ live' = live

Quit(t) ==
    /\ t \in live
    /\ pending[t] = None
    /\ available' = Add(available, allocation[t])
    /\ allocation' = [allocation EXCEPT ![t] = Zero]
    /\ need' = [need EXCEPT ![t] = Zero]
    /\ live' = live \ {t}
    /\ UNCHANGED pending

Next == \E t \in Threads :
           \/ \E back, want \in Counts : Request(t, back, want)
           \/ Grant(t)
           \/ Quit(t)

Spec == Init /\ [][Next]_vars

-----------------------------------------------------------------------------
(* Properties *)

(* The shape of the state.  Nothing goes negative: no more is granted than *)
(* there is, no more returned than is held, no more asked than is needed.  *)
TypeOK ==
    /\ available \in Counts
    /\ allocation \in [Threads -> Counts]
    /\ need \in [Threads -> Counts]
    /\ pending \in [Threads -> [Resources -> Nat] \cup {None}]
    /\ live \subseteq Threads

(* Whatever a live thread holds and may still ask for adds up to what it   *)
(* announced, and what it waits for is part of what it may ask for.        *)
ClaimsKept ==
    \A t \in live : /\ maxNeed[t] = Add(allocation[t], need[t])
                    /\ pending[t] # None => Leq(pending[t], need[t])

(* The live threads can finish one after the other. *)
SafeState == Safe(live, available, allocation, need)

(* The threads are never all waiting for a grant that cannot be given:     *)
(* when every live thread waits, the request of one of them is grantable.  *)
SomeoneCanProceed ==
    (live # {} /\ \A t \in live : pending[t] # None) => \E t \in live : Grantable(t)
=============================================================================
