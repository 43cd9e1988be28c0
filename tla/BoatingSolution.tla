-------------------------- MODULE BoatingSolution --------------------------
(***************************************************************************)
(* Lab A7, A7/LA7_Solution/boating.c.  The visitors and the two semaphores *)
(* are those of Boating, the boats differ: a boat announces itself before  *)
(* it initialises its barrier, puts itself back in the table at the end of *)
(* the ride and not at the start of the next round, reads BT outside bmtx, *)
(* and the boat that ends the last ride goes on after EOS until main       *)
(* cancels it.  Its global n is pending_visitors here.                     *)
(***************************************************************************)
EXTENDS Boating

SolutionBoatSteps ==
    {"announce", "initBarrier", "postRider", "takeBoat", "barrier", "castOff",
     "readTime", "ride", "eos", "pastEOS"}

SInit ==
    /\ boat = NewSemaphore
    /\ rider = NewSemaphore
    /\ BA = [b \in Boats |-> FALSE]
    /\ BC = [b \in Boats |-> NoVisitor]
    /\ BT = [b \in Boats |-> NoVisitor]
    /\ BB = [b \in Boats |-> {}]
    /\ EOS = {}
    /\ pending_visitors = Cardinality(Visitors)
    /\ visitor_id = [b \in Boats |-> NoVisitor]
    /\ ride_duration = [b \in Boats |-> NoVisitor]
    /\ found_boat = [v \in Visitors |-> 0]
    /\ bpc = [b \in Boats |-> "announce"]
    /\ vpc = [v \in Visitors |-> "sightsee"]
    /\ mpc = "eos"
    /\ spurious \in BOOLEAN

(* No visitor is back from sightseeing, at least 3 seconds, before every   *)
(* boat has started and initialised its barrier, which takes no time.      *)
BoatsReady == \A b \in Boats : bpc[b] \notin {"announce", "initBarrier"}

Announce(b) ==
    /\ BoatGoes(b, "announce", "initBarrier")
    /\ BA' = [BA EXCEPT ![b] = TRUE]
    /\ BC' = [BC EXCEPT ![b] = NoVisitor]
    /\ UNCHANGED <<semVars, BT, BB, EOS, pending_visitors, localVars>>

InitBarrier(b) ==
    /\ BoatGoes(b, "initBarrier", "postRider")
    /\ BB' = [BB EXCEPT ![b] = {}]
    /\ UNCHANGED <<semVars, tableVars, EOS, pending_visitors, localVars>>

(* Mutant of SCastOff: the boat resets BC at the start of the ride.        *)
SCastOffFrees(b) ==
    /\ b \notin BB[b]
    /\ BoatGoes(b, "castOff", "readTime")
    /\ visitor_id' = [visitor_id EXCEPT ![b] = BC[b]]
    /\ BC' = [BC EXCEPT ![b] = NoVisitor]
    /\ UNCHANGED <<semVars, BA, BT, BB, EOS, pending_visitors, ride_duration,
                   found_boat>>

SCastOff(b) ==
    /\ b \notin BB[b]
    /\ BoatGoes(b, "castOff", "readTime")
    /\ visitor_id' = [visitor_id EXCEPT ![b] = BC[b]]
    /\ BA' = [BA EXCEPT ![b] = FALSE]
    /\ UNCHANGED <<semVars, BC, BT, BB, EOS, pending_visitors, ride_duration,
                   found_boat>>

ReadTime(b) ==
    /\ BoatGoes(b, "readTime", "ride")
    /\ ride_duration' = [ride_duration EXCEPT ![b] = BT[b]]
    /\ UNCHANGED <<semVars, tableVars, BB, EOS, pending_visitors, visitor_id,
                   found_boat>>

(* Mutant of SEndRide: the end is announced one ride early. *)
SEndRideEarly(b) ==
    /\ BoatGoes(b, "ride", IF pending_visitors - 1 <= 1 THEN "eos" ELSE "postRider")
    /\ BA' = [BA EXCEPT ![b] = TRUE]
    /\ BC' = [BC EXCEPT ![b] = NoVisitor]
    /\ pending_visitors' = pending_visitors - 1
    /\ BB' = [BB EXCEPT ![b] = IF pending_visitors - 1 = 0 THEN @ ELSE {}]
    /\ UNCHANGED <<semVars, BT, EOS, localVars>>

SEndRide(b) ==
    /\ BoatGoes(b, "ride", IF pending_visitors - 1 = 0 THEN "eos" ELSE "postRider")
    /\ BA' = [BA EXCEPT ![b] = TRUE]
    /\ BC' = [BC EXCEPT ![b] = NoVisitor]
    /\ pending_visitors' = pending_visitors - 1
    /\ BB' = [BB EXCEPT ![b] = IF pending_visitors - 1 = 0 THEN @ ELSE {}]
    /\ UNCHANGED <<semVars, BT, EOS, localVars>>

SBoatAtEOS(b) ==
    /\ BoatGoes(b, "eos", "pastEOS")
    /\ EOS' = Arrive(EOS, b)
    /\ UNCHANGED <<semVars, tableVars, BB, pending_visitors, localVars>>

SBoatGoesOn(b) ==
    /\ b \notin EOS
    /\ BoatGoes(b, "pastEOS", "postRider")
    /\ UNCHANGED <<semVars, tableVars, BB, EOS, pending_visitors, localVars>>

(* bmain, rmain and main *)
SBoat(b) ==
    \/ Announce(b) \/ InitBarrier(b) \/ PostRider(b) \/ TakeBoat(b)
    \/ BoatAtBarrier(b) \/ SCastOff(b) \/ ReadTime(b) \/ SEndRide(b)
    \/ SBoatAtEOS(b) \/ SBoatGoesOn(b)

SVisitor(v) == BoatsReady /\ VisitorStep(v)

SMain == MainStep

SNext == \/ \E b \in Boats : SBoat(b)
         \/ \E v \in Visitors : SVisitor(v)
         \/ SMain
         \/ WakeUnsignalled

SSpec == SInit /\ [][SNext]_vars

(* Every thread that can take a step is eventually scheduled. *)
SFairSpec == /\ SSpec
             /\ \A b \in Boats : WF_vars(SBoat(b))
             /\ \A v \in Visitors : WF_vars(SVisitor(v))
             /\ WF_vars(SMain)
-----------------------------------------------------------------------------
(* Properties *)

(* From its release at the barrier to the end of the ride. *)
Afloat(b) == OnWater(b) \/ bpc[b] = "readTime"

SUnfinished ==
    {v \in Visitors : ~HasBoarded(v) \/ \E b \in Boats : Afloat(b) /\ BC[b] = v}

(* While a boat is on the water its entry of BC and BT, which it reads in  *)
(* two places and only the first under bmtx (lines 73 and 78), is that of  *)
(* one visitor, who found this boat and has come out of its barrier; and   *)
(* nobody is left there to be dropped when it is initialised again at the  *)
(* end of the ride (line 89).                                              *)
SBookingStable ==
    \A b \in Boats : Afloat(b) =>
        /\ BC[b] \in Visitors
        /\ HasBoarded(BC[b])
        /\ found_boat[BC[b]] = b
        /\ BT[b] = BC[b]
        /\ bpc[b] # "castOff" => visitor_id[b] = BC[b]
        /\ bpc[b] = "ride" => ride_duration[b] = BC[b] /\ BB[b] = {}

SService == INSTANCE RideService WITH
    aboard  <- [b \in Boats |-> IF Afloat(b) THEN BC[b] ELSE NoVisitor],
    boarded <- {v \in Visitors : HasBoarded(v)},
    served  <- Visitors \ SUnfinished,
    closed  <- mpc \in {"exit", "exited"}

(* This version implements the same service: one ride per visitor, one     *)
(* visitor per boat, and main passes EOS after the last ride.              *)
SImplementsRideService == SService!Spec
=============================================================================
