------------------------------ MODULE Boating ------------------------------
(***************************************************************************)
(* Lab A7, A7/boating.c: boats and visitors meet through two counting      *)
(* semaphores, a table of free boats under the mutex bmtx, and one barrier *)
(* per boat.  A visitor posts `boat' and waits on `rider'; a boat does the *)
(* opposite; the visitor then takes the free boat of lowest index, and the *)
(* two meet at that boat's barrier.  The boat that ends the last ride      *)
(* meets the main thread at the barrier EOS.                               *)
(*                                                                         *)
(* The critical sections of bmtx are one step each.  The sleeps that stand *)
(* for sightseeing and riding take no time here: any interleaving of the   *)
(* threads may be the one their durations produce.                         *)
(***************************************************************************)
EXTENDS Integers, FiniteSets, PthreadSync

CONSTANTS NumBoats,   (* m: the boats are 1..m                             *)
          Visitors,   (* the visitors; n is their number                   *)
          NoVisitor,  (* BC[b] = -1                                        *)
          Main        (* the main thread                                   *)

Boats == 1..NumBoats

ASSUME BoatingAssumption ==
    /\ NumBoats \in Nat \ {0}
    /\ IsFiniteSet(Visitors)
    /\ Visitors # {}
    /\ Visitors \cap Boats = {}
    /\ NoVisitor \notin Visitors
    /\ Main \notin Visitors \cup Boats

VARIABLES
    boat, rider,       (* the two semaphores                               *)
    BA,                (* BA[b]: boat b is available                       *)
    BC,                (* BC[b]: the visitor who took boat b               *)
    BT,                (* BT[b]: whose ride time boat b was given          *)
    BB,                (* BB[b]: the threads blocked in boat b's barrier   *)
    EOS,               (* the threads blocked in the end-of-session barrier*)
    pending_visitors,  (* rides not yet ended                              *)
    visitor_id,        (* each boat thread's local: the visitor it carries *)
    ride_duration,     (* each boat thread's local: whose time it rides    *)
    found_boat,        (* each visitor thread's local; 0 is the code's -1  *)
    bpc, vpc, mpc,     (* program counters of boats, visitors and main     *)
    spurious           (* whether pthread_cond_wait may return unsignalled;*)
                       (* never changes                                    *)

semVars  == <<boat, rider>>
tableVars == <<BA, BC, BT>>
localVars == <<visitor_id, ride_duration, found_boat>>
vars == <<boat, rider, BA, BC, BT, BB, EOS, pending_visitors, visitor_id,
          ride_duration, found_boat, bpc, vpc, mpc, spurious>>

BoatSteps == {"offer", "postRider", "takeBoat", "barrier", "castOff", "ride",
              "eos", "return", "returned"}
VisitorSteps == {"sightsee", "takeRider", "find", "board", "ride", "left"}
MainSteps == {"eos", "teardown", "exit", "exited"}

Init ==
    /\ boat = NewSemaphore
    /\ rider = NewSemaphore
    /\ BA = [b \in Boats |-> FALSE]
    /\ BC = [b \in Boats |-> NoVisitor]
    /\ BT = [b \in Boats |-> NoVisitor]
    /\ BB = [b \in Boats |-> {}]
    /\ EOS = {}
    /\ pending_visitors = Cardinality(Visitors)
    /\ visitor_id = [b \in Boats |-> NoVisitor]
    /\ ride_duration = [b \in Boats |-> NoVisitor]
    /\ found_boat = [v \in Visitors |-> 0]
    /\ bpc = [b \in Boats |-> "offer"]
    /\ vpc = [v \in Visitors |-> "sightsee"]
    /\ mpc = "eos"
    /\ spurious \in BOOLEAN

(* The process is gone once main returns. *)
Running == mpc # "exited"

BoatGoes(b, from, to) ==
    /\ Running
    /\ bpc[b] = from
    /\ bpc' = [bpc EXCEPT ![b] = to]
    /\ UNCHANGED <<vpc, mpc, spurious>>

VisitorGoes(v, from, to) ==
    /\ Running
    /\ vpc[v] = from
    /\ vpc' = [vpc EXCEPT ![v] = to]
    /\ UNCHANGED <<bpc, mpc, spurious>>

-----------------------------------------------------------------------------
(* boat_thread *)

(* Mutant of Offer: BC is not reset. *)
OfferKeepsBooking(b) ==
    /\ BoatGoes(b, "offer", "postRider")
    /\ BA' = [BA EXCEPT ![b] = TRUE]
    /\ UNCHANGED <<semVars, BC, BT, BB, EOS, pending_visitors, localVars>>

(* Before its first pass a boat initialises its own barrier; nobody can    *)
(* take the boat before it is offered here.                                *)
Offer(b) ==
    /\ BoatGoes(b, "offer", "postRider")
    /\ BA' = [BA EXCEPT ![b] = TRUE]
    /\ BC' = [BC EXCEPT ![b] = NoVisitor]
    /\ UNCHANGED <<semVars, BT, BB, EOS, pending_visitors, localVars>>

PostRider(b) ==
    /\ BoatGoes(b, "postRider", "takeBoat")
    /\ rider' \in V(rider)
    /\ UNCHANGED <<boat, tableVars, BB, EOS, pending_visitors, localVars>>

TakeBoat(b) ==
    /\ BoatGoes(b, "takeBoat", "barrier")
    /\ boat' = P(boat, b)
    /\ UNCHANGED <<rider, tableVars, BB, EOS, pending_visitors, localVars>>

BoatAtBarrier(b) ==
    /\ b \notin boat.waiting
    /\ BoatGoes(b, "barrier", "castOff")
    /\ BB' = [BB EXCEPT ![b] = Arrive(@, b)]
    /\ UNCHANGED <<semVars, tableVars, EOS, pending_visitors, localVars>>

(* Mutant of CastOff: the boat does not wait at its barrier. *)
CastOffAlone(b) ==
    /\ BoatGoes(b, "castOff", "ride")
    /\ visitor_id' = [visitor_id EXCEPT ![b] = BC[b]]
    /\ ride_duration' = [ride_duration EXCEPT ![b] = BT[b]]
    /\ BA' = [BA EXCEPT ![b] = FALSE]
    /\ UNCHANGED <<semVars, BC, BT, BB, EOS, pending_visitors, found_boat>>

CastOff(b) ==
    /\ b \notin BB[b]
    /\ BoatGoes(b, "castOff", "ride")
    /\ visitor_id' = [visitor_id EXCEPT ![b] = BC[b]]
    /\ ride_duration' = [ride_duration EXCEPT ![b] = BT[b]]
    /\ BA' = [BA EXCEPT ![b] = FALSE]
    /\ UNCHANGED <<semVars, BC, BT, BB, EOS, pending_visitors, found_boat>>

EndRide(b) ==
    /\ BoatGoes(b, "ride", IF pending_visitors - 1 <= 0 THEN "eos" ELSE "offer")
    /\ pending_visitors' = pending_visitors - 1
    /\ UNCHANGED <<semVars, tableVars, BB, EOS, localVars>>

BoatAtEOS(b) ==
    /\ BoatGoes(b, "eos", "return")
    /\ EOS' = Arrive(EOS, b)
    /\ UNCHANGED <<semVars, tableVars, BB, pending_visitors, localVars>>

BoatReturns(b) ==
    /\ b \notin EOS
    /\ BoatGoes(b, "return", "returned")
    /\ UNCHANGED <<semVars, tableVars, BB, EOS, pending_visitors, localVars>>

BoatStep(b) ==
    \/ Offer(b) \/ PostRider(b) \/ TakeBoat(b) \/ BoatAtBarrier(b)
    \/ CastOff(b) \/ EndRide(b) \/ BoatAtEOS(b) \/ BoatReturns(b)

-----------------------------------------------------------------------------
(* visitor_thread *)

PostBoat(v) ==
    /\ VisitorGoes(v, "sightsee", "takeRider")
    /\ boat' \in V(boat)
    /\ UNCHANGED <<rider, tableVars, BB, EOS, pending_visitors, localVars>>

TakeRider(v) ==
    /\ VisitorGoes(v, "takeRider", "find")
    /\ rider' = P(rider, v)
    /\ UNCHANGED <<boat, tableVars, BB, EOS, pending_visitors, localVars>>

(* Mutant of FreeBoats: the scan forgets to test BC[i] == -1. *)
FreeBoatsUnchecked == {b \in Boats : BA[b]}

FreeBoats == {b \in Boats : BA[b] /\ BC[b] = NoVisitor}

(* The scan under bmtx takes the free boat of lowest index; when there is  *)
(* none the visitor sleeps and scans again, which changes nothing.         *)
FindBoat(v) ==
    /\ v \notin rider.waiting
    /\ VisitorGoes(v, "find", "board")
    /\ \E b \in FreeBoats :
          /\ \A c \in FreeBoats : b <= c
          /\ found_boat' = [found_boat EXCEPT ![v] = b]
          /\ BC' = [BC EXCEPT ![b] = v]
          /\ BT' = [BT EXCEPT ![b] = v]
    /\ UNCHANGED <<semVars, BA, BB, EOS, pending_visitors, visitor_id,
                   ride_duration>>

Board(v) ==
    /\ VisitorGoes(v, "board", "ride")
    /\ BB' = [BB EXCEPT ![found_boat[v]] = Arrive(@, v)]
    /\ UNCHANGED <<semVars, tableVars, EOS, pending_visitors, localVars>>

Leave(v) ==
    /\ VisitorGoes(v, "ride", "left")
    /\ v \notin BB[found_boat[v]]
    /\ UNCHANGED <<semVars, tableVars, BB, EOS, pending_visitors, localVars>>

VisitorStep(v) ==
    \/ PostBoat(v) \/ TakeRider(v) \/ FindBoat(v) \/ Board(v) \/ Leave(v)

-----------------------------------------------------------------------------
(* main, from the creation of the threads on *)

MainAtEOS ==
    /\ mpc = "eos"
    /\ mpc' = "teardown"
    /\ EOS' = Arrive(EOS, Main)
    /\ UNCHANGED <<semVars, tableVars, BB, pending_visitors, localVars, bpc, vpc,
                   spurious>>

(* The barriers and the mutex are destroyed and the arrays freed. *)
Teardown ==
    /\ Main \notin EOS
    /\ mpc = "teardown"
    /\ mpc' = "exit"
    /\ UNCHANGED <<semVars, tableVars, BB, EOS, pending_visitors, localVars,
                   bpc, vpc, spurious>>

Exit ==
    /\ mpc = "exit"
    /\ mpc' = "exited"
    /\ UNCHANGED <<semVars, tableVars, BB, EOS, pending_visitors, localVars,
                   bpc, vpc, spurious>>

MainStep == MainAtEOS \/ Teardown \/ Exit

(* The platform: P tests with `if', so a thread woken unsignalled goes on. *)
WakeUnsignalled ==
    /\ spurious
    /\ Running
    /\ \/ boat' \in SpuriousWakeups(boat) /\ UNCHANGED rider
       \/ rider' \in SpuriousWakeups(rider) /\ UNCHANGED boat
    /\ UNCHANGED <<tableVars, BB, EOS, pending_visitors, localVars, bpc, vpc,
                   mpc, spurious>>

Next ==
    \/ \E b \in Boats : BoatStep(b)
    \/ \E v \in Visitors : VisitorStep(v)
    \/ MainStep
    \/ WakeUnsignalled

Spec == Init /\ [][Next]_vars

(* Every thread that can take a step is eventually scheduled. *)
Fairness ==
    /\ \A b \in Boats : WF_vars(BoatStep(b))
    /\ \A v \in Visitors : WF_vars(VisitorStep(v))
    /\ WF_vars(MainStep)

FairSpec == Spec /\ Fairness

-----------------------------------------------------------------------------
(* Properties *)

Semaphores == [value : Int, waiting : SUBSET (Boats \cup Visitors)]

(* The shape of every variable: semaphores, tables, locals and counters.   *)
TypeOK ==
    /\ boat \in Semaphores
    /\ rider \in Semaphores
    /\ BA \in [Boats -> BOOLEAN]
    /\ BC \in [Boats -> Visitors \cup {NoVisitor}]
    /\ BT \in [Boats -> Visitors \cup {NoVisitor}]
    /\ BB \in [Boats -> SUBSET (Boats \cup Visitors)]
    /\ EOS \in SUBSET (Boats \cup {Main})
    /\ pending_visitors \in Int
    /\ visitor_id \in [Boats -> Visitors \cup {NoVisitor}]
    /\ ride_duration \in [Boats -> Visitors \cup {NoVisitor}]
    /\ found_boat \in [Visitors -> Boats \cup {0}]
    /\ bpc \in [Boats -> BoatSteps]
    /\ vpc \in [Visitors -> VisitorSteps]
    /\ mpc \in MainSteps
    /\ spurious \in BOOLEAN

(* Boat b has left the shore: its barrier released it and its ride has not *)
(* ended yet.                                                              *)
OnWater(b) == bpc[b] = "ride" \/ (bpc[b] = "castOff" /\ b \notin BB[b])

(* Visitor v has come out of the barrier of the boat it found. *)
HasBoarded(v) == vpc[v] \in {"ride", "left"} /\ v \notin BB[found_boat[v]]

(* A boat that rides (line 74 on) rides with the visitor who found it, for *)
(* that visitor's time, and that visitor is not waiting at any barrier;    *)
(* the boat read BC and BT in a critical section of its own, well after    *)
(* the visitor wrote them in another.                                      *)
RideAgreement ==
    \A b \in Boats : bpc[b] = "ride" =>
        /\ visitor_id[b] \in Visitors
        /\ HasBoarded(visitor_id[b])
        /\ found_boat[visitor_id[b]] = b
        /\ ride_duration[b] = visitor_id[b]

(* The visitors whose ride has not ended. *)
Unfinished ==
    {v \in Visitors : ~HasBoarded(v) \/ \E b \in Boats : OnWater(b) /\ BC[b] = v}

(* pending_visitors (line 83) counts exactly the visitors whose ride has   *)
(* not ended: no ride is lost and none is counted twice, so that exactly   *)
(* one boat sees it reach 0 and goes to EOS.                               *)
RidesOwed == pending_visitors = Cardinality(Unfinished)

(* When main is past EOS, and so destroys the barriers and frees BA, BC    *)
(* and BT (lines 195-209), nobody is riding and no visitor will look for a *)
(* boat or wait at a barrier again.                                        *)
SessionClosedProperly ==
    (mpc \in {"teardown", "exit", "exited"} /\ Main \notin EOS) =>
        /\ Unfinished = {}
        /\ \A b \in Boats : ~OnWater(b)

(* Why RideAgreement, RidesOwed and SessionClosedProperly hold, conjunct   *)
(* by conjunct: what the table of boats says of the visitors ...           *)
Bookings ==
    /\ \A b \in Boats :
          BA[b] <=> bpc[b] \in {"postRider", "takeBoat", "barrier", "castOff"}
    /\ \A b \in Boats : BC[b] # NoVisitor =>
          /\ vpc[BC[b]] \in {"board", "ride", "left"}
          /\ found_boat[BC[b]] = b
          /\ BT[b] = BC[b]
    /\ \A v \in Visitors :
          /\ vpc[v] \in {"board", "ride", "left"} => found_boat[v] \in Boats
          /\ vpc[v] = "board" => BA[found_boat[v]] /\ BC[found_boat[v]] = v

(* ... who may be waiting at a boat's barrier ...                          *)
Barriers ==
    /\ \A b \in Boats : BB[b] \subseteq {b} \cup Visitors
    /\ \A b \in Boats, v \in Visitors : v \in BB[b] =>
          /\ BC[b] = v
          /\ vpc[v] = "ride"
          /\ bpc[b] \in {"postRider", "takeBoat", "barrier"}
    /\ \A b \in Boats : b \in BB[b] =>
          /\ bpc[b] = "castOff"
          /\ BC[b] # NoVisitor => vpc[BC[b]] = "board"
    /\ \A b \in Boats :
          bpc[b] \in {"postRider", "takeBoat", "barrier"} /\ BC[b] # NoVisitor =>
             vpc[BC[b]] = "board" \/ BC[b] \in BB[b]

(* ... whom a boat on the water carries ...                                *)
Rides ==
    \A b \in Boats :
        /\ OnWater(b) => BC[b] # NoVisitor /\ HasBoarded(BC[b])
        /\ bpc[b] = "ride" => visitor_id[b] = BC[b] /\ ride_duration[b] = BT[b]

(* ... and what it takes to get past EOS.                                  *)
Closing ==
    /\ \A b \in Boats :
          bpc[b] \in {"eos", "return", "returned"} => pending_visitors <= 0
    /\ \A b \in Boats : b \in EOS => bpc[b] = "return"
    /\ mpc # "teardown" => Main \notin EOS
    /\ mpc # "eos" /\ Main \notin EOS => pending_visitors <= 0

(* The inductive invariant: the table, the barriers and the locals of the  *)
(* threads tell one story at every step (lines 56-90 and 109-138).         *)
Inv == TypeOK /\ Bookings /\ Barriers /\ Rides /\ Closing /\ RidesOwed

(* A visitor that gets through P(&rider) finds a free boat at its first    *)
(* scan: only unsignalled wakeups need the retry of lines 125-127.         *)
ScanFindsBoat ==
    ~spurious => \A v \in Visitors : vpc[v] = "find" /\ v \notin rider.waiting => FreeBoats # {}

(* The session implements the ride service. *)
Service == INSTANCE RideService WITH
    aboard  <- [b \in Boats |-> IF OnWater(b) THEN BC[b] ELSE NoVisitor],
    boarded <- {v \in Visitors : HasBoarded(v)},
    served  <- Visitors \ Unfinished,
    closed  <- mpc \in {"exit", "exited"}

(* Every step of the threads is a boarding, the end of a ride, the closing *)
(* of the session, or changes nothing a visitor could see.                 *)
ImplementsRideService == Service!Spec

(* The post a visitor makes wakes some boat, not the boat the visitor then *)
(* takes: that one may go on sleeping in P(&boat).                         *)
Stranded(v) == vpc[v] = "ride" /\ found_boat[v] \in boat.waiting

(* A boat that was woken and that nobody took. *)
Spare(b) == bpc[b] = "castOff" /\ b \in BB[b] /\ BC[b] = NoVisitor

(* Every visitor rides and main returns (lines 191-211), unless the last   *)
(* visitors are stranded, while at least as many boats wait at barriers    *)
(* nobody comes to.  Visitors stranded earlier are saved by later posts.   *)
EndsUnlessStranded ==
    spurious \/ <>[](\/ mpc = "exited"
                    \/ LET stranded == {v \in Visitors : Stranded(v)} IN
                       /\ stranded # {} /\ \A v \in Visitors \ stranded : vpc[v] = "left"
                       /\ Cardinality({b \in Boats : Spare(b)}) >= Cardinality(stranded))
=============================================================================
