--------------------------- MODULE BoatingProofs ---------------------------
(***************************************************************************)
(* Proofs about Boating and BoatingSolution for any number of boats and    *)
(* visitors, with or without unsignalled wake-ups: first the student's     *)
(* version, its inductive invariant Inv, what follows from it, and the     *)
(* refinement of RideService; then the same for the instructor's, with     *)
(* SInv.  The lemmas on the semaphores serve both.                         *)
(***************************************************************************)
EXTENDS BoatingSolution, FiniteSetTheorems, TLAPS

(* P keeps a semaphore well formed (lines 15-22). *)
LEMMA PType ==
    ASSUME NEW s \in Semaphores, NEW t \in Boats \cup Visitors
    PROVE  P(s, t) \in Semaphores
BY DEF P, Semaphores

(* So does V, whichever thread it wakes (lines 24-31). *)
LEMMA VType ==
    ASSUME NEW s \in Semaphores
    PROVE  \A r \in V(s) : r \in Semaphores
<1>1. s.value + 1 \in Int /\ s.waiting \in SUBSET (Boats \cup Visitors)
      BY DEF Semaphores
<1>2. \A t : [value |-> s.value + 1, waiting |-> s.waiting \ {t}] \in Semaphores
      BY <1>1 DEF Semaphores
<1>3. [value |-> s.value + 1, waiting |-> s.waiting] \in Semaphores
      BY <1>1 DEF Semaphores
<1> QED BY <1>2, <1>3 DEF V

(* And an unsignalled wake-up. *)
LEMMA WakeType ==
    ASSUME NEW s \in Semaphores
    PROVE  \A r \in SpuriousWakeups(s) : r \in Semaphores
BY DEF SpuriousWakeups, Semaphores

-----------------------------------------------------------------------------
(* Every step of every thread keeps the shape of the state. *)
LEMMA TypeStep == TypeOK /\ [Next]_vars => TypeOK'
<1> SUFFICES ASSUME TypeOK, [Next]_vars PROVE TypeOK'
    OBVIOUS
<1> USE BoatingAssumption DEF TypeOK, BoatSteps, VisitorSteps, MainSteps,
        BoatGoes, VisitorGoes, semVars, tableVars, localVars
<1>1. ASSUME NEW b \in Boats, Offer(b) PROVE TypeOK'
      BY <1>1 DEF Offer
<1>2. ASSUME NEW b \in Boats, PostRider(b) PROVE TypeOK'
      BY <1>2, VType DEF PostRider
<1>3. ASSUME NEW b \in Boats, TakeBoat(b) PROVE TypeOK'
      BY <1>3, PType DEF TakeBoat
<1>4. ASSUME NEW b \in Boats, BoatAtBarrier(b) PROVE TypeOK'
  <2>1. Arrive(BB[b], b) \in SUBSET (Boats \cup Visitors)
        BY DEF Arrive
  <2> QED BY <1>4, <2>1 DEF BoatAtBarrier
<1>5. ASSUME NEW b \in Boats, CastOff(b) PROVE TypeOK'
      BY <1>5 DEF CastOff
<1>6. ASSUME NEW b \in Boats, EndRide(b) PROVE TypeOK'
      BY <1>6 DEF EndRide
<1>7. ASSUME NEW b \in Boats, BoatAtEOS(b) PROVE TypeOK'
  <2>1. Arrive(EOS, b) \in SUBSET (Boats \cup {Main})
        BY DEF Arrive
  <2> QED BY <1>7, <2>1 DEF BoatAtEOS
<1>8. ASSUME NEW b \in Boats, BoatReturns(b) PROVE TypeOK'
      BY <1>8 DEF BoatReturns
<1>9. ASSUME NEW v \in Visitors, PostBoat(v) PROVE TypeOK'
      BY <1>9, VType DEF PostBoat
<1>10. ASSUME NEW v \in Visitors, TakeRider(v) PROVE TypeOK'
      BY <1>10, PType DEF TakeRider
<1>11. ASSUME NEW v \in Visitors, FindBoat(v) PROVE TypeOK'
      BY <1>11 DEF FindBoat, FreeBoats
<1>12. ASSUME NEW v \in Visitors, Board(v) PROVE TypeOK'
  <2>1. Arrive(BB[found_boat[v]], v) \in SUBSET (Boats \cup Visitors)
        BY <1>12 DEF Board, Arrive
  <2> QED BY <1>12, <2>1 DEF Board
<1>13. ASSUME NEW v \in Visitors, Leave(v) PROVE TypeOK'
      BY <1>13 DEF Leave
<1>14. ASSUME MainStep PROVE TypeOK'
  <2>1. Arrive(EOS, Main) \in SUBSET (Boats \cup {Main})
        BY DEF Arrive
  <2> QED BY <1>14, <2>1 DEF MainStep, MainAtEOS, Teardown, Exit
<1>15. ASSUME WakeUnsignalled PROVE TypeOK'
      BY <1>15, WakeType DEF WakeUnsignalled
<1>16. ASSUME UNCHANGED vars PROVE TypeOK'
      BY <1>16 DEF vars
<1> QED
    BY <1>1, <1>2, <1>3, <1>4, <1>5, <1>6, <1>7, <1>8, <1>9, <1>10, <1>11,
       <1>12, <1>13, <1>14, <1>15, <1>16
       DEF Next, BoatStep, VisitorStep
(* The table of boats goes on saying the truth about the visitors. *)
LEMMA BookingsStep == TypeOK /\ Bookings /\ Barriers /\ Rides /\ [Next]_vars => Bookings'
<1> SUFFICES ASSUME TypeOK, Bookings, Barriers, Rides, [Next]_vars PROVE Bookings'
    OBVIOUS
<1> USE BoatingAssumption DEF TypeOK, Bookings, Barriers, Rides, OnWater,
        HasBoarded, BoatGoes, VisitorGoes, semVars, tableVars, localVars
<1>1. ASSUME NEW b \in Boats, Offer(b) PROVE Bookings'
      BY <1>1 DEF Offer
<1>2. ASSUME NEW b \in Boats, PostRider(b) PROVE Bookings'
      BY <1>2 DEF PostRider
<1>3. ASSUME NEW b \in Boats, TakeBoat(b) PROVE Bookings'
      BY <1>3 DEF TakeBoat
<1>4. ASSUME NEW b \in Boats, BoatAtBarrier(b) PROVE Bookings'
      BY <1>4 DEF BoatAtBarrier, Arrive
<1>5. ASSUME NEW b \in Boats, CastOff(b) PROVE Bookings'
      BY <1>5 DEF CastOff
<1>6. ASSUME NEW b \in Boats, EndRide(b) PROVE Bookings'
      BY <1>6 DEF EndRide
<1>7. ASSUME NEW b \in Boats, BoatAtEOS(b) PROVE Bookings'
      BY <1>7 DEF BoatAtEOS
<1>8. ASSUME NEW b \in Boats, BoatReturns(b) PROVE Bookings'
      BY <1>8 DEF BoatReturns
<1>9. ASSUME NEW v \in Visitors, PostBoat(v) PROVE Bookings'
      BY <1>9 DEF PostBoat
<1>10. ASSUME NEW v \in Visitors, TakeRider(v) PROVE Bookings'
      BY <1>10 DEF TakeRider
<1>11. ASSUME NEW v \in Visitors, FindBoat(v) PROVE Bookings'
      BY <1>11 DEF FindBoat, FreeBoats
<1>12. ASSUME NEW v \in Visitors, Board(v) PROVE Bookings'
      BY <1>12 DEF Board, Arrive
<1>13. ASSUME NEW v \in Visitors, Leave(v) PROVE Bookings'
      BY <1>13 DEF Leave
<1>14. ASSUME MainStep PROVE Bookings'
      BY <1>14 DEF MainStep, MainAtEOS, Teardown, Exit
<1>15. ASSUME WakeUnsignalled PROVE Bookings'
      BY <1>15 DEF WakeUnsignalled
<1>16. ASSUME UNCHANGED vars PROVE Bookings'
      BY <1>16 DEF vars
<1> QED
    BY <1>1, <1>2, <1>3, <1>4, <1>5, <1>6, <1>7, <1>8, <1>9, <1>10, <1>11,
       <1>12, <1>13, <1>14, <1>15, <1>16
       DEF Next, BoatStep, VisitorStep

(* Nobody but a boat and the visitor who took it waits at its barrier. *)
LEMMA BarriersStep == TypeOK /\ Bookings /\ Barriers /\ Rides /\ [Next]_vars => Barriers'
<1> SUFFICES ASSUME TypeOK, Bookings, Barriers, Rides, [Next]_vars PROVE Barriers'
    OBVIOUS
<1> USE BoatingAssumption DEF TypeOK, Bookings, Barriers, Rides, OnWater,
        HasBoarded, BoatGoes, VisitorGoes, semVars, tableVars, localVars
<1>1. ASSUME NEW b \in Boats, Offer(b) PROVE Barriers'
      BY <1>1 DEF Offer
<1>2. ASSUME NEW b \in Boats, PostRider(b) PROVE Barriers'
      BY <1>2 DEF PostRider
<1>3. ASSUME NEW b \in Boats, TakeBoat(b) PROVE Barriers'
      BY <1>3 DEF TakeBoat
<1>4. ASSUME NEW b \in Boats, BoatAtBarrier(b) PROVE Barriers'
      BY <1>4 DEF BoatAtBarrier, Arrive
<1>5. ASSUME NEW b \in Boats, CastOff(b) PROVE Barriers'
      BY <1>5 DEF CastOff
<1>6. ASSUME NEW b \in Boats, EndRide(b) PROVE Barriers'
      BY <1>6 DEF EndRide
<1>7. ASSUME NEW b \in Boats, BoatAtEOS(b) PROVE Barriers'
      BY <1>7 DEF BoatAtEOS
<1>8. ASSUME NEW b \in Boats, BoatReturns(b) PROVE Barriers'
      BY <1>8 DEF BoatReturns
<1>9. ASSUME NEW v \in Visitors, PostBoat(v) PROVE Barriers'
      BY <1>9 DEF PostBoat
<1>10. ASSUME NEW v \in Visitors, TakeRider(v) PROVE Barriers'
      BY <1>10 DEF TakeRider
<1>11. ASSUME NEW v \in Visitors, FindBoat(v) PROVE Barriers'
      BY <1>11 DEF FindBoat, FreeBoats
<1>12. ASSUME NEW v \in Visitors, Board(v) PROVE Barriers'
      BY <1>12 DEF Board, Arrive
<1>13. ASSUME NEW v \in Visitors, Leave(v) PROVE Barriers'
      BY <1>13 DEF Leave
<1>14. ASSUME MainStep PROVE Barriers'
      BY <1>14 DEF MainStep, MainAtEOS, Teardown, Exit
<1>15. ASSUME WakeUnsignalled PROVE Barriers'
      BY <1>15 DEF WakeUnsignalled
<1>16. ASSUME UNCHANGED vars PROVE Barriers'
      BY <1>16 DEF vars
<1> QED
    BY <1>1, <1>2, <1>3, <1>4, <1>5, <1>6, <1>7, <1>8, <1>9, <1>10, <1>11,
       <1>12, <1>13, <1>14, <1>15, <1>16
       DEF Next, BoatStep, VisitorStep

(* A boat on the water has the visitor it is booked for. *)
LEMMA RidesStep == TypeOK /\ Bookings /\ Barriers /\ Rides /\ [Next]_vars => Rides'
<1> SUFFICES ASSUME TypeOK, Bookings, Barriers, Rides, [Next]_vars PROVE Rides'
    OBVIOUS
<1> USE BoatingAssumption DEF TypeOK, Bookings, Barriers, Rides, OnWater,
        HasBoarded, BoatGoes, VisitorGoes, semVars, tableVars, localVars
<1>1. ASSUME NEW b \in Boats, Offer(b) PROVE Rides'
      BY <1>1 DEF Offer
<1>2. ASSUME NEW b \in Boats, PostRider(b) PROVE Rides'
      BY <1>2 DEF PostRider
<1>3. ASSUME NEW b \in Boats, TakeBoat(b) PROVE Rides'
      BY <1>3 DEF TakeBoat
<1>4. ASSUME NEW b \in Boats, BoatAtBarrier(b) PROVE Rides'
      BY <1>4 DEF BoatAtBarrier, Arrive
<1>5. ASSUME NEW b \in Boats, CastOff(b) PROVE Rides'
      BY <1>5 DEF CastOff
<1>6. ASSUME NEW b \in Boats, EndRide(b) PROVE Rides'
      BY <1>6 DEF EndRide
<1>7. ASSUME NEW b \in Boats, BoatAtEOS(b) PROVE Rides'
      BY <1>7 DEF BoatAtEOS
<1>8. ASSUME NEW b \in Boats, BoatReturns(b) PROVE Rides'
      BY <1>8 DEF BoatReturns
<1>9. ASSUME NEW v \in Visitors, PostBoat(v) PROVE Rides'
      BY <1>9 DEF PostBoat
<1>10. ASSUME NEW v \in Visitors, TakeRider(v) PROVE Rides'
      BY <1>10 DEF TakeRider
<1>11. ASSUME NEW v \in Visitors, FindBoat(v) PROVE Rides'
      BY <1>11 DEF FindBoat, FreeBoats
<1>12. ASSUME NEW v \in Visitors, Board(v) PROVE Rides'
      BY <1>12 DEF Board, Arrive
<1>13. ASSUME NEW v \in Visitors, Leave(v) PROVE Rides'
      BY <1>13 DEF Leave
<1>14. ASSUME MainStep PROVE Rides'
      BY <1>14 DEF MainStep, MainAtEOS, Teardown, Exit
<1>15. ASSUME WakeUnsignalled PROVE Rides'
      BY <1>15 DEF WakeUnsignalled
<1>16. ASSUME UNCHANGED vars PROVE Rides'
      BY <1>16 DEF vars
<1> QED
    BY <1>1, <1>2, <1>3, <1>4, <1>5, <1>6, <1>7, <1>8, <1>9, <1>10, <1>11,
       <1>12, <1>13, <1>14, <1>15, <1>16
       DEF Next, BoatStep, VisitorStep

(* Only the end of the last ride lets a boat, and through it main, past    *)
(* EOS.                                                                    *)
LEMMA ClosingStep == TypeOK /\ Closing /\ [Next]_vars => Closing'
<1> SUFFICES ASSUME TypeOK, Closing, [Next]_vars PROVE Closing'
    OBVIOUS
<1> USE BoatingAssumption DEF TypeOK, Closing, BoatGoes, VisitorGoes, Arrive,
        semVars, tableVars, localVars
<1>1. ASSUME NEW b \in Boats, Offer(b) \/ PostRider(b) \/ TakeBoat(b)
                                \/ BoatAtBarrier(b) \/ CastOff(b)
      PROVE  Closing'
      BY <1>1 DEF Offer, PostRider, TakeBoat, BoatAtBarrier, CastOff
<1>2. ASSUME NEW b \in Boats, EndRide(b) PROVE Closing'
      BY <1>2 DEF EndRide
<1>3. ASSUME NEW b \in Boats, BoatAtEOS(b) PROVE Closing'
      BY <1>3 DEF BoatAtEOS
<1>4. ASSUME NEW b \in Boats, BoatReturns(b) PROVE Closing'
      BY <1>4 DEF BoatReturns
<1>5. ASSUME NEW v \in Visitors, VisitorStep(v) PROVE Closing'
      BY <1>5 DEF VisitorStep, PostBoat, TakeRider, FindBoat, Board, Leave
<1>6. ASSUME MainStep PROVE Closing'
      BY <1>6 DEF MainStep, MainAtEOS, Teardown, Exit
<1>7. ASSUME WakeUnsignalled \/ UNCHANGED vars PROVE Closing'
      BY <1>7 DEF WakeUnsignalled, vars
<1> QED
    BY <1>1, <1>2, <1>3, <1>4, <1>5, <1>6, <1>7 DEF Next, BoatStep

(* The set of visitors whose ride is owed loses exactly the one whose ride *)
(* ends, and no other step changes it.                                     *)
LEMMA UnfinishedStep ==
    ASSUME Inv, [Next]_vars
    PROVE  \/ /\ Unfinished' = Unfinished
              /\ pending_visitors' = pending_visitors
           \/ \E v \in Unfinished : /\ Unfinished' = Unfinished \ {v}
                                    /\ pending_visitors' = pending_visitors - 1
<1> DEFINE Same == Unfinished' = Unfinished /\ pending_visitors' = pending_visitors
<1> USE BoatingAssumption DEF Inv, TypeOK, Bookings, Barriers, Rides, OnWater,
        HasBoarded, Unfinished, BoatGoes, VisitorGoes, semVars, tableVars, localVars
<1>1. ASSUME NEW b \in Boats, Offer(b) PROVE Same
      BY <1>1 DEF Offer
<1>2. ASSUME NEW b \in Boats, PostRider(b) PROVE Same
      BY <1>2 DEF PostRider
<1>3. ASSUME NEW b \in Boats, TakeBoat(b) PROVE Same
      BY <1>3 DEF TakeBoat
<1>4. ASSUME NEW b \in Boats, BoatAtBarrier(b) PROVE Same
      BY <1>4 DEF BoatAtBarrier, Arrive
<1>5. ASSUME NEW b \in Boats, CastOff(b) PROVE Same
      BY <1>5 DEF CastOff
<1>6. ASSUME NEW b \in Boats, EndRide(b)
      PROVE  \E v \in Unfinished : /\ Unfinished' = Unfinished \ {v}
                                  /\ pending_visitors' = pending_visitors - 1
  <2>1. BC[b] \in Unfinished
        BY <1>6 DEF EndRide
  <2>2. Unfinished' = Unfinished \ {BC[b]}
        BY <1>6 DEF EndRide
  <2> QED BY <1>6, <2>1, <2>2 DEF EndRide
<1>7. ASSUME NEW b \in Boats, BoatAtEOS(b) \/ BoatReturns(b) PROVE Same
      BY <1>7 DEF BoatAtEOS, BoatReturns
<1>8. ASSUME NEW v \in Visitors, PostBoat(v) \/ TakeRider(v) PROVE Same
      BY <1>8 DEF PostBoat, TakeRider
<1>9. ASSUME NEW v \in Visitors, FindBoat(v) PROVE Same
      BY <1>9 DEF FindBoat, FreeBoats
<1>10. ASSUME NEW v \in Visitors, Board(v) PROVE Same
      BY <1>10 DEF Board, Arrive
<1>11. ASSUME NEW v \in Visitors, Leave(v) PROVE Same
      BY <1>11 DEF Leave
<1>12. ASSUME MainStep PROVE Same
      BY <1>12 DEF MainStep, MainAtEOS, Teardown, Exit
<1>13. ASSUME WakeUnsignalled PROVE Same
      BY <1>13 DEF WakeUnsignalled
<1>14. ASSUME UNCHANGED vars PROVE Same
      BY <1>14 DEF vars
<1> QED
    BY <1>1, <1>2, <1>3, <1>4, <1>5, <1>6, <1>7, <1>8, <1>9, <1>10, <1>11,
       <1>12, <1>13, <1>14 DEF Next, BoatStep, VisitorStep

(* Finitely many rides are owed. *)
LEMMA UnfinishedFinite == IsFiniteSet(Unfinished) /\ Cardinality(Unfinished) \in Nat
<1>1. Unfinished \subseteq Visitors
      BY DEF Unfinished
<1> QED BY <1>1, BoatingAssumption, FS_Subset, FS_CardinalityType
                                   DEF BoatingAssumption

(* The count of rides owed is right after every step. *)
LEMMA RidesOwedStep == Inv /\ [Next]_vars => RidesOwed'
<1> SUFFICES ASSUME Inv, [Next]_vars PROVE RidesOwed'
    OBVIOUS
<1>1. CASE Unfinished' = Unfinished /\ pending_visitors' = pending_visitors
      BY <1>1 DEF Inv, RidesOwed
<1>2. ASSUME NEW v \in Unfinished, Unfinished' = Unfinished \ {v},
             pending_visitors' = pending_visitors - 1
      PROVE  RidesOwed'
  <2>1. Cardinality(Unfinished \ {v}) = Cardinality(Unfinished) - 1
        BY UnfinishedFinite, FS_RemoveElement
  <2> QED BY <1>2, <2>1 DEF Inv, RidesOwed
<1> QED BY <1>1, <1>2, UnfinishedStep

-----------------------------------------------------------------------------
(* The invariant holds at the start. *)
LEMMA InitInv == Init => Inv
<1> SUFFICES ASSUME Init PROVE Inv
    OBVIOUS
<1> USE BoatingAssumption DEF Init
<1>1. TypeOK
  <2>1. Cardinality(Visitors) \in Nat
        BY FS_CardinalityType
  <2>2. NewSemaphore \in Semaphores
        BY DEF NewSemaphore, Semaphores
  <2> QED BY <2>1, <2>2 DEF TypeOK, BoatSteps, VisitorSteps, MainSteps
<1>2. Bookings /\ Barriers /\ Rides /\ Closing
      BY DEF Bookings, Barriers, Rides, Closing, OnWater
<1>3. RidesOwed
  <2>1. Unfinished = Visitors
        BY DEF Unfinished, HasBoarded
  <2> QED BY <2>1 DEF RidesOwed
<1> QED BY <1>1, <1>2, <1>3 DEF Inv

(* The inductive invariant holds in every reachable state. *)
THEOREM Invariance == Spec => []Inv
<1>1. Inv /\ [Next]_vars => Inv'
      BY TypeStep, BookingsStep, BarriersStep, RidesStep, ClosingStep,
         RidesOwedStep DEF Inv
<1> QED BY InitInv, <1>1, PTL DEF Spec

(* The state keeps its shape: the type invariant of A7/boating.c. *)
THEOREM TypeCorrect == Spec => []TypeOK
<1>1. Inv => TypeOK
      BY DEF Inv
<1> QED BY Invariance, <1>1, PTL

(* Whatever the number of boats and visitors, a riding boat carries the    *)
(* visitor who found it, for that visitor's time.                          *)
THEOREM RidesAgree == Spec => []RideAgreement
<1>1. Inv => RideAgreement
      BY BoatingAssumption
         DEF Inv, TypeOK, Bookings, Rides, RideAgreement, OnWater
<1> QED BY Invariance, <1>1, PTL

(* pending_visitors never loses or doubles a ride. *)
THEOREM RidesCounted == Spec => []RidesOwed
<1>1. Inv => RidesOwed
      BY DEF Inv
<1> QED BY Invariance, <1>1, PTL

(* At zero no ride is owed, so nobody is on the water. *)
LEMMA NothingOwed ==
    ASSUME Inv, pending_visitors <= 0
    PROVE  Unfinished = {} /\ pending_visitors = 0 /\ \A b \in Boats : ~OnWater(b)
<1>1. Cardinality(Unfinished) = 0 /\ pending_visitors = 0
      BY UnfinishedFinite DEF Inv, RidesOwed
<1>2. Unfinished = {}
      BY <1>1, UnfinishedFinite, FS_EmptySet
<1>3. \A b \in Boats : OnWater(b) => BC[b] \in Unfinished
      BY DEF Inv, TypeOK, Rides, Unfinished
<1> QED BY <1>1, <1>2, <1>3

(* main tears down only after the last ride, whatever the schedule. *)
THEOREM TeardownIsLast == Spec => []SessionClosedProperly
<1>1. Inv => SessionClosedProperly
      BY NothingOwed DEF Inv, Closing, SessionClosedProperly
<1> QED BY Invariance, <1>1, PTL

-----------------------------------------------------------------------------
(* What the service sees of a state. *)
Aboard  == [b \in Boats |-> IF OnWater(b) THEN BC[b] ELSE NoVisitor]
Boarded == {v \in Visitors : HasBoarded(v)}
Served  == Visitors \ Unfinished
Closed  == mpc \in {"exit", "exited"}

(* At the start nobody is aboard, served or gone. *)
LEMMA InitRefines == Init => Service!Init
<1> SUFFICES ASSUME Init PROVE Service!Init
    OBVIOUS
<1>1. \A b \in Boats : ~OnWater(b)
      BY DEF Init, OnWater
<1>2. \A v \in Visitors : ~HasBoarded(v)
      BY DEF Init, HasBoarded
<1> QED BY <1>1, <1>2 DEF Init, Service!Init, Unfinished

(* The service sees nothing of a step that leaves Aboard, Boarded, Served  *)
(* and Closed alone.                                                       *)
LEMMA QuietRefines ==
    ASSUME UNCHANGED <<Aboard, Boarded, Served, Closed>>
    PROVE  UNCHANGED Service!vars
BY DEF Aboard, Boarded, Served, Closed, Service!vars

(* Nobody is on the water any more when main has torn down. *)
LEMMA ClosedMeansServed ==
    ASSUME Inv, mpc \in {"exit", "exited"} \/ (mpc = "teardown" /\ Main \notin EOS)
    PROVE  Served = Visitors /\ \A b \in Boats : ~OnWater(b)
BY NothingOwed DEF Inv, Closing, Served

(* The meeting at the barrier of boat b is the boarding of the visitor who *)
(* took it, whichever of the two comes second.                             *)
LEMMA MeetingRefines ==
    ASSUME Inv, NEW b \in Boats, NEW v \in Visitors, BC[b] = v, BC' = BC,
           UNCHANGED <<Served, Closed>>, ~HasBoarded(v), ~OnWater(b), OnWater(b)',
           \A c \in Boats \ {b} : OnWater(c)' <=> OnWater(c),
           HasBoarded(v)', \A w \in Visitors \ {v} : HasBoarded(w)' <=> HasBoarded(w)
    PROVE  Service!Board(b, v)
<1>1. Aboard' = [Aboard EXCEPT ![b] = v]
      BY DEF Aboard
<1>2. Boarded' = Boarded \cup {v}
      BY DEF Boarded
<1>3. ~Closed
      BY ClosedMeansServed DEF Closed, Served, Unfinished
<1> QED BY <1>1, <1>2, <1>3
        DEF Service!Board, Aboard, Boarded, Served, Closed

(* Every step of the session is a step of the service, or none. *)
LEMMA StepRefines == Inv /\ [Next]_vars => [Service!Next]_(Service!vars)
<1> SUFFICES ASSUME Inv, [Next]_vars PROVE [Service!Next]_(Service!vars)
    OBVIOUS
<1> DEFINE Quiet == UNCHANGED <<Aboard, Boarded, Served, Closed>>
<1> USE BoatingAssumption DEF Inv, TypeOK, Bookings, Barriers, Rides, OnWater,
        HasBoarded, BoatGoes, VisitorGoes, semVars, tableVars, localVars,
        Aboard, Boarded, Served, Closed, Unfinished
<1>1. ASSUME NEW b \in Boats, Offer(b) PROVE Quiet
      BY <1>1 DEF Offer
<1>2. ASSUME NEW b \in Boats, PostRider(b) \/ TakeBoat(b) PROVE Quiet
      BY <1>2 DEF PostRider, TakeBoat
<1>3. ASSUME NEW b \in Boats, BoatAtBarrier(b)
      PROVE  Quiet \/ \E v \in Visitors : Service!Board(b, v)
  <2>1. CASE BB[b] = {}
        BY <1>3, <2>1 DEF BoatAtBarrier, Arrive
  <2>2. CASE BB[b] # {}
    <3> PICK v \in Visitors : BC[b] = v
        BY <1>3, <2>2 DEF BoatAtBarrier, Arrive
    <3>1. /\ ~HasBoarded(v) /\ HasBoarded(v)'
          /\ ~OnWater(b) /\ OnWater(b)'
          BY <1>3, <2>2 DEF BoatAtBarrier, Arrive
    <3>2. /\ \A c \in Boats \ {b} : OnWater(c)' <=> OnWater(c)
          /\ \A w \in Visitors \ {v} : HasBoarded(w)' <=> HasBoarded(w)
          BY <1>3, <2>2 DEF BoatAtBarrier, Arrive
    <3>3. BC' = BC /\ UNCHANGED <<Served, Closed>>
          BY <1>3, <2>2 DEF BoatAtBarrier, Arrive
    <3> HIDE DEF OnWater, HasBoarded, Served, Closed, Inv, Quiet
    <3> QED BY <3>1, <3>2, <3>3, MeetingRefines
  <2> QED BY <2>1, <2>2
<1>4. ASSUME NEW b \in Boats, CastOff(b) PROVE Quiet
      BY <1>4 DEF CastOff
<1>5. ASSUME NEW b \in Boats, EndRide(b) PROVE Service!Finish(b)
  <2>1. ~Closed
        BY <1>5, ClosedMeansServed DEF EndRide
  <2>2. Aboard[b] = BC[b] /\ BC[b] # NoVisitor /\ BC[b] \notin Served
        BY <1>5 DEF EndRide
  <2>3. Aboard' = [Aboard EXCEPT ![b] = NoVisitor]
        BY <1>5 DEF EndRide
  <2>4. Served' = Served \cup {BC[b]}
        BY <1>5 DEF EndRide
  <2>5. UNCHANGED <<Boarded, Closed>>
        BY <1>5 DEF EndRide
  <2> QED BY <2>1, <2>2, <2>3, <2>4, <2>5 DEF Service!Finish
<1>6. ASSUME NEW b \in Boats, BoatAtEOS(b) \/ BoatReturns(b) PROVE Quiet
      BY <1>6 DEF BoatAtEOS, BoatReturns
<1>7. ASSUME NEW v \in Visitors, PostBoat(v) \/ TakeRider(v) PROVE Quiet
      BY <1>7 DEF PostBoat, TakeRider
<1>8. ASSUME NEW v \in Visitors, FindBoat(v) PROVE Quiet
      BY <1>8 DEF FindBoat, FreeBoats
<1>9. ASSUME NEW v \in Visitors, Board(v)
      PROVE  Quiet \/ \E b \in Boats : Service!Board(b, v)
  <2> PICK b \in Boats : found_boat[v] = b
      BY <1>9 DEF Board
  <2>1. CASE BB[b] = {}
        BY <1>9, <2>1 DEF Board, Arrive
  <2>2. CASE BB[b] # {}
    <3>1. /\ BC[b] = v
          /\ ~HasBoarded(v) /\ HasBoarded(v)'
          /\ ~OnWater(b) /\ OnWater(b)'
          BY <1>9, <2>2 DEF Board, Arrive
    <3>2. /\ \A c \in Boats \ {b} : OnWater(c)' <=> OnWater(c)
          /\ \A w \in Visitors \ {v} : HasBoarded(w)' <=> HasBoarded(w)
          BY <1>9, <2>2 DEF Board, Arrive
    <3>3. BC' = BC /\ UNCHANGED <<Served, Closed>>
          BY <1>9, <2>2 DEF Board, Arrive
    <3> HIDE DEF OnWater, HasBoarded, Served, Closed, Inv, Quiet
    <3> QED BY <3>1, <3>2, <3>3, MeetingRefines
  <2> QED BY <2>1, <2>2
<1>10. ASSUME NEW v \in Visitors, Leave(v) PROVE Quiet
       BY <1>10 DEF Leave
<1>11. ASSUME MainAtEOS \/ Exit PROVE Quiet
       BY <1>11 DEF MainAtEOS, Exit
<1>12. ASSUME Teardown PROVE Service!Close
  <2>1. Served = Visitors /\ \A b \in Boats : ~OnWater(b)
        BY <1>12, ClosedMeansServed DEF Teardown
  <2>2. ~Closed /\ Closed' /\ UNCHANGED <<Aboard, Boarded, Served>>
        BY <1>12 DEF Teardown
  <2> QED BY <2>1, <2>2 DEF Service!Close
<1>13. ASSUME WakeUnsignalled \/ UNCHANGED vars PROVE Quiet
       BY <1>13 DEF WakeUnsignalled, vars
<1>14. Quiet => UNCHANGED Service!vars
       BY QuietRefines
<1>15. (\E b \in Boats, v \in Visitors : Service!Board(b, v)) => Service!Next
       BY DEF Service!Next
<1>16. (\E b \in Boats : Service!Finish(b)) \/ Service!Close => Service!Next
       BY DEF Service!Next
<1> HIDE DEF Quiet
<1> QED
    BY <1>1, <1>2, <1>3, <1>4, <1>5, <1>6, <1>7, <1>8, <1>9, <1>10, <1>11,
       <1>12, <1>13, <1>14, <1>15, <1>16 DEF Next, BoatStep, VisitorStep, MainStep

(* For any number of boats and visitors the boating session implements the *)
(* ride service: one visitor per boat, one ride per visitor, and no close  *)
(* before the last of them is back.                                        *)
THEOREM Refinement == Spec => ImplementsRideService
<1>1. Init => Service!Init
      BY InitRefines
<1>2. Inv /\ [Next]_vars => [Service!Next]_(Service!vars)
      BY StepRefines
<1> QED BY <1>1, <1>2, Invariance, PTL
        DEF Spec, ImplementsRideService, Service!Spec

-----------------------------------------------------------------------------
(* Why a visitor past P(&rider) finds a free boat: as many boats are free  *)
(* as posts of `rider' were not used up plus boats yet to make theirs, and *)
(* who waits on `rider' is exactly who came too early.                     *)
Unposted == {b \in Boats : bpc[b] = "postRider"}
Finding  == {v \in Visitors : vpc[v] = "find"}

Scan ==
    ~spurious =>
        /\ rider.waiting \subseteq Finding
        /\ Cardinality(rider.waiting) = IF rider.value < 0 THEN -rider.value ELSE 0
        /\ Cardinality(FreeBoats) =
               rider.value + Cardinality(Finding) + Cardinality(Unposted)

(* The three sets are finite. *)
LEMMA ScanFinite ==
    /\ IsFiniteSet(FreeBoats) /\ IsFiniteSet(Unposted) /\ IsFiniteSet(Finding)
    /\ Cardinality(FreeBoats) \in Nat /\ Cardinality(Unposted) \in Nat
    /\ Cardinality(Finding) \in Nat
<1>1. IsFiniteSet(Boats)
      BY FS_Interval, BoatingAssumption DEF BoatingAssumption, Boats
<1>2. /\ FreeBoats \subseteq Boats /\ Unposted \subseteq Boats /\ Finding \subseteq Visitors
      BY DEF FreeBoats, Unposted, Finding
<1> QED BY <1>1, <1>2, FS_Subset, FS_CardinalityType, BoatingAssumption
        DEF BoatingAssumption

(* Most steps change neither the semaphore nor the three sets. *)
LEMMA ScanStep == Inv /\ Scan /\ [Next]_vars => Scan'
<1> SUFFICES ASSUME Inv, Scan, [Next]_vars PROVE Scan'
    OBVIOUS
<1> DEFINE Same == UNCHANGED <<spurious, rider, FreeBoats, Finding, Unposted>>
<1>0. Same => Scan'
      BY DEF Scan
<1> USE BoatingAssumption DEF BoatGoes, VisitorGoes, semVars, tableVars, localVars
<1>1. ASSUME NEW b \in Boats, Offer(b) PROVE Scan'
  <2>1. /\ FreeBoats' = FreeBoats \cup {b} /\ b \notin FreeBoats
        /\ Unposted' = Unposted \cup {b} /\ b \notin Unposted
        /\ UNCHANGED <<spurious, rider, Finding>>
        BY <1>1 DEF Offer, Inv, TypeOK, Bookings, FreeBoats, Unposted, Finding
  <2>2. /\ Cardinality(FreeBoats') = Cardinality(FreeBoats) + 1
        /\ Cardinality(Unposted') = Cardinality(Unposted) + 1
        BY <2>1, ScanFinite, FS_AddElement
  <2>3. rider.value \in Int
        BY DEF Inv, TypeOK, Semaphores
  <2> QED BY <2>1, <2>2, <2>3, ScanFinite DEF Scan
<1>2. ASSUME NEW b \in Boats, PostRider(b) PROVE Scan'
  <2> SUFFICES ASSUME ~spurious PROVE Scan'
      BY <1>2 DEF PostRider, Scan
  <2>1. /\ Unposted' = Unposted \ {b} /\ b \in Unposted
        /\ rider' \in V(rider)
        /\ UNCHANGED <<spurious, FreeBoats, Finding>>
        BY <1>2 DEF PostRider, Inv, TypeOK, FreeBoats, Unposted, Finding
  <2>2. Cardinality(Unposted') = Cardinality(Unposted) - 1
        BY <2>1, ScanFinite, FS_RemoveElement
  <2>3. rider.value \in Int /\ IsFiniteSet(rider.waiting)
        BY ScanFinite, FS_Subset DEF Inv, TypeOK, Semaphores, Scan
  <2>4. CASE rider.value + 1 <= 0 /\ rider.waiting # {}
    <3>1. PICK t \in rider.waiting :
             rider' = [value |-> rider.value + 1, waiting |-> rider.waiting \ {t}]
          BY <2>1, <2>4 DEF V
    <3>2. Cardinality(rider.waiting \ {t}) = Cardinality(rider.waiting) - 1
          BY <2>3, FS_RemoveElement
    <3> QED BY <2>1, <2>2, <2>3, <2>4, <3>1, <3>2, ScanFinite DEF Scan
  <2>5. CASE ~(rider.value + 1 <= 0 /\ rider.waiting # {})
    <3>1. rider' = [value |-> rider.value + 1, waiting |-> rider.waiting]
          BY <2>1, <2>5 DEF V
    <3>2. rider.value >= 0
      <4>1. rider.waiting = {} => Cardinality(rider.waiting) = 0
            BY FS_EmptySet
      <4> QED BY <2>3, <2>5, <4>1 DEF Scan
    <3> QED BY <2>1, <2>2, <2>3, <3>1, <3>2, ScanFinite DEF Scan
  <2> QED BY <2>4, <2>5
<1>3. ASSUME NEW b \in Boats, TakeBoat(b) \/ BoatAtBarrier(b) PROVE Same
      BY <1>3 DEF TakeBoat, BoatAtBarrier, Inv, TypeOK, FreeBoats, Unposted, Finding
<1>4. ASSUME NEW b \in Boats, CastOff(b) PROVE Same
  <2>1. b \notin FreeBoats
        BY <1>4 DEF CastOff, Inv, Rides, OnWater, FreeBoats
  <2> QED BY <1>4, <2>1 DEF CastOff, Inv, TypeOK, FreeBoats, Unposted, Finding
<1>5. ASSUME NEW b \in Boats, EndRide(b) \/ BoatAtEOS(b) \/ BoatReturns(b) PROVE Same
      BY <1>5 DEF EndRide, BoatAtEOS, BoatReturns, Inv, TypeOK, FreeBoats, Unposted,
                  Finding
<1>6. ASSUME NEW v \in Visitors, PostBoat(v) PROVE Same
      BY <1>6 DEF PostBoat, Inv, TypeOK, FreeBoats, Unposted, Finding
<1>7. ASSUME NEW v \in Visitors, TakeRider(v) PROVE Scan'
  <2> SUFFICES ASSUME ~spurious PROVE Scan'
      BY <1>7 DEF TakeRider, Scan
  <2>1. /\ Finding' = Finding \cup {v} /\ v \notin Finding
        /\ rider' = P(rider, v)
        /\ UNCHANGED <<spurious, FreeBoats, Unposted>>
        BY <1>7 DEF TakeRider, Inv, TypeOK, FreeBoats, Unposted, Finding
  <2>2. Cardinality(Finding') = Cardinality(Finding) + 1
        BY <2>1, ScanFinite, FS_AddElement
  <2>3. rider.value \in Int /\ IsFiniteSet(rider.waiting) /\ v \notin rider.waiting
        BY <2>1, ScanFinite, FS_Subset DEF Inv, TypeOK, Semaphores, Scan
  <2>4. Cardinality(rider.waiting \cup {v}) = Cardinality(rider.waiting) + 1
        BY <2>3, FS_AddElement
  <2>5. /\ rider'.value = rider.value - 1
        /\ rider'.waiting = IF rider.value - 1 < 0 THEN rider.waiting \cup {v}
                            ELSE rider.waiting
        BY <2>1 DEF P
  <2> QED BY <2>1, <2>2, <2>3, <2>4, <2>5, ScanFinite DEF Scan
<1>8. ASSUME NEW v \in Visitors, FindBoat(v) PROVE Scan'
  <2> SUFFICES ASSUME ~spurious PROVE Scan'
      BY <1>8 DEF FindBoat, Scan
  <2>1. PICK b \in FreeBoats : BC' = [BC EXCEPT ![b] = v]
        BY <1>8 DEF FindBoat
  <2>2. /\ Finding' = Finding \ {v} /\ v \in Finding /\ v \notin rider.waiting
        /\ FreeBoats' = FreeBoats \ {b}
        /\ UNCHANGED <<spurious, rider, Unposted>>
        BY <1>8, <2>1 DEF FindBoat, Inv, TypeOK, FreeBoats, Unposted, Finding
  <2>3. /\ Cardinality(Finding') = Cardinality(Finding) - 1
        /\ Cardinality(FreeBoats') = Cardinality(FreeBoats) - 1
        BY <2>1, <2>2, ScanFinite, FS_RemoveElement
  <2>4. rider.value \in Int
        BY DEF Inv, TypeOK, Semaphores
  <2> QED BY <2>2, <2>3, <2>4, ScanFinite DEF Scan
<1>9. ASSUME NEW v \in Visitors, Board(v) \/ Leave(v) PROVE Same
      BY <1>9 DEF Board, Leave, Inv, TypeOK, FreeBoats, Unposted, Finding
<1>10. ASSUME MainStep \/ UNCHANGED vars PROVE Same
       BY <1>10 DEF MainStep, MainAtEOS, Teardown, Exit, vars, FreeBoats, Unposted,
                    Finding
<1>11. ASSUME WakeUnsignalled PROVE Scan'
       BY <1>11 DEF WakeUnsignalled, Scan
<1> HIDE DEF Same
<1> QED
    BY <1>0, <1>1, <1>2, <1>3, <1>4, <1>5, <1>6, <1>7, <1>8, <1>9, <1>10, <1>11
       DEF Next, BoatStep, VisitorStep

(* Without unsignalled wake-ups a visitor who gets through P(&rider) finds *)
(* a free boat at its first scan (lines 113-128).                          *)
THEOREM ScanSucceeds == Spec => []ScanFindsBoat
<1>1. Init => Scan
  <2> SUFFICES ASSUME Init PROVE Scan
      OBVIOUS
  <2>1. FreeBoats = {} /\ Unposted = {} /\ Finding = {} /\ rider.waiting = {}
        /\ rider.value = 0
        BY DEF Init, FreeBoats, Unposted, Finding, NewSemaphore
  <2> QED BY <2>1, FS_EmptySet DEF Scan
<1>2. Inv /\ Scan => ScanFindsBoat
  <2> SUFFICES ASSUME Inv, Scan, ~spurious, NEW v \in Visitors, vpc[v] = "find",
                      v \notin rider.waiting
               PROVE  FreeBoats # {}
      BY DEF ScanFindsBoat
  <2>1. v \in Finding \ rider.waiting /\ rider.waiting \subseteq Finding \ {v}
        BY DEF Finding, Scan
  <2>2. Cardinality(rider.waiting) <= Cardinality(Finding \ {v})
        BY <2>1, ScanFinite, FS_RemoveElement, FS_Subset
  <2>3. Cardinality(Finding \ {v}) = Cardinality(Finding) - 1
        BY <2>1, ScanFinite, FS_RemoveElement
  <2>4. rider.value \in Int
        BY DEF Inv, TypeOK, Semaphores
  <2>5. Cardinality(FreeBoats) > 0
        BY <2>2, <2>3, <2>4, ScanFinite DEF Scan
  <2> QED BY <2>5, FS_EmptySet
<1> QED BY <1>1, <1>2, ScanStep, Invariance, PTL DEF Spec

-----------------------------------------------------------------------------
(* The instructor's version *)

(* Why: as in Boating, what the table says of the visitors, ...            *)
STypeOK ==
    /\ boat \in Semaphores /\ rider \in Semaphores
    /\ BA \in [Boats -> BOOLEAN]
    /\ BC \in [Boats -> Visitors \cup {NoVisitor}]
    /\ BT \in [Boats -> Visitors \cup {NoVisitor}]
    /\ BB \in [Boats -> SUBSET (Boats \cup Visitors)]
    /\ EOS \in SUBSET (Boats \cup {Main})
    /\ pending_visitors \in Int
    /\ visitor_id \in [Boats -> Visitors \cup {NoVisitor}]
    /\ ride_duration \in [Boats -> Visitors \cup {NoVisitor}]
    /\ found_boat \in [Visitors -> Boats \cup {0}]
    /\ bpc \in [Boats -> SolutionBoatSteps]
    /\ vpc \in [Visitors -> VisitorSteps]
    /\ mpc \in MainSteps
    /\ spurious \in BOOLEAN

SBookings ==
    /\ \A b \in Boats : BA[b] <=> bpc[b] \notin {"announce", "readTime", "ride"}
    /\ \A b \in Boats : BC[b] # NoVisitor =>
          /\ vpc[BC[b]] \in {"board", "ride", "left"}
          /\ found_boat[BC[b]] = b
          /\ BT[b] = BC[b]
    /\ \A v \in Visitors :
          /\ vpc[v] \in {"board", "ride", "left"} => found_boat[v] \in Boats
          /\ vpc[v] = "board" => BA[found_boat[v]] /\ BC[found_boat[v]] = v

(* ... that nobody looks for a boat before all are ready, ...              *)
Starting == ~BoatsReady => \A v \in Visitors : vpc[v] = "sightsee"

(* ... who may wait at a boat's barrier, ...                               *)
Ashore == {"postRider", "takeBoat", "barrier", "eos", "pastEOS"}
SBarriers ==
    /\ \A b \in Boats : BB[b] \subseteq {b} \cup Visitors
    /\ \A b \in Boats, v \in Visitors : v \in BB[b] =>
          BC[b] = v /\ vpc[v] = "ride" /\ bpc[b] \in Ashore
    /\ \A b \in Boats : b \in BB[b] =>
          /\ bpc[b] = "castOff"
          /\ BC[b] # NoVisitor => vpc[BC[b]] = "board"
    /\ \A b \in Boats : bpc[b] \in Ashore /\ BC[b] # NoVisitor =>
          vpc[BC[b]] = "board" \/ BC[b] \in BB[b]

(* ... whom a boat on the water carries, ...                               *)
SRides ==
    \A b \in Boats :
        /\ Afloat(b) => BC[b] # NoVisitor /\ HasBoarded(BC[b])
        /\ bpc[b] \in {"readTime", "ride"} => visitor_id[b] = BC[b]
        /\ bpc[b] = "ride" => ride_duration[b] = BT[b]

(* ... how many rides are owed, and what it takes to get past EOS.         *)
SRidesOwed == pending_visitors = Cardinality(SUnfinished)

SClosing ==
    /\ \A b \in Boats : bpc[b] \in {"eos", "pastEOS"} => pending_visitors <= 0
    /\ \A b \in Boats : b \in EOS => bpc[b] = "pastEOS"
    /\ mpc # "teardown" => Main \notin EOS
    /\ mpc # "eos" /\ Main \notin EOS => pending_visitors <= 0

SInv ==
    STypeOK /\ SBookings /\ Starting /\ SBarriers /\ SRides /\ SRidesOwed /\ SClosing

-----------------------------------------------------------------------------
(* Every step of every thread keeps the shape of the state. *)
LEMMA STypeStep == STypeOK /\ [SNext]_vars => STypeOK'
<1> SUFFICES ASSUME STypeOK, [SNext]_vars PROVE STypeOK'
    OBVIOUS
<1> USE BoatingAssumption DEF STypeOK, SolutionBoatSteps, VisitorSteps, MainSteps,
        BoatGoes, VisitorGoes, semVars, tableVars, localVars
<1>1. ASSUME NEW b \in Boats, Announce(b) \/ InitBarrier(b) \/ SCastOff(b) \/ ReadTime(b)
      PROVE  STypeOK'
      BY <1>1 DEF Announce, InitBarrier, SCastOff, ReadTime
<1>2. ASSUME NEW b \in Boats, PostRider(b) PROVE STypeOK'
      BY <1>2, VType DEF PostRider
<1>3. ASSUME NEW b \in Boats, TakeBoat(b) PROVE STypeOK'
      BY <1>3, PType DEF TakeBoat
<1>4. ASSUME NEW b \in Boats, BoatAtBarrier(b) PROVE STypeOK'
  <2>1. Arrive(BB[b], b) \in SUBSET (Boats \cup Visitors)
        BY DEF Arrive
  <2> QED BY <1>4, <2>1 DEF BoatAtBarrier
<1>5. ASSUME NEW b \in Boats, SEndRide(b) PROVE STypeOK'
      BY <1>5 DEF SEndRide
<1>6. ASSUME NEW b \in Boats, SBoatAtEOS(b) PROVE STypeOK'
  <2>1. Arrive(EOS, b) \in SUBSET (Boats \cup {Main})
        BY DEF Arrive
  <2> QED BY <1>6, <2>1 DEF SBoatAtEOS
<1>7. ASSUME NEW b \in Boats, SBoatGoesOn(b) PROVE STypeOK'
      BY <1>7 DEF SBoatGoesOn
<1>8. ASSUME NEW v \in Visitors, PostBoat(v) PROVE STypeOK'
      BY <1>8, VType DEF PostBoat
<1>9. ASSUME NEW v \in Visitors, TakeRider(v) PROVE STypeOK'
      BY <1>9, PType DEF TakeRider
<1>10. ASSUME NEW v \in Visitors, FindBoat(v) PROVE STypeOK'
      BY <1>10 DEF FindBoat, FreeBoats
<1>11. ASSUME NEW v \in Visitors, Board(v) PROVE STypeOK'
  <2>1. Arrive(BB[found_boat[v]], v) \in SUBSET (Boats \cup Visitors)
        BY <1>11 DEF Board, Arrive
  <2> QED BY <1>11, <2>1 DEF Board
<1>12. ASSUME NEW v \in Visitors, Leave(v) PROVE STypeOK'
      BY <1>12 DEF Leave
<1>13. ASSUME MainStep PROVE STypeOK'
  <2>1. Arrive(EOS, Main) \in SUBSET (Boats \cup {Main})
        BY DEF Arrive
  <2> QED BY <1>13, <2>1 DEF MainStep, MainAtEOS, Teardown, Exit
<1>14. ASSUME WakeUnsignalled PROVE STypeOK'
      BY <1>14, WakeType DEF WakeUnsignalled
<1>15. ASSUME UNCHANGED vars PROVE STypeOK'
      BY <1>15 DEF vars
<1> QED
    BY <1>1, <1>2, <1>3, <1>4, <1>5, <1>6, <1>7, <1>8, <1>9, <1>10, <1>11,
       <1>12, <1>13, <1>14, <1>15
       DEF SNext, SBoat, SVisitor, SMain, VisitorStep

(* The table of boats goes on saying the truth about the visitors. *)
LEMMA SBookingsStep == SInv /\ [SNext]_vars => SBookings'
<1> SUFFICES ASSUME SInv, [SNext]_vars PROVE SBookings'
    OBVIOUS
<1> USE BoatingAssumption DEF SInv, STypeOK, SBookings, SBarriers, SRides, Starting,
        BoatsReady, Ashore, Afloat, OnWater, HasBoarded, BoatGoes, VisitorGoes,
        semVars, tableVars, localVars
<1>1. ASSUME NEW b \in Boats, Announce(b) PROVE SBookings'
      BY <1>1 DEF Announce
<1>2. ASSUME NEW b \in Boats, InitBarrier(b) PROVE SBookings'
      BY <1>2 DEF InitBarrier
<1>3. ASSUME NEW b \in Boats, PostRider(b) PROVE SBookings'
      BY <1>3 DEF PostRider
<1>4. ASSUME NEW b \in Boats, TakeBoat(b) PROVE SBookings'
      BY <1>4 DEF TakeBoat
<1>5. ASSUME NEW b \in Boats, BoatAtBarrier(b) PROVE SBookings'
      BY <1>5 DEF BoatAtBarrier, Arrive
<1>6. ASSUME NEW b \in Boats, SCastOff(b) PROVE SBookings'
      BY <1>6 DEF SCastOff
<1>7. ASSUME NEW b \in Boats, ReadTime(b) PROVE SBookings'
      BY <1>7 DEF ReadTime
<1>8. ASSUME NEW b \in Boats, SEndRide(b) PROVE SBookings'
      BY <1>8 DEF SEndRide
<1>9. ASSUME NEW b \in Boats, SBoatAtEOS(b) PROVE SBookings'
      BY <1>9 DEF SBoatAtEOS
<1>10. ASSUME NEW b \in Boats, SBoatGoesOn(b) PROVE SBookings'
      BY <1>10 DEF SBoatGoesOn
<1>11. ASSUME NEW v \in Visitors, BoatsReady, PostBoat(v) PROVE SBookings'
      BY <1>11 DEF PostBoat
<1>12. ASSUME NEW v \in Visitors, BoatsReady, TakeRider(v) PROVE SBookings'
      BY <1>12 DEF TakeRider
<1>13. ASSUME NEW v \in Visitors, BoatsReady, FindBoat(v) PROVE SBookings'
      BY <1>13 DEF FindBoat, FreeBoats
<1>14. ASSUME NEW v \in Visitors, BoatsReady, Board(v) PROVE SBookings'
      BY <1>14 DEF Board, Arrive
<1>15. ASSUME NEW v \in Visitors, BoatsReady, Leave(v) PROVE SBookings'
      BY <1>15 DEF Leave
<1>16. ASSUME MainStep PROVE SBookings'
      BY <1>16 DEF MainStep, MainAtEOS, Teardown, Exit
<1>17. ASSUME WakeUnsignalled PROVE SBookings'
      BY <1>17 DEF WakeUnsignalled
<1>18. ASSUME UNCHANGED vars PROVE SBookings'
      BY <1>18 DEF vars
<1> QED
    BY <1>1, <1>2, <1>3, <1>4, <1>5, <1>6, <1>7, <1>8, <1>9, <1>10, <1>11,
       <1>12, <1>13, <1>14, <1>15, <1>16, <1>17, <1>18
       DEF SNext, SBoat, SVisitor, SMain, VisitorStep

(* Nobody looks for a boat before all the boats are ready. *)
LEMMA StartingStep == SInv /\ [SNext]_vars => Starting'
<1> SUFFICES ASSUME SInv, [SNext]_vars PROVE Starting'
    OBVIOUS
<1> USE BoatingAssumption DEF SInv, STypeOK, SBookings, SBarriers, SRides, Starting,
        BoatsReady, Ashore, Afloat, OnWater, HasBoarded, BoatGoes, VisitorGoes,
        semVars, tableVars, localVars
<1>1. ASSUME NEW b \in Boats, Announce(b) PROVE Starting'
      BY <1>1 DEF Announce
<1>2. ASSUME NEW b \in Boats, InitBarrier(b) PROVE Starting'
      BY <1>2 DEF InitBarrier
<1>3. ASSUME NEW b \in Boats, PostRider(b) PROVE Starting'
      BY <1>3 DEF PostRider
<1>4. ASSUME NEW b \in Boats, TakeBoat(b) PROVE Starting'
      BY <1>4 DEF TakeBoat
<1>5. ASSUME NEW b \in Boats, BoatAtBarrier(b) PROVE Starting'
      BY <1>5 DEF BoatAtBarrier, Arrive
<1>6. ASSUME NEW b \in Boats, SCastOff(b) PROVE Starting'
      BY <1>6 DEF SCastOff
<1>7. ASSUME NEW b \in Boats, ReadTime(b) PROVE Starting'
      BY <1>7 DEF ReadTime
<1>8. ASSUME NEW b \in Boats, SEndRide(b) PROVE Starting'
      BY <1>8 DEF SEndRide
<1>9. ASSUME NEW b \in Boats, SBoatAtEOS(b) PROVE Starting'
      BY <1>9 DEF SBoatAtEOS
<1>10. ASSUME NEW b \in Boats, SBoatGoesOn(b) PROVE Starting'
      BY <1>10 DEF SBoatGoesOn
<1>11. ASSUME NEW v \in Visitors, BoatsReady, PostBoat(v) PROVE Starting'
      BY <1>11 DEF PostBoat
<1>12. ASSUME NEW v \in Visitors, BoatsReady, TakeRider(v) PROVE Starting'
      BY <1>12 DEF TakeRider
<1>13. ASSUME NEW v \in Visitors, BoatsReady, FindBoat(v) PROVE Starting'
      BY <1>13 DEF FindBoat, FreeBoats
<1>14. ASSUME NEW v \in Visitors, BoatsReady, Board(v) PROVE Starting'
      BY <1>14 DEF Board, Arrive
<1>15. ASSUME NEW v \in Visitors, BoatsReady, Leave(v) PROVE Starting'
      BY <1>15 DEF Leave
<1>16. ASSUME MainStep PROVE Starting'
      BY <1>16 DEF MainStep, MainAtEOS, Teardown, Exit
<1>17. ASSUME WakeUnsignalled PROVE Starting'
      BY <1>17 DEF WakeUnsignalled
<1>18. ASSUME UNCHANGED vars PROVE Starting'
      BY <1>18 DEF vars
<1> QED
    BY <1>1, <1>2, <1>3, <1>4, <1>5, <1>6, <1>7, <1>8, <1>9, <1>10, <1>11,
       <1>12, <1>13, <1>14, <1>15, <1>16, <1>17, <1>18
       DEF SNext, SBoat, SVisitor, SMain, VisitorStep

(* Nobody but a boat and the visitor who took it waits at its barrier. *)
LEMMA SBarriersStep == SInv /\ [SNext]_vars => SBarriers'
<1> SUFFICES ASSUME SInv, [SNext]_vars PROVE SBarriers'
    OBVIOUS
<1> USE BoatingAssumption DEF SInv, STypeOK, SBookings, SBarriers, SRides, Starting,
        BoatsReady, Ashore, Afloat, OnWater, HasBoarded, BoatGoes, VisitorGoes,
        semVars, tableVars, localVars
<1>1. ASSUME NEW b \in Boats, Announce(b) PROVE SBarriers'
      BY <1>1 DEF Announce
<1>2. ASSUME NEW b \in Boats, InitBarrier(b) PROVE SBarriers'
      BY <1>2 DEF InitBarrier
<1>3. ASSUME NEW b \in Boats, PostRider(b) PROVE SBarriers'
      BY <1>3 DEF PostRider
<1>4. ASSUME NEW b \in Boats, TakeBoat(b) PROVE SBarriers'
      BY <1>4 DEF TakeBoat
<1>5. ASSUME NEW b \in Boats, BoatAtBarrier(b) PROVE SBarriers'
      BY <1>5 DEF BoatAtBarrier, Arrive
<1>6. ASSUME NEW b \in Boats, SCastOff(b) PROVE SBarriers'
      BY <1>6 DEF SCastOff
<1>7. ASSUME NEW b \in Boats, ReadTime(b) PROVE SBarriers'
      BY <1>7 DEF ReadTime
<1>8. ASSUME NEW b \in Boats, SEndRide(b) PROVE SBarriers'
      BY <1>8 DEF SEndRide
<1>9. ASSUME NEW b \in Boats, SBoatAtEOS(b) PROVE SBarriers'
      BY <1>9 DEF SBoatAtEOS
<1>10. ASSUME NEW b \in Boats, SBoatGoesOn(b) PROVE SBarriers'
      BY <1>10 DEF SBoatGoesOn
<1>11. ASSUME NEW v \in Visitors, BoatsReady, PostBoat(v) PROVE SBarriers'
      BY <1>11 DEF PostBoat
<1>12. ASSUME NEW v \in Visitors, BoatsReady, TakeRider(v) PROVE SBarriers'
      BY <1>12 DEF TakeRider
<1>13. ASSUME NEW v \in Visitors, BoatsReady, FindBoat(v) PROVE SBarriers'
      BY <1>13 DEF FindBoat, FreeBoats
<1>14. ASSUME NEW v \in Visitors, BoatsReady, Board(v) PROVE SBarriers'
  <2> DEFINE b == found_boat[v]
  <2>1. /\ b \in Boats /\ BA[b] /\ BC[b] = v /\ v \in Visitors /\ vpc[v] = "board"
        /\ v \notin BB[b] /\ BB[b] \subseteq {b}
        /\ bpc[b] \notin {"announce", "readTime", "ride"}
        BY <1>14 DEF Board
  <2>2. /\ UNCHANGED <<bpc, BC, BA, BT, found_boat>>
        /\ vpc' = [vpc EXCEPT ![v] = "ride"]
        /\ BB' = [BB EXCEPT ![b] = IF BB[b] = {} THEN {v} ELSE {}]
        BY <1>14 DEF Board, Arrive
  <2> HIDE DEF b
  <2>3. \A c \in Boats \ {b} : BC[c] # v /\ BB'[c] = BB[c]
        BY <2>1, <2>2
  <2>4. BB'[b] = IF BB[b] = {} THEN {v} ELSE {}
        BY <2>1, <2>2
  <2>5. \A w \in Visitors : vpc'[w] = IF w = v THEN "ride" ELSE vpc[w]
        BY <2>2
  <2>6. BB[b] = {} => bpc[b] \in Ashore
    <3>1. bpc[b] \in SolutionBoatSteps \ {"announce", "initBarrier", "readTime", "ride"}
          BY <1>14, <2>1
    <3>2. bpc[b] = "castOff" => b \in BB[b]
          BY <2>1
    <3> QED BY <3>1, <3>2 DEF SolutionBoatSteps
  <2> QED BY <2>1, <2>2, <2>3, <2>4, <2>5, <2>6
<1>15. ASSUME NEW v \in Visitors, BoatsReady, Leave(v) PROVE SBarriers'
      BY <1>15 DEF Leave
<1>16. ASSUME MainStep PROVE SBarriers'
      BY <1>16 DEF MainStep, MainAtEOS, Teardown, Exit
<1>17. ASSUME WakeUnsignalled PROVE SBarriers'
      BY <1>17 DEF WakeUnsignalled
<1>18. ASSUME UNCHANGED vars PROVE SBarriers'
      BY <1>18 DEF vars
<1> QED
    BY <1>1, <1>2, <1>3, <1>4, <1>5, <1>6, <1>7, <1>8, <1>9, <1>10, <1>11,
       <1>12, <1>13, <1>14, <1>15, <1>16, <1>17, <1>18
       DEF SNext, SBoat, SVisitor, SMain, VisitorStep

(* A boat afloat has the visitor it is booked for. *)
LEMMA SRidesStep == SInv /\ [SNext]_vars => SRides'
<1> SUFFICES ASSUME SInv, [SNext]_vars PROVE SRides'
    OBVIOUS
<1> USE BoatingAssumption DEF SInv, STypeOK, SBookings, SBarriers, SRides, Starting,
        BoatsReady, Ashore, Afloat, OnWater, HasBoarded, BoatGoes, VisitorGoes,
        semVars, tableVars, localVars
<1>1. ASSUME NEW b \in Boats, Announce(b) PROVE SRides'
      BY <1>1 DEF Announce
<1>2. ASSUME NEW b \in Boats, InitBarrier(b) PROVE SRides'
      BY <1>2 DEF InitBarrier
<1>3. ASSUME NEW b \in Boats, PostRider(b) PROVE SRides'
      BY <1>3 DEF PostRider
<1>4. ASSUME NEW b \in Boats, TakeBoat(b) PROVE SRides'
      BY <1>4 DEF TakeBoat
<1>5. ASSUME NEW b \in Boats, BoatAtBarrier(b) PROVE SRides'
      BY <1>5 DEF BoatAtBarrier, Arrive
<1>6. ASSUME NEW b \in Boats, SCastOff(b) PROVE SRides'
      BY <1>6 DEF SCastOff
<1>7. ASSUME NEW b \in Boats, ReadTime(b) PROVE SRides'
      BY <1>7 DEF ReadTime
<1>8. ASSUME NEW b \in Boats, SEndRide(b) PROVE SRides'
      BY <1>8 DEF SEndRide
<1>9. ASSUME NEW b \in Boats, SBoatAtEOS(b) PROVE SRides'
      BY <1>9 DEF SBoatAtEOS
<1>10. ASSUME NEW b \in Boats, SBoatGoesOn(b) PROVE SRides'
      BY <1>10 DEF SBoatGoesOn
<1>11. ASSUME NEW v \in Visitors, BoatsReady, PostBoat(v) PROVE SRides'
      BY <1>11 DEF PostBoat
<1>12. ASSUME NEW v \in Visitors, BoatsReady, TakeRider(v) PROVE SRides'
      BY <1>12 DEF TakeRider
<1>13. ASSUME NEW v \in Visitors, BoatsReady, FindBoat(v) PROVE SRides'
      BY <1>13 DEF FindBoat, FreeBoats
<1>14. ASSUME NEW v \in Visitors, BoatsReady, Board(v) PROVE SRides'
      BY <1>14 DEF Board, Arrive
<1>15. ASSUME NEW v \in Visitors, BoatsReady, Leave(v) PROVE SRides'
      BY <1>15 DEF Leave
<1>16. ASSUME MainStep PROVE SRides'
      BY <1>16 DEF MainStep, MainAtEOS, Teardown, Exit
<1>17. ASSUME WakeUnsignalled PROVE SRides'
      BY <1>17 DEF WakeUnsignalled
<1>18. ASSUME UNCHANGED vars PROVE SRides'
      BY <1>18 DEF vars
<1> QED
    BY <1>1, <1>2, <1>3, <1>4, <1>5, <1>6, <1>7, <1>8, <1>9, <1>10, <1>11,
       <1>12, <1>13, <1>14, <1>15, <1>16, <1>17, <1>18
       DEF SNext, SBoat, SVisitor, SMain, VisitorStep

(* Only the end of the last ride lets a boat, and through it main, past    *)
(* EOS.                                                                    *)
LEMMA SClosingStep == SInv /\ [SNext]_vars => SClosing'
<1> SUFFICES ASSUME STypeOK, SClosing, [SNext]_vars PROVE SClosing'
    BY DEF SInv
<1> USE BoatingAssumption DEF STypeOK, SClosing, BoatGoes, VisitorGoes, Arrive,
        semVars, tableVars, localVars
<1>1. ASSUME NEW b \in Boats, Announce(b) \/ InitBarrier(b) \/ PostRider(b) \/ TakeBoat(b)
      PROVE  SClosing'
      BY <1>1 DEF Announce, InitBarrier, PostRider, TakeBoat
<1>2. ASSUME NEW b \in Boats, BoatAtBarrier(b) \/ SCastOff(b) \/ ReadTime(b)
      PROVE  SClosing'
      BY <1>2 DEF BoatAtBarrier, SCastOff, ReadTime
<1>3. ASSUME NEW b \in Boats, SEndRide(b) PROVE SClosing'
      BY <1>3 DEF SEndRide
<1>4. ASSUME NEW b \in Boats, SBoatAtEOS(b) PROVE SClosing'
      BY <1>4 DEF SBoatAtEOS
<1>5. ASSUME NEW b \in Boats, SBoatGoesOn(b) PROVE SClosing'
      BY <1>5 DEF SBoatGoesOn
<1>6. ASSUME NEW v \in Visitors, VisitorStep(v) PROVE SClosing'
      BY <1>6 DEF VisitorStep, PostBoat, TakeRider, FindBoat, Board, Leave
<1>7. ASSUME MainStep PROVE SClosing'
      BY <1>7 DEF MainStep, MainAtEOS, Teardown, Exit
<1>8. ASSUME WakeUnsignalled \/ UNCHANGED vars PROVE SClosing'
      BY <1>8 DEF WakeUnsignalled, vars
<1> QED
    BY <1>1, <1>2, <1>3, <1>4, <1>5, <1>6, <1>7, <1>8
       DEF SNext, SBoat, SVisitor, SMain

(* The set of visitors whose ride is owed loses exactly the one whose ride *)
(* ends, and no other step changes it.                                     *)
LEMMA SUnfinishedStep ==
    ASSUME SInv, [SNext]_vars
    PROVE  \/ /\ SUnfinished' = SUnfinished
              /\ pending_visitors' = pending_visitors
           \/ \E v \in SUnfinished : /\ SUnfinished' = SUnfinished \ {v}
                                     /\ pending_visitors' = pending_visitors - 1
<1> DEFINE Same == SUnfinished' = SUnfinished /\ pending_visitors' = pending_visitors
<1> USE BoatingAssumption DEF SInv, STypeOK, SBookings, SBarriers, SRides, Ashore,
        Afloat, OnWater, HasBoarded, SUnfinished, BoatGoes, VisitorGoes,
        semVars, tableVars, localVars
<1>1. ASSUME NEW b \in Boats, Announce(b) PROVE Same
      BY <1>1 DEF Announce
<1>2. ASSUME NEW b \in Boats, InitBarrier(b) PROVE Same
      BY <1>2 DEF InitBarrier
<1>3. ASSUME NEW b \in Boats, PostRider(b) \/ TakeBoat(b) PROVE Same
      BY <1>3 DEF PostRider, TakeBoat
<1>4. ASSUME NEW b \in Boats, BoatAtBarrier(b) PROVE Same
      BY <1>4 DEF BoatAtBarrier, Arrive
<1>5. ASSUME NEW b \in Boats, SCastOff(b) PROVE Same
      BY <1>5 DEF SCastOff
<1>6. ASSUME NEW b \in Boats, ReadTime(b) PROVE Same
      BY <1>6 DEF ReadTime
<1>7. ASSUME NEW b \in Boats, SEndRide(b)
      PROVE  \E v \in SUnfinished : /\ SUnfinished' = SUnfinished \ {v}
                                   /\ pending_visitors' = pending_visitors - 1
  <2>1. BC[b] \in SUnfinished
        BY <1>7 DEF SEndRide
  <2>2. SUnfinished' = SUnfinished \ {BC[b]}
        BY <1>7 DEF SEndRide
  <2> QED BY <1>7, <2>1, <2>2 DEF SEndRide
<1>8. ASSUME NEW b \in Boats, SBoatAtEOS(b) \/ SBoatGoesOn(b) PROVE Same
      BY <1>8 DEF SBoatAtEOS, SBoatGoesOn
<1>9. ASSUME NEW v \in Visitors, PostBoat(v) \/ TakeRider(v) PROVE Same
      BY <1>9 DEF PostBoat, TakeRider
<1>10. ASSUME NEW v \in Visitors, FindBoat(v) PROVE Same
      BY <1>10 DEF FindBoat, FreeBoats
<1>11. ASSUME NEW v \in Visitors, Board(v) PROVE Same
      BY <1>11 DEF Board, Arrive
<1>12. ASSUME NEW v \in Visitors, Leave(v) PROVE Same
      BY <1>12 DEF Leave
<1>13. ASSUME MainStep PROVE Same
      BY <1>13 DEF MainStep, MainAtEOS, Teardown, Exit
<1>14. ASSUME WakeUnsignalled PROVE Same
      BY <1>14 DEF WakeUnsignalled
<1>15. ASSUME UNCHANGED vars PROVE Same
      BY <1>15 DEF vars
<1> QED
    BY <1>1, <1>2, <1>3, <1>4, <1>5, <1>6, <1>7, <1>8, <1>9, <1>10, <1>11,
       <1>12, <1>13, <1>14, <1>15 DEF SNext, SBoat, SVisitor, SMain, VisitorStep

(* Finitely many rides are owed. *)
LEMMA SUnfinishedFinite == IsFiniteSet(SUnfinished) /\ Cardinality(SUnfinished) \in Nat
<1>1. SUnfinished \subseteq Visitors
      BY DEF SUnfinished
<1> QED BY <1>1, BoatingAssumption, FS_Subset, FS_CardinalityType
                                   DEF BoatingAssumption

(* The count of rides owed is right after every step. *)
LEMMA SRidesOwedStep == SInv /\ [SNext]_vars => SRidesOwed'
<1> SUFFICES ASSUME SInv, [SNext]_vars PROVE SRidesOwed'
    OBVIOUS
<1>1. CASE SUnfinished' = SUnfinished /\ pending_visitors' = pending_visitors
      BY <1>1 DEF SInv, SRidesOwed
<1>2. ASSUME NEW v \in SUnfinished, SUnfinished' = SUnfinished \ {v},
             pending_visitors' = pending_visitors - 1
      PROVE  SRidesOwed'
  <2>1. Cardinality(SUnfinished \ {v}) = Cardinality(SUnfinished) - 1
        BY SUnfinishedFinite, FS_RemoveElement
  <2> QED BY <1>2, <2>1 DEF SInv, SRidesOwed
<1> QED BY <1>1, <1>2, SUnfinishedStep

(* The session starts with every ride owed and every boat at its start. *)
LEMMA SInitInv == SInit => SInv
<1> SUFFICES ASSUME SInit PROVE SInv
    OBVIOUS
<1> USE BoatingAssumption DEF SInit
<1>1. STypeOK
  <2>1. Cardinality(Visitors) \in Nat
        BY FS_CardinalityType
  <2>2. NewSemaphore \in Semaphores
        BY DEF NewSemaphore, Semaphores
  <2> QED BY <2>1, <2>2 DEF STypeOK, SolutionBoatSteps, VisitorSteps, MainSteps
<1>2. SBookings /\ Starting /\ SBarriers /\ SRides /\ SClosing
      BY DEF SBookings, Starting, SBarriers, SRides, SClosing, Ashore, Afloat, OnWater
<1>3. SRidesOwed
  <2>1. SUnfinished = Visitors
        BY DEF SUnfinished, HasBoarded
  <2> QED BY <2>1 DEF SRidesOwed
<1> QED BY <1>1, <1>2, <1>3 DEF SInv

(* The inductive invariant holds in every reachable state of              *)
(* A7/LA7_Solution/boating.c.                                              *)
THEOREM SInvariance == SSpec => []SInv
<1>1. SInv /\ [SNext]_vars => SInv'
      BY STypeStep, SBookingsStep, StartingStep, SBarriersStep, SRidesStep,
         SClosingStep, SRidesOwedStep DEF SInv
<1> QED BY SInitInv, <1>1, PTL DEF SSpec

(* The state keeps its shape: the type invariant of the instructor's       *)
(* version.                                                                *)
THEOREM STypeCorrect == SSpec => []STypeOK
<1>1. SInv => STypeOK
      BY DEF SInv
<1> QED BY SInvariance, <1>1, PTL

(* From its release at the barrier to the end of the ride a boat's entries *)
(* of BC and BT stay those of the visitor who found it (lines 73-78), for  *)
(* any number of boats and visitors.                                       *)
THEOREM BookingIsStable == SSpec => []SBookingStable
<1>1. SInv => SBookingStable
  <2> SUFFICES ASSUME SInv, NEW b \in Boats, Afloat(b)
               PROVE  /\ BC[b] \in Visitors
                      /\ HasBoarded(BC[b])
                      /\ found_boat[BC[b]] = b
                      /\ BT[b] = BC[b]
                      /\ bpc[b] # "castOff" => visitor_id[b] = BC[b]
                      /\ bpc[b] = "ride" => ride_duration[b] = BC[b] /\ BB[b] = {}
      BY DEF SBookingStable
  <2>1. BC[b] \in Visitors /\ HasBoarded(BC[b])
        BY DEF SInv, STypeOK, SRides
  <2>2. found_boat[BC[b]] = b /\ BT[b] = BC[b]
        BY <2>1, BoatingAssumption DEF SInv, SBookings
  <2>3. bpc[b] \in {"castOff", "readTime", "ride"}
        BY DEF Afloat, OnWater
  <2>4. /\ bpc[b] # "castOff" => visitor_id[b] = BC[b]
        /\ bpc[b] = "ride" => ride_duration[b] = BC[b]
        BY <2>2, <2>3 DEF SInv, SRides
  <2>5. bpc[b] = "ride" => BB[b] = {}
        BY DEF SInv, SBarriers, Ashore
  <2> QED BY <2>1, <2>2, <2>4, <2>5
<1> QED BY SInvariance, <1>1, PTL

-----------------------------------------------------------------------------
(* What the service sees of a state. *)
SAboard  == [b \in Boats |-> IF Afloat(b) THEN BC[b] ELSE NoVisitor]
SServed  == Visitors \ SUnfinished

(* A session that starts has nobody on the water. *)
LEMMA SInitRefines == SInit => SService!Init
<1> SUFFICES ASSUME SInit PROVE SService!Init
    OBVIOUS
<1>1. \A b \in Boats : ~Afloat(b)
      BY DEF SInit, Afloat, OnWater
<1>2. \A v \in Visitors : ~HasBoarded(v)
      BY DEF SInit, HasBoarded
<1> QED BY <1>1, <1>2 DEF SInit, SService!Init, SUnfinished

(* The service sees nothing of a step that leaves the four alone. *)
LEMMA SQuietRefines ==
    ASSUME UNCHANGED <<SAboard, Boarded, SServed, Closed>>
    PROVE  UNCHANGED SService!vars
BY DEF SAboard, Boarded, SServed, Closed, SService!vars

(* At zero no ride is owed, so nobody is on the water. *)
LEMMA SNothingOwed ==
    ASSUME SInv, pending_visitors <= 0
    PROVE  SUnfinished = {} /\ pending_visitors = 0 /\ \A b \in Boats : ~Afloat(b)
<1>1. Cardinality(SUnfinished) = 0 /\ pending_visitors = 0
      BY SUnfinishedFinite DEF SInv, SRidesOwed
<1>2. SUnfinished = {}
      BY <1>1, SUnfinishedFinite, FS_EmptySet
<1>3. \A b \in Boats : Afloat(b) => BC[b] \in SUnfinished
      BY DEF SInv, STypeOK, SRides, SUnfinished
<1> QED BY <1>1, <1>2, <1>3

(* Nobody is on the water any more when main has torn down. *)
LEMMA SClosedMeansServed ==
    ASSUME SInv, mpc \in {"exit", "exited"} \/ (mpc = "teardown" /\ Main \notin EOS)
    PROVE  SServed = Visitors /\ \A b \in Boats : ~Afloat(b)
BY SNothingOwed DEF SInv, SClosing, SServed

(* The meeting at the barrier of boat b is the boarding of the visitor who *)
(* took it, whichever of the two comes second.                             *)
LEMMA SMeetingRefines ==
    ASSUME SInv, NEW b \in Boats, NEW v \in Visitors, BC[b] = v, BC' = BC,
           UNCHANGED <<SServed, Closed>>, ~HasBoarded(v), ~Afloat(b), Afloat(b)',
           \A c \in Boats \ {b} : Afloat(c)' <=> Afloat(c),
           HasBoarded(v)', \A w \in Visitors \ {v} : HasBoarded(w)' <=> HasBoarded(w)
    PROVE  SService!Board(b, v)
<1>1. SAboard' = [SAboard EXCEPT ![b] = v]
      BY DEF SAboard
<1>2. Boarded' = Boarded \cup {v}
      BY DEF Boarded
<1>3. ~Closed
      BY SClosedMeansServed DEF Closed, SServed, SUnfinished
<1> QED BY <1>1, <1>2, <1>3
        DEF SService!Board, SAboard, Boarded, SServed, Closed

(* Every step of the session is a step of the service, or none. *)
LEMMA SStepRefines == SInv /\ [SNext]_vars => [SService!Next]_(SService!vars)
<1> SUFFICES ASSUME SInv, [SNext]_vars PROVE [SService!Next]_(SService!vars)
    OBVIOUS
<1> DEFINE Quiet == UNCHANGED <<SAboard, Boarded, SServed, Closed>>
<1> USE BoatingAssumption DEF SInv, STypeOK, SBookings, SBarriers, SRides, Ashore,
        Afloat, OnWater, HasBoarded, BoatGoes, VisitorGoes, semVars, tableVars,
        localVars, SAboard, Boarded, SServed, Closed, SUnfinished
<1>1. ASSUME NEW b \in Boats, Announce(b) PROVE Quiet
      BY <1>1 DEF Announce
<1>2. ASSUME NEW b \in Boats, InitBarrier(b) PROVE Quiet
      BY <1>2 DEF InitBarrier
<1>3. ASSUME NEW b \in Boats, PostRider(b) \/ TakeBoat(b) PROVE Quiet
      BY <1>3 DEF PostRider, TakeBoat
<1>4. ASSUME NEW b \in Boats, BoatAtBarrier(b)
      PROVE  Quiet \/ \E v \in Visitors : SService!Board(b, v)
  <2>1. CASE BB[b] = {}
        BY <1>4, <2>1 DEF BoatAtBarrier, Arrive
  <2>2. CASE BB[b] # {}
    <3> PICK v \in Visitors : BC[b] = v
        BY <1>4, <2>2 DEF BoatAtBarrier, Arrive
    <3>1. /\ ~HasBoarded(v) /\ HasBoarded(v)'
          /\ ~Afloat(b) /\ Afloat(b)'
          BY <1>4, <2>2 DEF BoatAtBarrier, Arrive
    <3>2. /\ \A c \in Boats \ {b} : Afloat(c)' <=> Afloat(c)
          /\ \A w \in Visitors \ {v} : HasBoarded(w)' <=> HasBoarded(w)
          BY <1>4, <2>2 DEF BoatAtBarrier, Arrive
    <3>3. BC' = BC /\ UNCHANGED <<SServed, Closed>>
          BY <1>4, <2>2 DEF BoatAtBarrier, Arrive
    <3> HIDE DEF Afloat, HasBoarded, SServed, Closed, SInv, Quiet
    <3> QED BY <3>1, <3>2, <3>3, SMeetingRefines
  <2> QED BY <2>1, <2>2
<1>5. ASSUME NEW b \in Boats, SCastOff(b) PROVE Quiet
      BY <1>5 DEF SCastOff
<1>6. ASSUME NEW b \in Boats, ReadTime(b) PROVE Quiet
      BY <1>6 DEF ReadTime
<1>7. ASSUME NEW b \in Boats, SEndRide(b) PROVE SService!Finish(b)
  <2>1. ~Closed
        BY <1>7, SClosedMeansServed DEF SEndRide
  <2>2. SAboard[b] = BC[b] /\ BC[b] # NoVisitor /\ BC[b] \notin SServed
        BY <1>7 DEF SEndRide
  <2>3. SAboard' = [SAboard EXCEPT ![b] = NoVisitor]
        BY <1>7 DEF SEndRide
  <2>4. SServed' = SServed \cup {BC[b]}
        BY <1>7 DEF SEndRide
  <2>5. UNCHANGED <<Boarded, Closed>>
        BY <1>7 DEF SEndRide
  <2> QED BY <2>1, <2>2, <2>3, <2>4, <2>5 DEF SService!Finish
<1>8. ASSUME NEW b \in Boats, SBoatAtEOS(b) \/ SBoatGoesOn(b) PROVE Quiet
      BY <1>8 DEF SBoatAtEOS, SBoatGoesOn
<1>9. ASSUME NEW v \in Visitors, PostBoat(v) \/ TakeRider(v) PROVE Quiet
      BY <1>9 DEF PostBoat, TakeRider
<1>10. ASSUME NEW v \in Visitors, FindBoat(v) PROVE Quiet
       BY <1>10 DEF FindBoat, FreeBoats
<1>11. ASSUME NEW v \in Visitors, Board(v)
       PROVE  Quiet \/ \E b \in Boats : SService!Board(b, v)
  <2> PICK b \in Boats : found_boat[v] = b
      BY <1>11 DEF Board
  <2>1. CASE BB[b] = {}
        BY <1>11, <2>1 DEF Board, Arrive
  <2>2. CASE BB[b] # {}
    <3>1. /\ BC[b] = v
          /\ ~HasBoarded(v) /\ HasBoarded(v)'
          /\ ~Afloat(b) /\ Afloat(b)'
          BY <1>11, <2>2 DEF Board, Arrive
    <3>2. /\ \A c \in Boats \ {b} : Afloat(c)' <=> Afloat(c)
          /\ \A w \in Visitors \ {v} : HasBoarded(w)' <=> HasBoarded(w)
          BY <1>11, <2>2 DEF Board, Arrive
    <3>3. BC' = BC /\ UNCHANGED <<SServed, Closed>>
          BY <1>11, <2>2 DEF Board, Arrive
    <3> HIDE DEF Afloat, HasBoarded, SServed, Closed, SInv, Quiet
    <3> QED BY <3>1, <3>2, <3>3, SMeetingRefines
  <2> QED BY <2>1, <2>2
<1>12. ASSUME NEW v \in Visitors, Leave(v) PROVE Quiet
       BY <1>12 DEF Leave
<1>13. ASSUME MainAtEOS \/ Exit PROVE Quiet
       BY <1>13 DEF MainAtEOS, Exit
<1>14. ASSUME Teardown PROVE SService!Close
  <2>1. SServed = Visitors /\ \A b \in Boats : ~Afloat(b)
        BY <1>14, SClosedMeansServed DEF Teardown
  <2>2. ~Closed /\ Closed' /\ UNCHANGED <<SAboard, Boarded, SServed>>
        BY <1>14 DEF Teardown
  <2> QED BY <2>1, <2>2 DEF SService!Close
<1>15. ASSUME WakeUnsignalled \/ UNCHANGED vars PROVE Quiet
       BY <1>15 DEF WakeUnsignalled, vars
<1>16. Quiet => UNCHANGED SService!vars
       BY SQuietRefines
<1>17. (\E b \in Boats, v \in Visitors : SService!Board(b, v)) => SService!Next
       BY DEF SService!Next
<1>18. (\E b \in Boats : SService!Finish(b)) \/ SService!Close => SService!Next
       BY DEF SService!Next
<1> HIDE DEF Quiet
<1> QED
    BY <1>1, <1>2, <1>3, <1>4, <1>5, <1>6, <1>7, <1>8, <1>9, <1>10, <1>11, <1>12,
       <1>13, <1>14, <1>15, <1>16, <1>17, <1>18
       DEF SNext, SBoat, SVisitor, SMain, VisitorStep, MainStep

(* The instructor's version, too, implements the ride service for any      *)
(* number of boats and visitors, although a boat is announced before its   *)
(* barrier is initialised and reads its ride time outside bmtx.            *)
THEOREM SRefinement == SSpec => SImplementsRideService
<1>1. SInit => SService!Init
      BY SInitRefines
<1>2. SInv /\ [SNext]_vars => [SService!Next]_(SService!vars)
      BY SStepRefines
<1> QED BY <1>1, <1>2, SInvariance, PTL
        DEF SSpec, SImplementsRideService, SService!Spec

(* main passes EOS only after the last ride, whatever the schedule, even   *)
(* though the boat that met it there goes on.                              *)
THEOREM STeardownIsLast ==
    SSpec => [](mpc \in {"exit", "exited"} => SServed = Visitors)
<1>1. SInv => (mpc \in {"exit", "exited"} => SServed = Visitors)
      BY SClosedMeansServed
<1> QED BY SInvariance, <1>1, PTL
=============================================================================
