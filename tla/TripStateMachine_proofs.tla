------------------------ MODULE TripStateMachine_proofs ------------------------
(* Theorems about the domain state machine, for all drivers and intents. *)
EXTENDS TripStateMachine, TLAPS

Inv == TypeOK /\ StampsTellTheLife /\ DriverIffAssigned

\* Each handler, as the transition it makes: the status it finds, the one it
\* leaves, and what it does to the driver and the payment intent.
Transition(from, to) ==
  /\ trip.status = from
  /\ \/ to = "REQUESTED"
     \/ <<from, to>> \in validTransitions
  /\ trip' \in TripRecords
  /\ trip'.status = to
  /\ trip'.stamps = trip.stamps \cup {to}
  /\ to = "REQUESTED" => trip'.paymentIntentId = trip.paymentIntentId
  /\ to = "PAID" => trip'.paymentIntentId \in Intents
  /\ trip.paymentIntentId # None => trip'.paymentIntentId # None
  /\ to # "ASSIGNED" => trip'.driverId = trip.driverId
  /\ to = "ASSIGNED" => trip'.driverId \in Drivers /\ trip.driverId \in {None, trip'.driverId}

LEMMA InitInv == Init => Inv
  BY NoneAssumption
     DEF Init, NoTrip, Inv, TypeOK, TripRecords, StampsTellTheLife, Before, DriverIffAssigned

\* Every handler is a transition of the table, or goes back to REQUESTED.
LEMMA HandlersAreTransitions ==
  ASSUME TypeOK, Next
  PROVE  \E from, to : Transition(from, to)
<1> USE NoneAssumption DEF TypeOK, TripRecords, Statuses, Stamped, validTransitions
<1>1. CASE handleRequest
  <2>1. Transition(trip.status, "REQUESTED")
    BY <1>1 DEF handleRequest, Transition
  <2> QED BY <2>1
<1>2. CASE handleOffer
  <2>1. Transition(trip.status, "OFFERED")
    BY <1>2 DEF handleOffer, Transition
  <2> QED BY <2>1
<1>3. ASSUME NEW d \in Drivers, NEW actor \in Actors, NEW online \in BOOLEAN,
             NEW expired \in BOOLEAN, handleAssign(d, actor, online, expired)
      PROVE  \E from, to : Transition(from, to)
  <2>1. Transition(trip.status, "ASSIGNED")
    BY <1>3 DEF handleAssign, Transition
  <2> QED BY <2>1
<1>4. ASSUME NEW d \in Drivers, NEW actor \in Actors, NEW pin \in BOOLEAN,
             NEW m \in Distances, handleStartPickup(d, actor, pin, m)
      PROVE  \E from, to : Transition(from, to)
  <2>1. Transition(trip.status, "PICKUP_STARTED")
    BY <1>4 DEF handleStartPickup, Transition
  <2> QED BY <2>1
<1>5. ASSUME NEW d \in Drivers, NEW actor \in Actors, handleStart(d, actor)
      PROVE  \E from, to : Transition(from, to)
  <2>1. Transition(trip.status, "IN_PROGRESS")
    BY <1>5 DEF handleStart, Transition
  <2> QED BY <2>1
<1>6. ASSUME NEW d \in Drivers, NEW actor \in Actors, NEW i \in Intents \cup {None},
             handleComplete(d, actor, i)
      PROVE  \E from, to : Transition(from, to)
  <2>1. Transition(trip.status, "COMPLETED")
    BY <1>6 DEF handleComplete, Transition
  <2> QED BY <2>1
<1>7. ASSUME NEW side \in {"rider", "driver", "system"}, NEW actor \in Actors,
             NEW i \in Intents \cup {None}, handleCancel(side, actor, i)
      PROVE  \E from, to : Transition(from, to)
  <2>1. Transition(trip.status, "CANCELED")
    BY <1>7 DEF handleCancel, Transition, CancellableStates
  <2> QED BY <2>1
<1>8. ASSUME NEW i \in Intents, handleMarkPaid(i)
      PROVE  \E from, to : Transition(from, to)
  <2>1. Transition(trip.status, "PAID")
    BY <1>8 DEF handleMarkPaid, Transition
  <2> QED BY <2>1
<1> QED BY <1>1, <1>2, <1>3, <1>4, <1>5, <1>6, <1>7, <1>8 DEF Next

LEMMA TransitionsKeepInv ==
  ASSUME Inv, NEW from, NEW to, Transition(from, to)
  PROVE  Inv'
<1> USE NoneAssumption DEF Inv, Transition, validTransitions
<1>1. TypeOK'
  BY DEF TypeOK
<1>2. StampsTellTheLife'
  <2>1. \A p \in Before : p[1] = to => p[2] \in trip.stamps
    BY DEF StampsTellTheLife, Before
  <2>2. \A p \in Before : p[1] \in trip'.stamps => p[2] \in trip'.stamps
    BY <2>1 DEF StampsTellTheLife
  <2>3. "PAID" \in trip'.stamps => trip'.paymentIntentId \in Intents
    BY DEF StampsTellTheLife, TypeOK, TripRecords
  <2> QED BY <2>2, <2>3 DEF StampsTellTheLife
<1>3. DriverIffAssigned'
  BY DEF DriverIffAssigned
<1> QED BY <1>1, <1>2, <1>3

LEMMA Invariance == Spec => []Inv
<1>1. Inv /\ [Next]_trip => Inv'
  <2> SUFFICES ASSUME Inv, [Next]_trip PROVE Inv'
    OBVIOUS
  <2>1. CASE UNCHANGED trip
    BY <2>1 DEF Inv, TypeOK, StampsTellTheLife, DriverIffAssigned
  <2>2. CASE Next
    BY <2>2, HandlersAreTransitions, TransitionsKeepInv DEF Inv
  <2> QED BY <2>1, <2>2
<1> QED BY InitInv, <1>1, PTL DEF Spec

\* A handler never leaves a trip with a status, driver, intent or timestamp that is none.
THEOREM TypeCorrect == Spec => []TypeOK
<1>1. Inv => TypeOK
  BY DEF Inv
<1> QED BY Invariance, <1>1, PTL

\* The timestamps of a trip tell a possible life, whatever commands it is sent, a
\* REQUEST at any time among them.
THEOREM StampsCorrect == Spec => []StampsTellTheLife
<1>1. Inv => StampsTellTheLife
  BY DEF Inv
<1> QED BY Invariance, <1>1, PTL

\* A trip has a driver exactly when some driver was assigned to it.
THEOREM DriverAssigned == Spec => []DriverIffAssigned
<1>1. Inv => DriverIffAssigned
  BY DEF Inv
<1> QED BY Invariance, <1>1, PTL

\* No handler but handleRequest makes a transition that the table of
\* validateTransition forbids, and handleRequest keeps driver and payment intent.
THEOREM TableFollowed == Spec => HandlersFollowTable
<1>1. Inv /\ [Next]_trip =>
        [trip'.status # trip.status =>
           \/ <<trip.status, trip'.status>> \in validTransitions
           \/ /\ trip'.status = "REQUESTED"
              /\ trip'.driverId = trip.driverId
              /\ trip'.paymentIntentId = trip.paymentIntentId]_trip
  BY HandlersAreTransitions DEF Inv, Transition
<1> QED BY Invariance, <1>1, PTL DEF Spec, HandlersFollowTable

\* The driver locking invariant, for the state machine alone.
THEOREM DriverStaysLocked == Spec => DriverLocked
<1>1. Inv /\ [Next]_trip =>
        [trip.driverId # None => trip'.driverId = trip.driverId]_trip
  BY HandlersAreTransitions DEF Inv, Transition
<1> QED BY Invariance, <1>1, PTL DEF Spec, DriverLocked
=============================================================================
