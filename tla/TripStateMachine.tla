---------------------------- MODULE TripStateMachine ----------------------------
(***************************************************************************)
(* The domain state machine of one trip, as                                *)
(* trips/domain/state-machine/trip.state-machine.ts states it: a pure      *)
(* function from a trip, a command and a context to a new trip.  A command *)
(* whose checks fail throws and leaves the trip as it was, and a command   *)
(* whose target status is already reached returns the trip unchanged; both *)
(* are stuttering steps here.                                              *)
(*                                                                         *)
(* No use case of the repository calls the class.  The module is therefore *)
(* the abstract specification of the trip life cycle, and TripUseCases     *)
(* shows under which conditions the use cases implement it.                *)
(*                                                                         *)
(* Timestamps: requestedAt, offeredAt, ... are abstracted to the set       *)
(* trip.stamps of the statuses whose timestamp is set.                     *)
(***************************************************************************)
EXTENDS Naturals

CONSTANTS
  Drivers,    \* driver identifiers
  Rider,      \* the trip's rider (trip.riderId)
  Intents,    \* payment intent identifiers
  None        \* an undefined field, context entry or row

ASSUME NoneAssumption ==
  /\ None \notin Drivers \cup Intents
  /\ None # Rider
  /\ \A s \in {"REQUESTED", "OFFERED", "ASSIGNED", "PICKUP_STARTED",
               "IN_PROGRESS", "COMPLETED", "PAID", "CANCELED"} : None # s

VARIABLE trip

Statuses == {"REQUESTED", "OFFERED", "ASSIGNED", "PICKUP_STARTED",
             "IN_PROGRESS", "COMPLETED", "PAID", "CANCELED"}

\* The table of validateTransition.
validTransitions ==
  { <<"REQUESTED", "OFFERED">>,        <<"REQUESTED", "ASSIGNED">>,
    <<"REQUESTED", "CANCELED">>,       <<"OFFERED", "ASSIGNED">>,
    <<"OFFERED", "CANCELED">>,         <<"ASSIGNED", "PICKUP_STARTED">>,
    <<"ASSIGNED", "CANCELED">>,        <<"PICKUP_STARTED", "IN_PROGRESS">>,
    <<"PICKUP_STARTED", "CANCELED">>,  <<"IN_PROGRESS", "COMPLETED">>,
    <<"IN_PROGRESS", "CANCELED">>,     <<"COMPLETED", "PAID">> }

TripRecords ==
  [status : Statuses \cup {None}, driverId : Drivers \cup {None},
   paymentIntentId : Intents \cup {None}, stamps : SUBSET Statuses]

\* No trip yet: what REQUEST starts from.
NoTrip ==
  [status |-> None, driverId |-> None, paymentIntentId |-> None, stamps |-> {}]

\* Who may issue a command; None stands for a context without an actor.
Actors ==
  [type : {"rider", "driver", "system"}, id : Drivers \cup {Rider}] \cup {None}

\* validateActorAuthorization: a context without an actor is let through.
Authorized(actor, type, id) ==
  actor # None => /\ actor.type = type
                  /\ id # None => actor.id = id

\* validateCancelAuthorization, by the side that cancels.
CancelAuthorized(actor, side) ==
  actor # None =>
    /\ actor.type = side
    /\ side = "rider" => actor.id = Rider
    /\ (side = "driver" /\ trip.driverId # None) => actor.id = trip.driverId

\* MAX_PICKUP_DISTANCE_METERS, and distances on both sides of it.
MaxPickupDistance == 80
Distances == {0, MaxPickupDistance, MaxPickupDistance + 1}

CancellableStates ==
  {"REQUESTED", "OFFERED", "ASSIGNED", "PICKUP_STARTED", "IN_PROGRESS"}

\* The new status written, the old one's timestamp set.
StampsOldStatus(s) ==
  [trip EXCEPT !.status = s, !.stamps = @ \cup {trip.status}]

\* Status and timestamp change together in every handler.
Stamped(s) == [trip EXCEPT !.status = s, !.stamps = @ \cup {s}]

-----------------------------------------------------------------------------
Init == trip = NoTrip

\* REQUEST looks at no status: a trip at any point of its life, PAID and CANCELED
\* included, is REQUESTED again, and keeps its driver, intent and other timestamps.
handleRequest == trip' = Stamped("REQUESTED")

handleOffer ==
  /\ <<trip.status, "OFFERED">> \in validTransitions
  /\ trip.status = "REQUESTED"
  /\ trip' = Stamped("OFFERED")

\* The driver is not written to the trip.
AssignForgetsDriver(d, actor, online, offerExpired) ==
  /\ trip.status \in {"REQUESTED", "OFFERED"}
  /\ online
  /\ Authorized(actor, "driver", d)
  /\ trip' = Stamped("ASSIGNED")

\* A trip already assigned to another driver is assigned again.
AssignWithoutLock(d, actor, online, offerExpired) ==
  /\ trip.status \in {"REQUESTED", "OFFERED", "ASSIGNED"}
  /\ online
  /\ trip.status = "OFFERED" => ~offerExpired
  /\ Authorized(actor, "driver", d)
  /\ trip' = [Stamped("ASSIGNED") EXCEPT !.driverId = d]

handleAssign(d, actor, online, offerExpired) ==
  /\ trip.status \in {"REQUESTED", "OFFERED"}
  /\ trip.driverId \in {None, d}
  /\ online
  /\ trip.status = "OFFERED" => ~offerExpired
  /\ Authorized(actor, "driver", d)
  /\ trip' = [Stamped("ASSIGNED") EXCEPT !.driverId = d]

handleStartPickup(d, actor, pinGiven, distance) ==
  /\ trip.status = "ASSIGNED"
  /\ d = trip.driverId
  /\ pinGiven
  /\ distance <= MaxPickupDistance
  /\ Authorized(actor, "driver", trip.driverId)
  /\ trip' = Stamped("PICKUP_STARTED")

\* A driver may start the trip without having verified the PIN.
StartWithoutPickup(d, actor) ==
  /\ trip.status \in {"ASSIGNED", "PICKUP_STARTED"}
  /\ d = trip.driverId
  /\ Authorized(actor, "driver", trip.driverId)
  /\ trip' = Stamped("IN_PROGRESS")

handleStart(d, actor) ==
  /\ trip.status = "PICKUP_STARTED"
  /\ d = trip.driverId
  /\ Authorized(actor, "driver", trip.driverId)
  /\ trip' = Stamped("IN_PROGRESS")

\* A driver may complete the trip as soon as the pickup has started.
CompleteFromPickup(d, actor, intent) ==
  /\ trip.status \in {"PICKUP_STARTED", "IN_PROGRESS"}
  /\ d = trip.driverId
  /\ Authorized(actor, "driver", trip.driverId)
  /\ trip' = [Stamped("COMPLETED") EXCEPT !.paymentIntentId = intent]

\* intent: context.paymentIntentId; without one the field keeps its value.
handleComplete(d, actor, intent) ==
  /\ trip.status = "IN_PROGRESS"
  /\ d = trip.driverId
  /\ Authorized(actor, "driver", trip.driverId)
  /\ trip' = [Stamped("COMPLETED") EXCEPT
                !.paymentIntentId = IF intent = None THEN @ ELSE intent]

handleCancel(side, actor, intent) ==
  /\ trip.status \in CancellableStates
  /\ CancelAuthorized(actor, side)
  /\ trip' = [Stamped("CANCELED") EXCEPT
                !.paymentIntentId = IF intent = None THEN @ ELSE intent]

\* intent: context.paymentResult.paymentIntentId, the intent that was captured.
handleMarkPaid(intent) ==
  /\ trip.status = "COMPLETED"
  /\ trip' = [Stamped("PAID") EXCEPT !.paymentIntentId = intent]

Next ==
  \/ handleRequest
  \/ handleOffer
  \/ \E d \in Drivers, actor \in Actors, online, expired \in BOOLEAN :
       handleAssign(d, actor, online, expired)
  \/ \E d \in Drivers, actor \in Actors, pin \in BOOLEAN, m \in Distances :
       handleStartPickup(d, actor, pin, m)
  \/ \E d \in Drivers, actor \in Actors : handleStart(d, actor)
  \/ \E d \in Drivers, actor \in Actors, i \in Intents \cup {None} :
       handleComplete(d, actor, i)
  \/ \E side \in {"rider", "driver", "system"}, actor \in Actors,
        i \in Intents \cup {None} : handleCancel(side, actor, i)
  \/ \E i \in Intents : handleMarkPaid(i)

Spec == Init /\ [][Next]_trip

-----------------------------------------------------------------------------
\* The trip record has its type.
TypeOK == trip \in TripRecords

\* The timestamps of a trip tell a possible life, also of one that was REQUESTED
\* again in the middle of it: each timestamp that is set has the one of the step
\* before it, the current status is stamped, and a trip that was ever paid names
\* an intent.
Before ==
  { <<"OFFERED", "REQUESTED">>,       <<"ASSIGNED", "REQUESTED">>,
    <<"PICKUP_STARTED", "ASSIGNED">>, <<"IN_PROGRESS", "PICKUP_STARTED">>,
    <<"COMPLETED", "IN_PROGRESS">>,   <<"PAID", "COMPLETED">>,
    <<"CANCELED", "REQUESTED">> }

StampsTellTheLife ==
  /\ \A p \in Before : p[1] \in trip.stamps => p[2] \in trip.stamps
  /\ trip.status # None => trip.status \in trip.stamps
  /\ "PAID" \in trip.stamps => trip.paymentIntentId \in Intents

\* A trip has a driver exactly when some driver was assigned to it.
DriverIffAssigned == (trip.driverId # None) <=> ("ASSIGNED" \in trip.stamps)

\* The handlers, each with guards of its own, agree with the table that only
\* handleOffer consults, with one exception: handleRequest also leaves statuses
\* the table ends with, and then driver and payment intent stay as they were.
HandlersFollowTable ==
  [][ trip'.status # trip.status =>
        \/ <<trip.status, trip'.status>> \in validTransitions
        \/ /\ trip'.status = "REQUESTED"
           /\ trip'.driverId = trip.driverId
           /\ trip'.paymentIntentId = trip.paymentIntentId ]_trip

\* The driver locking invariant: an assigned driver is never replaced.
DriverLocked ==
  [][trip.driverId # None => trip'.driverId = trip.driverId]_trip
=============================================================================
