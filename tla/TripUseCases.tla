------------------------------ MODULE TripUseCases ------------------------------
(***************************************************************************)
(* The application layer of the service: the use cases of                  *)
(* trips/application and the payment.captured handler, as executions that  *)
(* interleave at every await.                                              *)
(*                                                                         *)
(* An execution (a task) reads the trip row once, checks what it read, and *)
(* then goes through its awaits in program order.  Row updates carry no    *)
(* condition on the current status and there is no lock and no transaction *)
(* around them, so what a task knows about the row is what it read.  One   *)
(* action below is one await that changes state; the checks that follow    *)
(* the read, and the calls to services that change nothing here (session,  *)
(* eligibility, ETA, quote, finalize), belong to the action that begins    *)
(* the task.  An await that throws, or a crash, is Abort.                  *)
(***************************************************************************)
EXTENDS Naturals, FiniteSets

CONSTANTS
  Trips,       \* trip identifiers
  Drivers,     \* driver identifiers
  Admins,      \* users with the admin role
  Rider,       \* the rider of every trip
  Pins,        \* the PINs generatePin may draw
  Intents,     \* payment intents the Payments service may issue
  Tasks,       \* executions the process may run at the same time
  Existing,    \* trips that are in the table, REQUESTED, when the process starts
  Operations,  \* bound: the requests clients send in an instance
  Faults,      \* bound: the faults that happen in an instance
  None         \* an absent row, key or field

AllOperations == {"create", "accept", "verify", "start", "complete", "cancel"}

\* An execution ends early; keys expire; a key deletion fails; the stream does
\* not take an event; an answer of the Payments service is lost.
AllFaults == {"abort", "expiry", "deletion", "publish", "payments"}

Statuses == {"REQUESTED", "OFFERED", "ASSIGNED", "PICKUP_STARTED",
             "IN_PROGRESS", "COMPLETED", "PAID", "CANCELED"}

EventTypes == {"trip.created", "trip.assigned", "trip.completed", "trip.cancelled"}

\* Where a running task is: the next await that changes state.
Points ==
  { "create:insert", "create:audit", "create:publish",
    "accept:setPin", "accept:setDisplay", "accept:riderNoShow",
    "accept:update", "accept:audit", "accept:publish",
    "verify:validatePin", "verify:update", "verify:clearNoShow",
    "verify:driverNoShow", "verify:clearPin", "verify:audit",
    "start:update", "start:clearNoShow", "start:audit",
    "complete:createIntent", "complete:update", "complete:audit",
    "complete:publish",
    "cancel:update", "cancel:clearPin", "cancel:clearNoShow", "cancel:audit",
    "cancel:record", "cancel:publish",
    "captured:update", "captured:audit", "captured:ack" }

ASSUME UseCasesAssumption ==
  /\ None \notin Trips \cup Drivers \cup Pins \cup Intents \cup Admins
  /\ None \notin Statuses \cup Points \cup {"idle"}
  /\ Existing \subseteq Trips
  /\ Operations \subseteq AllOperations
  /\ Faults \subseteq AllFaults

VARIABLES
  row,          \* the trips table
  pinKey,       \* trip:{id}:pin, the PIN its hash verifies and for whom it was set
  displayKey,   \* trip:{id}:pin:display, the PIN shown to the rider
  noShow,       \* which of the keys rider_ns and driver_ns a trip has
  audit,        \* the audit table, its entries about status changes
  cancellation, \* the trips with a row in the cancellations table
  published,    \* the trip events the stream has taken
  intent,       \* the Payments service's intents
  inbox,        \* payment.captured events not acknowledged yet
  task          \* the executions

redis    == <<pinKey, displayKey, noShow>>
records  == <<audit, cancellation, published>>
payments == <<intent, inbox>>
vars     == <<row, redis, records, payments, task>>

NoRow == [status |-> None, driverId |-> None, paymentIntentId |-> None,
          h3 |-> FALSE, stamps |-> {}]

\* A trip created earlier, with its H3 indexes.
RequestedRow == [NoRow EXCEPT !.status = "REQUESTED", !.h3 = TRUE,
                              !.stamps = {"REQUESTED"}]

Idle == [at |-> "idle", trip |-> None, seen |-> None, actor |-> None,
         pin |-> None, intent |-> None]

NoIntent == [trip |-> None, status |-> "none"]

Events == [type : EventTypes, trip : Trips, driver : Drivers \cup {None},
           pin : Pins \cup {None}, intent : Intents \cup {None}]

CapturedEvents == [trip : Trips, intent : Intents]

\* The columns of a row; the timestamp columns are the set of those not null.
Rows == [status : Statuses \cup {None}, driverId : Drivers \cup {None},
         paymentIntentId : Intents \cup {None}, h3 : BOOLEAN,
         stamps : SUBSET Statuses]

IntentStates == [trip : Trips \cup {None}, status : {"none", "created", "succeeded"}]

TaskStates == [at : Points \cup {"idle"}, trip : Trips \cup {None},
               seen : Statuses \cup {None},
               actor : Drivers \cup Admins \cup {Rider, None},
               pin : Pins \cup {None}, intent : Intents \cup {None}]

\* The row has its columns, the keys hold what the code stores in them, and a
\* task its local variables.
TypeOK ==
  /\ row \in [Trips -> Rows]
  /\ pinKey \in [Trips -> [pin : Pins, for : Drivers] \cup {None}]
  /\ displayKey \in [Trips -> Pins \cup {None}]
  /\ noShow \in [Trips -> SUBSET {"rider", "driver"}]
  /\ audit \in [Trips -> SUBSET ((Statuses \cup {None}) \X Statuses)]
  /\ cancellation \subseteq Trips
  /\ published \subseteq Events
  /\ intent \in [Intents -> IntentStates]
  /\ inbox \subseteq CapturedEvents
  /\ task \in [Tasks -> TaskStates]

Init ==
  /\ row = [t \in Trips |-> IF t \in Existing THEN RequestedRow ELSE NoRow]
  /\ pinKey = [t \in Trips |-> None]
  /\ displayKey = [t \in Trips |-> None]
  /\ noShow = [t \in Trips |-> {}]
  /\ audit = [t \in Trips |-> {}]
  /\ cancellation = {}
  /\ published = {}
  /\ intent = [i \in Intents |-> NoIntent]
  /\ inbox = {}
  /\ task = [k \in Tasks |-> Idle]

-----------------------------------------------------------------------------
(* Steps every use case is made of. *)

Status(t) == row[t].status

\* A task is created with what it read; the request's own data comes on top.
NewTask(at, t) == [Idle EXCEPT !.at = at, !.trip = t, !.seen = Status(t)]

Begin(k, new) == task[k] = Idle /\ task' = [task EXCEPT ![k] = new]

At(k, point) == task[k].at = point

Goto(k, point) == task' = [task EXCEPT ![k].at = point]

Return(k) == task' = [task EXCEPT ![k] = Idle]

\* The timestamp of the status that is left, not of the one entered.
StampedOld(t, s) == [row[t] EXCEPT !.status = s, !.stamps = @ \cup {row[t].status}]

\* tripRepository.update writes the patch, whatever the row's status is now.
Stamped(t, s) == [row[t] EXCEPT !.status = s, !.stamps = @ \cup {s}]

Update(t, newRow) == row' = [row EXCEPT ![t] = newRow]

Audited(t, from, to) == audit' = [audit EXCEPT ![t] = @ \cup {<<from, to>>}]

Event(type, t, d, p, i) ==
  [type |-> type, trip |-> t, driver |-> d, pin |-> p, intent |-> i]

\* EventBusService.publish returns null, and the event is lost, when Redis is
\* away; the use case goes on either way.
Publish(e) ==
  \/ published' = published \cup {e}
  \/ "publish" \in Faults /\ published' = published

\* Any driver acts on any trip.
MayActUnchecked(t, a) == a \in Admins \cup Drivers

\* A driver acts on the trip it is assigned to, an admin on any.
MayAct(t, a) == a \in Admins \/ a = row[t].driverId

-----------------------------------------------------------------------------
(* CreateTripUseCase: the trip id is a fresh UUID. *)

BeginCreate(k, t) ==
  /\ "create" \in Operations
  /\ Status(t) = None
  /\ \A j \in Tasks : task[j].trip # t
  /\ Begin(k, NewTask("create:insert", t))
  /\ UNCHANGED <<row, redis, records, payments>>

\* h3Known: GEO may be down, and then the row has no originH3Res7.
CreateInsert(k, t, h3Known) ==
  /\ At(k, "create:insert")
  /\ Update(t, [Stamped(t, "REQUESTED") EXCEPT !.h3 = h3Known])
  /\ Goto(k, "create:audit")
  /\ UNCHANGED <<redis, records, payments>>

CreateAudit(k, t) ==
  /\ At(k, "create:audit")
  /\ Audited(t, None, "REQUESTED")
  /\ Goto(k, "create:publish")
  /\ UNCHANGED <<row, redis, cancellation, published, payments>>

CreatePublish(k, t) ==
  /\ At(k, "create:publish")
  /\ Publish(Event("trip.created", t, None, None, None))
  /\ Return(k)
  /\ UNCHANGED <<row, redis, audit, cancellation, payments>>

-----------------------------------------------------------------------------
(* AcceptTripUseCase, for driver d.  The PIN is drawn after the reads. *)

BeginAccept(k, t, d, p) ==
  /\ "accept" \in Operations
  /\ Status(t) \in {"REQUESTED", "OFFERED"}
  /\ Begin(k, [NewTask("accept:setPin", t) EXCEPT !.actor = d, !.pin = p])
  /\ UNCHANGED <<row, redis, records, payments>>

\* setPin, first key.  Its salt is new, so the key belongs to this acceptance.
AcceptSetPin(k, t) ==
  /\ At(k, "accept:setPin")
  /\ pinKey' = [pinKey EXCEPT ![t] = [pin |-> task[k].pin, for |-> task[k].actor]]
  /\ Goto(k, "accept:setDisplay")
  /\ UNCHANGED <<row, displayKey, noShow, records, payments>>

\* The display key is only set when there is none (SET NX).
AcceptDisplayIfAbsent(k, t) ==
  /\ At(k, "accept:setDisplay")
  /\ displayKey' = [displayKey EXCEPT ![t] = IF @ = None THEN task[k].pin ELSE @]
  /\ Goto(k, "accept:riderNoShow")
  /\ UNCHANGED <<row, pinKey, noShow, records, payments>>

\* setPin, second key (and the attempt counters, which PinCache models).
AcceptSetDisplay(k, t) ==
  /\ At(k, "accept:setDisplay")
  /\ displayKey' = [displayKey EXCEPT ![t] = task[k].pin]
  /\ Goto(k, "accept:riderNoShow")
  /\ UNCHANGED <<row, pinKey, noShow, records, payments>>

AcceptRiderNoShow(k, t) ==
  /\ At(k, "accept:riderNoShow")
  /\ noShow' = [noShow EXCEPT ![t] = @ \cup {"rider"}]
  /\ Goto(k, "accept:update")
  /\ UNCHANGED <<row, pinKey, displayKey, records, payments>>

\* The patch leaves the driver out.
AcceptUpdateStatusOnly(k, t) ==
  /\ At(k, "accept:update")
  /\ Update(t, Stamped(t, "ASSIGNED"))
  /\ Goto(k, "accept:audit")
  /\ UNCHANGED <<redis, records, payments>>

\* The event is published before the audit entry is written.
AcceptUpdateThenPublish(k, t) ==
  /\ At(k, "accept:update")
  /\ Update(t, [Stamped(t, "ASSIGNED") EXCEPT !.driverId = task[k].actor])
  /\ Goto(k, "accept:publish")
  /\ UNCHANGED <<redis, records, payments>>

AcceptUpdate(k, t) ==
  /\ At(k, "accept:update")
  /\ Update(t, [Stamped(t, "ASSIGNED") EXCEPT !.driverId = task[k].actor])
  /\ Goto(k, "accept:audit")
  /\ UNCHANGED <<redis, records, payments>>

AcceptAudit(k, t) ==
  /\ At(k, "accept:audit")
  /\ Audited(t, task[k].seen, "ASSIGNED")
  /\ Goto(k, "accept:publish")
  /\ UNCHANGED <<row, redis, cancellation, published, payments>>

AcceptPublish(k, t) ==
  /\ At(k, "accept:publish")
  /\ Publish(Event("trip.assigned", t, task[k].actor, task[k].pin, None))
  /\ Return(k)
  /\ UNCHANGED <<row, redis, audit, cancellation, payments>>

-----------------------------------------------------------------------------
(* VerifyPinUseCase: a calls it with the PIN p. *)

BeginVerify(k, t, a, p) ==
  /\ "verify" \in Operations
  /\ Status(t) = "ASSIGNED"
  /\ MayAct(t, a)
  /\ Begin(k, [NewTask("verify:validatePin", t) EXCEPT !.actor = a, !.pin = p])
  /\ UNCHANGED <<row, redis, records, payments>>

\* The PIN matches the hash.  Any other outcome of isBlocked and validatePin
\* (no key, another PIN, a block, a Redis error) ends the request: Abort.
VerifyValidatePin(k, t) ==
  /\ At(k, "verify:validatePin")
  /\ pinKey[t] # None
  /\ pinKey[t].pin = task[k].pin
  /\ Goto(k, "verify:update")
  /\ UNCHANGED <<row, redis, records, payments>>

VerifyUpdate(k, t) ==
  /\ At(k, "verify:update")
  /\ Update(t, Stamped(t, "PICKUP_STARTED"))
  /\ Goto(k, "verify:clearNoShow")
  /\ UNCHANGED <<redis, records, payments>>

\* clearNoShow deletes both keys at once and swallows errors: kept is what the
\* failed deletions leave.
ClearNoShow(t, kept) ==
  /\ kept # {} => "deletion" \in Faults
  /\ noShow' = [noShow EXCEPT ![t] = @ \cap kept]

VerifyClearNoShow(k, t, kept) ==
  /\ At(k, "verify:clearNoShow")
  /\ ClearNoShow(t, kept)
  /\ Goto(k, "verify:driverNoShow")
  /\ UNCHANGED <<row, pinKey, displayKey, records, payments>>

VerifyDriverNoShow(k, t) ==
  /\ At(k, "verify:driverNoShow")
  /\ noShow' = [noShow EXCEPT ![t] = @ \cup {"driver"}]
  /\ Goto(k, "verify:clearPin")
  /\ UNCHANGED <<row, pinKey, displayKey, records, payments>>

\* clearPin deletes the keys at once; a deletion that fails keeps its key.
ClearPin(t, kept) ==
  /\ kept # {} => "deletion" \in Faults
  /\ pinKey' = [pinKey EXCEPT ![t] = IF "pin" \in kept THEN @ ELSE None]
  /\ displayKey' = [displayKey EXCEPT ![t] = IF "display" \in kept THEN @ ELSE None]

\* ... and clearPin throws then, which ends this request.
VerifyClearPin(k, t, kept) ==
  /\ At(k, "verify:clearPin")
  /\ ClearPin(t, kept)
  /\ IF kept = {} THEN Goto(k, "verify:audit") ELSE Return(k)
  /\ UNCHANGED <<row, noShow, records, payments>>

VerifyAudit(k, t) ==
  /\ At(k, "verify:audit")
  /\ Audited(t, "ASSIGNED", "PICKUP_STARTED")
  /\ Return(k)
  /\ UNCHANGED <<row, redis, cancellation, published, payments>>

-----------------------------------------------------------------------------
(* StartTripUseCase. *)

\* Starting a trip does not wait for the PIN.
BeginStartUnverified(k, t, a) ==
  /\ "start" \in Operations
  /\ Status(t) \in {"ASSIGNED", "PICKUP_STARTED"}
  /\ MayAct(t, a)
  /\ Begin(k, [NewTask("start:update", t) EXCEPT !.actor = a])
  /\ UNCHANGED <<row, redis, records, payments>>

BeginStart(k, t, a) ==
  /\ "start" \in Operations
  /\ Status(t) = "PICKUP_STARTED"
  /\ MayAct(t, a)
  /\ Begin(k, [NewTask("start:update", t) EXCEPT !.actor = a])
  /\ UNCHANGED <<row, redis, records, payments>>

StartUpdate(k, t) ==
  /\ At(k, "start:update")
  /\ Update(t, Stamped(t, "IN_PROGRESS"))
  /\ Goto(k, "start:clearNoShow")
  /\ UNCHANGED <<redis, records, payments>>

StartClearNoShow(k, t, kept) ==
  /\ At(k, "start:clearNoShow")
  /\ ClearNoShow(t, kept)
  /\ Goto(k, "start:audit")
  /\ UNCHANGED <<row, pinKey, displayKey, records, payments>>

StartAudit(k, t) ==
  /\ At(k, "start:audit")
  /\ Audited(t, "PICKUP_STARTED", "IN_PROGRESS")
  /\ Return(k)
  /\ UNCHANGED <<row, redis, cancellation, published, payments>>

-----------------------------------------------------------------------------
(* CompleteTripUseCase. *)

\* The intent is created when the pickup has started.
BeginCompleteEarly(k, t, a) ==
  /\ "complete" \in Operations
  /\ Status(t) \in {"PICKUP_STARTED", "IN_PROGRESS"}
  /\ MayAct(t, a)
  /\ row[t].h3
  /\ Begin(k, [NewTask("complete:createIntent", t) EXCEPT !.actor = a])
  /\ UNCHANGED <<row, redis, records, payments>>

BeginComplete(k, t, a) ==
  /\ "complete" \in Operations
  /\ Status(t) = "IN_PROGRESS"
  /\ MayAct(t, a)
  /\ row[t].h3
  /\ Begin(k, [NewTask("complete:createIntent", t) EXCEPT !.actor = a])
  /\ UNCHANGED <<row, redis, records, payments>>

\* The Payments service issues intent i for the trip.
IssueIntent(t, i) ==
  /\ intent[i] = NoIntent
  /\ intent' = [intent EXCEPT ![i] = [trip |-> t, status |-> "created"]]

CompleteCreateIntent(k, t, i) ==
  /\ At(k, "complete:createIntent")
  /\ IssueIntent(t, i)
  /\ task' = [task EXCEPT ![k].at = "complete:update", ![k].intent = i]
  /\ UNCHANGED <<row, redis, records, inbox>>

\* HttpService.post times out after the service has issued the intent, and
\* sends the request again.
CompleteIntentLost(k, t, i) ==
  /\ "payments" \in Faults
  /\ At(k, "complete:createIntent")
  /\ IssueIntent(t, i)
  /\ UNCHANGED <<row, redis, records, inbox, task>>

\* The patch leaves the payment intent out.
CompleteUpdateNoIntent(k, t) ==
  /\ At(k, "complete:update")
  /\ Update(t, Stamped(t, "COMPLETED"))
  /\ task' = [task EXCEPT ![k].at = "complete:audit", ![k].actor = row[t].driverId]
  /\ UNCHANGED <<redis, records, payments>>

\* trip.completed names the driver of the row as the update returns it.
CompleteUpdate(k, t) ==
  /\ At(k, "complete:update")
  /\ Update(t, [Stamped(t, "COMPLETED") EXCEPT !.paymentIntentId = task[k].intent])
  /\ task' = [task EXCEPT ![k].at = "complete:audit", ![k].actor = row[t].driverId]
  /\ UNCHANGED <<redis, records, payments>>

CompleteAudit(k, t) ==
  /\ At(k, "complete:audit")
  /\ Audited(t, "IN_PROGRESS", "COMPLETED")
  /\ Goto(k, "complete:publish")
  /\ UNCHANGED <<row, redis, cancellation, published, payments>>

CompletePublish(k, t) ==
  /\ At(k, "complete:publish")
  /\ Publish(Event("trip.completed", t, task[k].actor, None, task[k].intent))
  /\ Return(k)
  /\ UNCHANGED <<row, redis, audit, cancellation, payments>>

-----------------------------------------------------------------------------
(* CancelTripUseCase. *)

\* Any driver cancels on the driver's side.
MayCancelUnchecked(t, side, a) ==
  \/ a \in Admins
  \/ side = "rider" /\ a = Rider
  \/ side = "driver" /\ a \in Drivers

\* The handler's role check and the use case's checks of side and actor.
MayCancel(t, side, a) ==
  \/ a \in Admins
  \/ side = "rider" /\ a = Rider
  \/ side = "driver" /\ a \in Drivers /\ a = row[t].driverId

\* A completed trip may be canceled.
BeginCancelAnytime(k, t, side, a) ==
  /\ "cancel" \in Operations
  /\ Status(t) \notin {None, "PAID", "CANCELED"}
  /\ MayCancel(t, side, a)
  /\ Begin(k, [NewTask("cancel:update", t) EXCEPT !.actor = a])
  /\ UNCHANGED <<row, redis, records, payments>>

BeginCancel(k, t, side, a) ==
  /\ "cancel" \in Operations
  /\ Status(t) \notin {None, "COMPLETED", "PAID", "CANCELED"}
  /\ MayCancel(t, side, a)
  /\ Begin(k, [NewTask("cancel:update", t) EXCEPT !.actor = a])
  /\ UNCHANGED <<row, redis, records, payments>>

\* trip.cancelled names the driver of the row as the update returns it.
CancelUpdate(k, t) ==
  /\ At(k, "cancel:update")
  /\ Update(t, Stamped(t, "CANCELED"))
  /\ task' = [task EXCEPT ![k].at = "cancel:clearPin", ![k].actor = row[t].driverId]
  /\ UNCHANGED <<redis, records, payments>>

\* An error of clearPin is caught here, and the use case goes on.
CancelClearPin(k, t, kept) ==
  /\ At(k, "cancel:clearPin")
  /\ ClearPin(t, kept)
  /\ Goto(k, "cancel:clearNoShow")
  /\ UNCHANGED <<row, noShow, records, payments>>

CancelClearNoShow(k, t, kept) ==
  /\ At(k, "cancel:clearNoShow")
  /\ ClearNoShow(t, kept)
  /\ Goto(k, "cancel:audit")
  /\ UNCHANGED <<row, pinKey, displayKey, records, payments>>

CancelAudit(k, t) ==
  /\ At(k, "cancel:audit")
  /\ Audited(t, task[k].seen, "CANCELED")
  /\ Goto(k, "cancel:record")
  /\ UNCHANGED <<row, redis, cancellation, published, payments>>

CancelRecord(k, t) ==
  /\ At(k, "cancel:record")
  /\ cancellation' = cancellation \cup {t}
  /\ Goto(k, "cancel:publish")
  /\ UNCHANGED <<row, redis, audit, published, payments>>

CancelPublish(k, t) ==
  /\ At(k, "cancel:publish")
  /\ Publish(Event("trip.cancelled", t, task[k].actor, None, None))
  /\ Return(k)
  /\ UNCHANGED <<row, redis, audit, cancellation, payments>>

-----------------------------------------------------------------------------
(* payment.captured: the Payments service, and the handler.  An event stays in *)
(* the inbox until it is acknowledged, and may be delivered again before that. *)

Capture(i) ==
  /\ intent[i].status = "created"
  /\ intent' = [intent EXCEPT ![i].status = "succeeded"]
  /\ inbox' = inbox \cup {[trip |-> intent[i].trip, intent |-> i]}
  /\ UNCHANGED <<row, redis, records, task>>

\* The intent of the event is not compared with the row's.
PayableByAnyIntent(e) == Status(e.trip) = "COMPLETED"

\* The handler's checks on the row it reads.
Payable(e) ==
  Status(e.trip) = "COMPLETED" /\ row[e.trip].paymentIntentId = e.intent

BeginCaptured(k, e) ==
  /\ Payable(e)
  /\ Begin(k, [NewTask("captured:update", e.trip) EXCEPT !.intent = e.intent])
  /\ UNCHANGED <<row, redis, records, payments>>

\* The event is acknowledged before it is handled.
AckBeforeHandling(k, e) ==
  /\ task[k] = Idle
  /\ inbox' = inbox \ {e}
  /\ UNCHANGED <<row, redis, records, intent, task>>

\* The handler returns without an error, so the event is acknowledged.
DropCaptured(k, e) ==
  /\ task[k] = Idle
  /\ ~Payable(e)
  /\ inbox' = inbox \ {e}
  /\ UNCHANGED <<row, redis, records, intent, task>>

CapturedUpdate(k, t) ==
  /\ At(k, "captured:update")
  /\ Update(t, Stamped(t, "PAID"))
  /\ Goto(k, "captured:audit")
  /\ UNCHANGED <<redis, records, payments>>

CapturedAudit(k, t) ==
  /\ At(k, "captured:audit")
  /\ Audited(t, "COMPLETED", "PAID")
  /\ Goto(k, "captured:ack")
  /\ UNCHANGED <<row, redis, cancellation, published, payments>>

CapturedAck(k, t) ==
  /\ At(k, "captured:ack")
  /\ inbox' = inbox \ {[trip |-> t, intent |-> task[k].intent]}
  /\ Return(k)
  /\ UNCHANGED <<row, redis, records, intent>>

-----------------------------------------------------------------------------
\* The execution ends here: an await throws, a check on an answer fails, or the
\* process stops.  What was written stays.
Abort(k) ==
  /\ "abort" \in Faults
  /\ task[k] # Idle
  /\ Return(k)
  /\ UNCHANGED <<row, redis, records, payments>>

\* Redis drops a key whose time to live is over.
ExpirePin(t) ==
  /\ pinKey[t] # None
  /\ pinKey' = [pinKey EXCEPT ![t] = None]
  /\ UNCHANGED <<row, displayKey, noShow, records, payments, task>>

ExpireDisplay(t) ==
  /\ displayKey[t] # None
  /\ displayKey' = [displayKey EXCEPT ![t] = None]
  /\ UNCHANGED <<row, pinKey, noShow, records, payments, task>>

ExpireNoShow(t, key) ==
  /\ key \in noShow[t]
  /\ noShow' = [noShow EXCEPT ![t] = @ \ {key}]
  /\ UNCHANGED <<row, pinKey, displayKey, records, payments, task>>

BeginSome(k) ==
  \E t \in Trips :
    \/ BeginCreate(k, t)
    \/ \E d \in Drivers, p \in Pins : BeginAccept(k, t, d, p)
    \/ \E a \in Drivers \cup Admins, p \in Pins : BeginVerify(k, t, a, p)
    \/ \E a \in Drivers \cup Admins : BeginStart(k, t, a) \/ BeginComplete(k, t, a)
    \/ \E side \in {"rider", "driver", "system"},
          a \in Drivers \cup Admins \cup {Rider} : BeginCancel(k, t, side, a)

CreateStep(k, t) ==
  \/ \E known \in BOOLEAN : CreateInsert(k, t, known)
  \/ CreateAudit(k, t)
  \/ CreatePublish(k, t)

AcceptStep(k, t) ==
  \/ AcceptSetPin(k, t)
  \/ AcceptSetDisplay(k, t)
  \/ AcceptRiderNoShow(k, t)
  \/ AcceptUpdate(k, t)
  \/ AcceptAudit(k, t)
  \/ AcceptPublish(k, t)

NoShowKeys == {"rider", "driver"}
PinKeys    == {"pin", "display"}

VerifyStep(k, t) ==
  \/ VerifyValidatePin(k, t)
  \/ VerifyUpdate(k, t)
  \/ \E kept \in SUBSET NoShowKeys : VerifyClearNoShow(k, t, kept)
  \/ VerifyDriverNoShow(k, t)
  \/ \E kept \in SUBSET PinKeys : VerifyClearPin(k, t, kept)
  \/ VerifyAudit(k, t)

StartStep(k, t) ==
  \/ StartUpdate(k, t)
  \/ \E kept \in SUBSET NoShowKeys : StartClearNoShow(k, t, kept)
  \/ StartAudit(k, t)

CompleteStep(k, t) ==
  \/ \E i \in Intents : CompleteCreateIntent(k, t, i) \/ CompleteIntentLost(k, t, i)
  \/ CompleteUpdate(k, t)
  \/ CompleteAudit(k, t)
  \/ CompletePublish(k, t)

CancelStep(k, t) ==
  \/ CancelUpdate(k, t)
  \/ \E kept \in SUBSET PinKeys : CancelClearPin(k, t, kept)
  \/ \E kept \in SUBSET NoShowKeys : CancelClearNoShow(k, t, kept)
  \/ CancelAudit(k, t)
  \/ CancelRecord(k, t)
  \/ CancelPublish(k, t)

CapturedStep(k, t) ==
  CapturedUpdate(k, t) \/ CapturedAudit(k, t) \/ CapturedAck(k, t)

\* One await of task k, on the trip it is about.
Step(k) ==
  \E t \in Trips :
    /\ task[k].trip = t
    /\ \/ CreateStep(k, t)
       \/ AcceptStep(k, t)
       \/ VerifyStep(k, t)
       \/ StartStep(k, t)
       \/ CompleteStep(k, t)
       \/ CancelStep(k, t)
       \/ CapturedStep(k, t)

Expire ==
  "expiry" \in Faults /\ \E t \in Trips :
    \/ ExpirePin(t)
    \/ ExpireDisplay(t)
    \/ \E key \in NoShowKeys : ExpireNoShow(t, key)

Next ==
  \/ \E k \in Tasks : BeginSome(k) \/ Step(k) \/ Abort(k)
  \/ \E k \in Tasks, e \in inbox : BeginCaptured(k, e) \/ DropCaptured(k, e)
  \/ \E i \in Intents : Capture(i)
  \/ Expire

Spec == Init /\ [][Next]_vars

\* The event loop resumes every execution whose await has resolved; the bus
\* delivers an event until it is acknowledged (reading, then recovery of what is
\* pending); and the handler's update does not fail for ever.
Fairness ==
  /\ \A k \in Tasks : WF_vars(Step(k)) /\ SF_vars(\E t \in Trips : CapturedUpdate(k, t))
  /\ \A e \in CapturedEvents :
       WF_vars(e \in inbox /\ \E k \in Tasks : BeginCaptured(k, e))

FairSpec == Spec /\ Fairness

-----------------------------------------------------------------------------
(* What holds of every interleaving. *)

\* The timestamp each timestamp needs before it.
Before ==
  { <<"ASSIGNED", "REQUESTED">>,      <<"PICKUP_STARTED", "ASSIGNED">>,
    <<"IN_PROGRESS", "PICKUP_STARTED">>, <<"COMPLETED", "IN_PROGRESS">>,
    <<"PAID", "COMPLETED">>,          <<"CANCELED", "REQUESTED">> }

\* However requests race, the timestamps of a row have their causes: a trip with
\* inProgressAt has pickupStartedAt, and so on back to requestedAt, and the
\* current status is one the row was really taken to.
TimestampsHaveCauses ==
  \A t \in Trips :
    /\ \A p \in Before : p[1] \in row[t].stamps => p[2] \in row[t].stamps
    /\ Status(t) # None => Status(t) \in row[t].stamps

\* A trip that was ever assigned has a driver, whoever wrote last.
DriverRecorded ==
  \A t \in Trips : "ASSIGNED" \in row[t].stamps => row[t].driverId \in Drivers

\* An intent is only created for a trip that was on the road, racing and
\* repeated completions included.
ChargedOnlyForARide ==
  \A i \in Intents : intent[i].trip # None =>
    "IN_PROGRESS" \in row[intent[i].trip].stamps

\* A trip that was ever completed names an intent issued for that same trip, and
\* one that was ever paid had some intent of it captured.
MoneyTrail ==
  \A t \in Trips :
    /\ "COMPLETED" \in row[t].stamps =>
         /\ row[t].paymentIntentId \in Intents
         /\ intent[row[t].paymentIntentId].trip = t
    /\ "PAID" \in row[t].stamps =>
         \E i \in Intents : intent[i] = [trip |-> t, status |-> "succeeded"]

StatusOf(type) ==
  CASE type = "trip.created"   -> "REQUESTED"
    [] type = "trip.assigned"  -> "ASSIGNED"
    [] type = "trip.completed" -> "COMPLETED"
    [] type = "trip.cancelled" -> "CANCELED"

\* The outside world never knows more than the audit table, and the audit table
\* never more than the row: what is published or recorded as canceled has its
\* audit entry, and both ends of an audited change are stamped on the row.
RecordsAreTrue ==
  /\ \A t \in Trips : \A a \in audit[t] :
       /\ a[1] # None => a[1] \in row[t].stamps
       /\ a[2] \in row[t].stamps
  /\ \A e \in published : \E a \in audit[e.trip] : a[2] = StatusOf(e.type)
  /\ \A t \in cancellation : \E a \in audit[t] : a[2] = "CANCELED"

-----------------------------------------------------------------------------
(* What holds when the requests about a trip do not overlap. *)

\* The PIN the driver has to type, the one the rider is shown and the one pushed
\* with trip.assigned are the same PIN, of the driver the row names.
OnePinPerAssignment ==
  \A t \in Trips : (Status(t) = "ASSIGNED" /\ pinKey[t] # None) =>
    /\ pinKey[t].for = row[t].driverId
    /\ displayKey[t] \in {None, pinKey[t].pin}
    /\ \A e \in published : (e.trip = t /\ e.type = "trip.assigned") =>
         e.driver = pinKey[t].for /\ e.pin = pinKey[t].pin

\* A paid trip was paid with the intent the row names.
PaidByItsOwnIntent ==
  \A t \in Trips :
    Status(t) = "PAID" => intent[row[t].paymentIntentId].status = "succeeded"

\* The captured event of a completed trip is never acknowledged before the trip is
\* PAID: it stays in the inbox however often it is delivered and whatever fails.
CapturedIsKept ==
  \A t \in Trips, i \in Intents :
    (/\ Status(t) = "COMPLETED"
     /\ row[t].paymentIntentId = i
     /\ intent[i].status = "succeeded") => [trip |-> t, intent |-> i] \in inbox

\* A driver's verification, start, completion or cancellation changes a row only if
\* the row names this driver; its acceptance, only a row that names nobody.
ChangedByItsDriver ==
  [][\A k \in Tasks, t \in Trips :
       (task'[k] # task[k] /\ row'[t] # row[t] /\ task[k].actor \in Drivers)
         => IF task[k].at = "accept:update" THEN row[t].driverId = None
            ELSE row[t].driverId = task[k].actor]_vars

\* Once the intent of a completed trip is captured, the trip becomes PAID: the
\* event is not lost, whatever fails on the way.
CapturedIsPaid ==
  \A t \in Trips, i \in Intents :
    (/\ Status(t) = "COMPLETED"
     /\ row[t].paymentIntentId = i
     /\ intent[i].status = "succeeded") ~> (Status(t) = "PAID")
=============================================================================
