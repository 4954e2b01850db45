-------------------------- MODULE TripUseCases_proofs --------------------------
(***************************************************************************)
(* Theorems about TripUseCases, for every set of trips, drivers, PINs,     *)
(* intents and tasks, and every choice of Operations and Faults.           *)
(***************************************************************************)
EXTENDS TripUseCases, TLAPS

-----------------------------------------------------------------------------
(* Types.  TypeOK is not inductive: what a task writes to a row or a key is a *)
(* local variable, whose type depends on where the task is.                   *)

AcceptPoints ==
  {"accept:setPin", "accept:setDisplay", "accept:riderNoShow",
   "accept:update", "accept:audit", "accept:publish"}

\* The points after an update that returned the row: actor is the row's driver.
ReturnedPoints ==
  {"complete:audit", "complete:publish", "cancel:clearPin", "cancel:clearNoShow",
   "cancel:audit", "cancel:record", "cancel:publish"}

ChargePoints   == {"complete:update", "complete:audit", "complete:publish"}
CapturedPoints == {"captured:update", "captured:audit", "captured:ack"}

\* The locals of task record x that are set when the task is at point p.
LocalsAt(p, x) ==
  /\ p \in AcceptPoints => x.actor \in Drivers /\ x.pin \in Pins
  /\ p \in ReturnedPoints => x.actor \in Drivers \cup {None}
  /\ p \in ChargePoints \cup CapturedPoints => x.intent \in Intents

WellTyped == {x \in TaskStates : LocalsAt(x.at, x)}

RowsTyped == row \in [Trips -> Rows]

RedisTyped ==
  /\ pinKey \in [Trips -> [pin : Pins, for : Drivers] \cup {None}]
  /\ displayKey \in [Trips -> Pins \cup {None}]
  /\ noShow \in [Trips -> SUBSET {"rider", "driver"}]

RecordsTyped ==
  /\ audit \in [Trips -> SUBSET ((Statuses \cup {None}) \X Statuses)]
  /\ cancellation \subseteq Trips
  /\ published \subseteq Events

PaymentsTyped ==
  /\ intent \in [Intents -> IntentStates]
  /\ \A i \in Intents : intent[i].status # "none" => intent[i].trip \in Trips
  /\ inbox \subseteq CapturedEvents

TasksTyped == task \in [Tasks -> WellTyped]

TypeInv == RowsTyped /\ RedisTyped /\ RecordsTyped /\ PaymentsTyped /\ TasksTyped

LEMMA TypeInvImpliesTypeOK == TypeInv => TypeOK
  BY DEF TypeInv, TypeOK, RowsTyped, RedisTyped, RecordsTyped, PaymentsTyped,
         TasksTyped, WellTyped

LEMMA IdleTyped == Idle \in WellTyped
<1>1. Idle \in TaskStates
  BY DEF Idle, TaskStates
<1>2. Idle.at = "idle"
  BY DEF Idle
<1> QED
  BY <1>1, <1>2 DEF WellTyped, LocalsAt, AcceptPoints, ReturnedPoints, ChargePoints,
                    CapturedPoints

LEMMA InitTyped == Init => TypeInv
<1> SUFFICES ASSUME Init PROVE TypeInv
  OBVIOUS
<1>1. RowsTyped
  BY DEF Init, RowsTyped, Rows, NoRow, RequestedRow, Statuses
<1>2. RedisTyped
  BY DEF Init, RedisTyped
<1>3. RecordsTyped
  BY DEF Init, RecordsTyped
<1>4. PaymentsTyped
  BY DEF Init, PaymentsTyped, IntentStates, NoIntent
<1>5. TasksTyped
  BY IdleTyped DEF Init, TasksTyped
<1> QED BY <1>1, <1>2, <1>3, <1>4, <1>5 DEF TypeInv

\* A task that moves keeps its type when its locals fit the new point.
LEMMA GotoTyped ==
  ASSUME TasksTyped, NEW k \in Tasks, NEW p \in Points, Goto(k, p),
         LocalsAt(p, task[k])
  PROVE  TasksTyped'
<1>1. task[k] \in TaskStates
  BY DEF TasksTyped, WellTyped
<1> DEFINE x == [task[k] EXCEPT !.at = p]
<1>2. x \in TaskStates /\ x.at = p
  BY <1>1 DEF TaskStates
<1>3. x.actor = task[k].actor /\ x.pin = task[k].pin /\ x.intent = task[k].intent
  BY <1>1 DEF TaskStates
<1>4. LocalsAt(x.at, x)
  BY <1>2, <1>3 DEF LocalsAt
<1>5. x \in WellTyped
  BY <1>2, <1>4 DEF WellTyped
<1>6. task' = [task EXCEPT ![k] = x]
  BY DEF Goto
<1> QED BY <1>5, <1>6 DEF TasksTyped

LEMMA ReturnTyped ==
  ASSUME TasksTyped, NEW k \in Tasks, Return(k)
  PROVE  TasksTyped'
  BY IdleTyped DEF TasksTyped, Return

LEMMA UpdateTyped ==
  ASSUME RowsTyped, NEW t \in Trips, NEW r \in Rows, Update(t, r)
  PROVE  RowsTyped'
  BY DEF RowsTyped, Update

LEMMA StampedTyped ==
  ASSUME RowsTyped, NEW t \in Trips, NEW s \in Statuses
  PROVE  Stamped(t, s) \in Rows
  BY DEF RowsTyped, Rows, Stamped

LEMMA AuditedTyped ==
  ASSUME RecordsTyped, NEW t \in Trips, NEW from \in Statuses \cup {None},
         NEW to \in Statuses, Audited(t, from, to), UNCHANGED <<cancellation, published>>
  PROVE  RecordsTyped'
  BY DEF RecordsTyped, Audited

LEMMA PublishTyped ==
  ASSUME RecordsTyped, NEW e \in Events, Publish(e), UNCHANGED <<audit, cancellation>>
  PROVE  RecordsTyped'
  BY DEF RecordsTyped, Publish

\* Moving on within the points that share their locals.
LEMMA PhaseTyped ==
  ASSUME TasksTyped, NEW k \in Tasks, NEW p \in Points, Goto(k, p),
         p \in AcceptPoints => task[k].at \in AcceptPoints,
         p \in ReturnedPoints => task[k].at \in ReturnedPoints,
         p \in ChargePoints \cup CapturedPoints =>
           task[k].at \in ChargePoints \cup CapturedPoints
  PROVE  TasksTyped'
<1>1. LocalsAt(task[k].at, task[k])
  BY DEF TasksTyped, WellTyped
<1> QED BY <1>1, GotoTyped DEF LocalsAt

\* What an action leaves alone keeps its type.
LEMMA Frame ==
  ASSUME TypeInv
  PROVE  /\ UNCHANGED row => RowsTyped'
         /\ UNCHANGED redis => RedisTyped'
         /\ UNCHANGED records => RecordsTyped'
         /\ UNCHANGED payments => PaymentsTyped'
         /\ UNCHANGED task => TasksTyped'
<1>1. UNCHANGED row => RowsTyped'
  BY DEF TypeInv, RowsTyped
<1>2. UNCHANGED redis => RedisTyped'
  BY DEF TypeInv, RedisTyped, redis
<1>3. UNCHANGED records => RecordsTyped'
  BY DEF TypeInv, RecordsTyped, records
<1>4. UNCHANGED payments => PaymentsTyped'
  BY DEF TypeInv, PaymentsTyped, payments
<1>5. UNCHANGED task => TasksTyped'
  BY DEF TypeInv, TasksTyped
<1> QED BY <1>1, <1>2, <1>3, <1>4, <1>5

LEMMA CreateTyped ==
  ASSUME TypeInv, NEW k \in Tasks, NEW t \in Trips, CreateStep(k, t)
  PROVE  TypeInv'
<1> USE Frame DEF TypeInv
<1>1. ASSUME NEW known \in BOOLEAN, CreateInsert(k, t, known) PROVE TypeInv'
  <2>1. RowsTyped'
    <3>1. Stamped(t, "REQUESTED") \in Rows
      BY StampedTyped DEF Statuses
    <3>2. [Stamped(t, "REQUESTED") EXCEPT !.h3 = known] \in Rows
      BY <3>1 DEF Rows
    <3> QED BY <1>1, <3>2, UpdateTyped DEF CreateInsert
  <2>2. TasksTyped'
    BY <1>1, PhaseTyped DEF CreateInsert, At, Points, AcceptPoints, ReturnedPoints,
                            ChargePoints, CapturedPoints
  <2> QED BY <1>1, <2>1, <2>2 DEF CreateInsert
<1>2. CASE CreateAudit(k, t)
  <2>1. RecordsTyped'
    BY <1>2, AuditedTyped DEF CreateAudit, Statuses
  <2>2. TasksTyped'
    BY <1>2, PhaseTyped DEF CreateAudit, At, Points, AcceptPoints, ReturnedPoints,
                            ChargePoints, CapturedPoints
  <2> QED BY <1>2, <2>1, <2>2 DEF CreateAudit
<1>3. CASE CreatePublish(k, t)
  <2>1. RecordsTyped'
    BY <1>3, PublishTyped DEF CreatePublish, Event, Events, EventTypes
  <2> QED BY <1>3, <2>1, ReturnTyped DEF CreatePublish
<1> QED BY <1>1, <1>2, <1>3 DEF CreateStep

LEMMA AcceptTyped ==
  ASSUME TypeInv, NEW k \in Tasks, NEW t \in Trips, AcceptStep(k, t)
  PROVE  TypeInv'
<1> USE Frame DEF TypeInv
<1>0. task[k].at \in AcceptPoints =>
        task[k].actor \in Drivers /\ task[k].pin \in Pins /\ task[k] \in TaskStates
  BY DEF TasksTyped, WellTyped, LocalsAt
<1>1. CASE AcceptSetPin(k, t)
  <2>1. RedisTyped'
    BY <1>0, <1>1 DEF AcceptSetPin, At, AcceptPoints, RedisTyped
  <2>2. TasksTyped'
    BY <1>1, PhaseTyped DEF AcceptSetPin, At, Points, AcceptPoints, ReturnedPoints,
                            ChargePoints, CapturedPoints
  <2> QED BY <1>1, <2>1, <2>2 DEF AcceptSetPin
<1>2. CASE AcceptSetDisplay(k, t)
  <2>1. RedisTyped'
    BY <1>0, <1>2 DEF AcceptSetDisplay, At, AcceptPoints, RedisTyped
  <2>2. TasksTyped'
    BY <1>2, PhaseTyped DEF AcceptSetDisplay, At, Points, AcceptPoints, ReturnedPoints,
                            ChargePoints, CapturedPoints
  <2> QED BY <1>2, <2>1, <2>2 DEF AcceptSetDisplay
<1>3. CASE AcceptRiderNoShow(k, t)
  <2>1. RedisTyped'
    BY <1>3 DEF AcceptRiderNoShow, RedisTyped
  <2>2. TasksTyped'
    BY <1>3, PhaseTyped DEF AcceptRiderNoShow, At, Points, AcceptPoints, ReturnedPoints,
                            ChargePoints, CapturedPoints
  <2> QED BY <1>3, <2>1, <2>2 DEF AcceptRiderNoShow
<1>4. CASE AcceptUpdate(k, t)
  <2>1. RowsTyped'
    <3>1. Stamped(t, "ASSIGNED") \in Rows
      BY StampedTyped DEF Statuses
    <3>2. task[k].actor \in Drivers
      BY <1>0, <1>4 DEF AcceptUpdate, At, AcceptPoints
    <3>3. [Stamped(t, "ASSIGNED") EXCEPT !.driverId = task[k].actor] \in Rows
      BY <3>1, <3>2 DEF Rows
    <3> QED BY <1>4, <3>3, UpdateTyped DEF AcceptUpdate
  <2>2. TasksTyped'
    BY <1>4, PhaseTyped DEF AcceptUpdate, At, Points, AcceptPoints, ReturnedPoints,
                            ChargePoints, CapturedPoints
  <2> QED BY <1>4, <2>1, <2>2 DEF AcceptUpdate
<1>5. CASE AcceptAudit(k, t)
  <2>0. task[k].seen \in Statuses \cup {None}
    BY <1>0, <1>5 DEF AcceptAudit, At, AcceptPoints, TaskStates
  <2>1. RecordsTyped'
    BY <1>5, <2>0, AuditedTyped DEF AcceptAudit, Statuses
  <2>2. TasksTyped'
    BY <1>5, PhaseTyped DEF AcceptAudit, At, Points, AcceptPoints, ReturnedPoints,
                            ChargePoints, CapturedPoints
  <2> QED BY <1>5, <2>1, <2>2 DEF AcceptAudit
<1>6. CASE AcceptPublish(k, t)
  <2>0. task[k].actor \in Drivers /\ task[k].pin \in Pins
    BY <1>0, <1>6 DEF AcceptPublish, At, AcceptPoints
  <2>1. RecordsTyped'
    BY <1>6, <2>0, PublishTyped DEF AcceptPublish, Event, Events, EventTypes
  <2> QED BY <1>6, <2>1, ReturnTyped DEF AcceptPublish
<1> QED BY <1>1, <1>2, <1>3, <1>4, <1>5, <1>6 DEF AcceptStep

LEMMA ClearNoShowTyped ==
  ASSUME RedisTyped, NEW t \in Trips, NEW kept \in SUBSET NoShowKeys,
         ClearNoShow(t, kept), UNCHANGED <<pinKey, displayKey>>
  PROVE  RedisTyped'
  BY DEF RedisTyped, ClearNoShow

LEMMA ClearPinTyped ==
  ASSUME RedisTyped, NEW t \in Trips, NEW kept \in SUBSET PinKeys,
         ClearPin(t, kept), UNCHANGED noShow
  PROVE  RedisTyped'
  BY DEF RedisTyped, ClearPin

LEMMA VerifyTyped ==
  ASSUME TypeInv, NEW k \in Tasks, NEW t \in Trips, VerifyStep(k, t)
  PROVE  TypeInv'
<1> USE Frame DEF TypeInv
<1>1. CASE VerifyValidatePin(k, t)
  <2>1. TasksTyped'
    BY <1>1, PhaseTyped DEF VerifyValidatePin, Points, AcceptPoints, ReturnedPoints,
                            ChargePoints, CapturedPoints
  <2> QED BY <1>1, <2>1 DEF VerifyValidatePin
<1>2. CASE VerifyUpdate(k, t)
  <2>1. RowsTyped'
    BY <1>2, StampedTyped, UpdateTyped DEF VerifyUpdate, Statuses
  <2>2. TasksTyped'
    BY <1>2, PhaseTyped DEF VerifyUpdate, Points, AcceptPoints, ReturnedPoints,
                            ChargePoints, CapturedPoints
  <2> QED BY <1>2, <2>1, <2>2 DEF VerifyUpdate
<1>3. ASSUME NEW kept \in SUBSET NoShowKeys, VerifyClearNoShow(k, t, kept)
      PROVE  TypeInv'
  <2>1. RedisTyped'
    BY <1>3, ClearNoShowTyped DEF VerifyClearNoShow
  <2>2. TasksTyped'
    BY <1>3, PhaseTyped DEF VerifyClearNoShow, Points, AcceptPoints, ReturnedPoints,
                            ChargePoints, CapturedPoints
  <2> QED BY <1>3, <2>1, <2>2 DEF VerifyClearNoShow
<1>4. CASE VerifyDriverNoShow(k, t)
  <2>1. RedisTyped'
    BY <1>4 DEF VerifyDriverNoShow, RedisTyped
  <2>2. TasksTyped'
    BY <1>4, PhaseTyped DEF VerifyDriverNoShow, Points, AcceptPoints, ReturnedPoints,
                            ChargePoints, CapturedPoints
  <2> QED BY <1>4, <2>1, <2>2 DEF VerifyDriverNoShow
<1>5. ASSUME NEW kept \in SUBSET PinKeys, VerifyClearPin(k, t, kept)
      PROVE  TypeInv'
  <2>1. RedisTyped'
    BY <1>5, ClearPinTyped DEF VerifyClearPin
  <2>2. CASE Goto(k, "verify:audit")
    <3>1. TasksTyped'
      BY <2>2, PhaseTyped DEF Points, AcceptPoints, ReturnedPoints, ChargePoints,
                              CapturedPoints
    <3> QED BY <1>5, <2>1, <3>1 DEF VerifyClearPin
  <2>3. CASE Return(k)
    BY <1>5, <2>1, <2>3, ReturnTyped DEF VerifyClearPin
  <2> QED BY <1>5, <2>2, <2>3 DEF VerifyClearPin
<1>6. CASE VerifyAudit(k, t)
  <2>1. RecordsTyped'
    BY <1>6, AuditedTyped DEF VerifyAudit, Statuses
  <2> QED BY <1>6, <2>1, ReturnTyped DEF VerifyAudit
<1> QED BY <1>1, <1>2, <1>3, <1>4, <1>5, <1>6 DEF VerifyStep

LEMMA StartTyped ==
  ASSUME TypeInv, NEW k \in Tasks, NEW t \in Trips, StartStep(k, t)
  PROVE  TypeInv'
<1> USE Frame DEF TypeInv
<1>1. CASE StartUpdate(k, t)
  <2>1. RowsTyped'
    BY <1>1, StampedTyped, UpdateTyped DEF StartUpdate, Statuses
  <2>2. TasksTyped'
    BY <1>1, PhaseTyped DEF StartUpdate, Points, AcceptPoints, ReturnedPoints,
                            ChargePoints, CapturedPoints
  <2> QED BY <1>1, <2>1, <2>2 DEF StartUpdate
<1>2. ASSUME NEW kept \in SUBSET NoShowKeys, StartClearNoShow(k, t, kept)
      PROVE  TypeInv'
  <2>1. RedisTyped'
    BY <1>2, ClearNoShowTyped DEF StartClearNoShow
  <2>2. TasksTyped'
    BY <1>2, PhaseTyped DEF StartClearNoShow, Points, AcceptPoints, ReturnedPoints,
                            ChargePoints, CapturedPoints
  <2> QED BY <1>2, <2>1, <2>2 DEF StartClearNoShow
<1>3. CASE StartAudit(k, t)
  <2>1. RecordsTyped'
    BY <1>3, AuditedTyped DEF StartAudit, Statuses
  <2> QED BY <1>3, <2>1, ReturnTyped DEF StartAudit
<1> QED BY <1>1, <1>2, <1>3 DEF StartStep

LEMMA IssueTyped ==
  ASSUME PaymentsTyped, NEW t \in Trips, NEW i \in Intents, IssueIntent(t, i),
         UNCHANGED inbox
  PROVE  PaymentsTyped'
  BY DEF PaymentsTyped, IssueIntent, IntentStates

\* The update returned the row, so the task learns the row's driver.
LEMMA ReturnedTyped ==
  ASSUME RowsTyped, TasksTyped, NEW k \in Tasks, NEW t \in Trips,
         NEW p \in ReturnedPoints \cap Points,
         p \in ChargePoints => task[k].at \in ChargePoints,
         task' = [task EXCEPT ![k].at = p, ![k].actor = row[t].driverId]
  PROVE  TasksTyped'
<1> DEFINE x == [task[k] EXCEPT !.at = p, !.actor = row[t].driverId]
<1>1. task[k] \in TaskStates /\ LocalsAt(task[k].at, task[k])
  BY DEF TasksTyped, WellTyped
<1>2. row[t].driverId \in Drivers \cup {None}
  BY DEF RowsTyped, Rows
<1>3. x \in TaskStates /\ x.at = p /\ x.actor = row[t].driverId
        /\ x.intent = task[k].intent
  BY <1>1, <1>2 DEF TaskStates
<1>4. p \notin AcceptPoints /\ p \notin CapturedPoints
  BY DEF ReturnedPoints, AcceptPoints, CapturedPoints
<1>5. LocalsAt(x.at, x)
  BY <1>1, <1>2, <1>3, <1>4 DEF LocalsAt
<1>6. x \in WellTyped
  BY <1>3, <1>5 DEF WellTyped
<1>7. task' = [task EXCEPT ![k] = x]
  OBVIOUS
<1> QED BY <1>6, <1>7 DEF TasksTyped

LEMMA CompleteTyped ==
  ASSUME TypeInv, NEW k \in Tasks, NEW t \in Trips, CompleteStep(k, t)
  PROVE  TypeInv'
<1> USE Frame DEF TypeInv
<1>0. task[k] \in TaskStates /\ LocalsAt(task[k].at, task[k])
  BY DEF TasksTyped, WellTyped
<1>1. ASSUME NEW i \in Intents, CompleteCreateIntent(k, t, i) PROVE TypeInv'
  <2>1. PaymentsTyped'
    BY <1>1, IssueTyped DEF CompleteCreateIntent
  <2>2. TasksTyped'
    <3> DEFINE x == [task[k] EXCEPT !.at = "complete:update", !.intent = i]
    <3>1. x \in TaskStates /\ x.at = "complete:update" /\ x.intent = i
      BY <1>0 DEF TaskStates, Points
    <3>2. x \in WellTyped
      BY <3>1 DEF WellTyped, LocalsAt, AcceptPoints, ReturnedPoints
    <3>3. task' = [task EXCEPT ![k] = x]
      BY <1>1 DEF CompleteCreateIntent
    <3> QED BY <3>2, <3>3 DEF TasksTyped
  <2> QED BY <1>1, <2>1, <2>2 DEF CompleteCreateIntent
<1>2. ASSUME NEW i \in Intents, CompleteIntentLost(k, t, i) PROVE TypeInv'
  <2>1. PaymentsTyped'
    BY <1>2, IssueTyped DEF CompleteIntentLost
  <2> QED BY <1>2, <2>1 DEF CompleteIntentLost
<1>3. CASE CompleteUpdate(k, t)
  <2>1. RowsTyped'
    <3>1. Stamped(t, "COMPLETED") \in Rows
      BY StampedTyped DEF Statuses
    <3>2. task[k].intent \in Intents
      BY <1>0, <1>3 DEF CompleteUpdate, At, LocalsAt, ChargePoints
    <3>3. [Stamped(t, "COMPLETED") EXCEPT !.paymentIntentId = task[k].intent] \in Rows
      BY <3>1, <3>2 DEF Rows
    <3> QED BY <1>3, <3>3, UpdateTyped DEF CompleteUpdate
  <2>2. TasksTyped'
    BY <1>3, ReturnedTyped DEF CompleteUpdate, At, Points, ReturnedPoints, ChargePoints
  <2> QED BY <1>3, <2>1, <2>2 DEF CompleteUpdate
<1>4. CASE CompleteAudit(k, t)
  <2>1. RecordsTyped'
    BY <1>4, AuditedTyped DEF CompleteAudit, Statuses
  <2>2. TasksTyped'
    BY <1>4, PhaseTyped DEF CompleteAudit, At, Points, AcceptPoints, ReturnedPoints,
                            ChargePoints, CapturedPoints
  <2> QED BY <1>4, <2>1, <2>2 DEF CompleteAudit
<1>5. CASE CompletePublish(k, t)
  <2>1. task[k].actor \in Drivers \cup {None} /\ task[k].intent \in Intents
    BY <1>0, <1>5 DEF CompletePublish, At, LocalsAt, ReturnedPoints, ChargePoints
  <2>2. RecordsTyped'
    BY <1>5, <2>1, PublishTyped DEF CompletePublish, Event, Events, EventTypes
  <2> QED BY <1>5, <2>2, ReturnTyped DEF CompletePublish
<1> QED BY <1>1, <1>2, <1>3, <1>4, <1>5 DEF CompleteStep

LEMMA CancelTyped ==
  ASSUME TypeInv, NEW k \in Tasks, NEW t \in Trips, CancelStep(k, t)
  PROVE  TypeInv'
<1> USE Frame DEF TypeInv
<1>0. task[k] \in TaskStates /\ LocalsAt(task[k].at, task[k])
  BY DEF TasksTyped, WellTyped
<1>1. CASE CancelUpdate(k, t)
  <2>1. RowsTyped'
    BY <1>1, StampedTyped, UpdateTyped DEF CancelUpdate, Statuses
  <2>2. TasksTyped'
    <3>1. /\ "cancel:clearPin" \in ReturnedPoints \cap Points
          /\ "cancel:clearPin" \notin ChargePoints
      BY DEF Points, ReturnedPoints, ChargePoints
    <3>2. task' = [task EXCEPT ![k].at = "cancel:clearPin",
                               ![k].actor = row[t].driverId]
      BY <1>1 DEF CancelUpdate
    <3> QED BY <3>1, <3>2, ReturnedTyped
  <2> QED BY <1>1, <2>1, <2>2 DEF CancelUpdate
<1>2. ASSUME NEW kept \in SUBSET PinKeys, CancelClearPin(k, t, kept) PROVE TypeInv'
  <2>1. RedisTyped'
    BY <1>2, ClearPinTyped DEF CancelClearPin
  <2>2. TasksTyped'
    BY <1>2, PhaseTyped DEF CancelClearPin, At, Points, AcceptPoints, ReturnedPoints,
                            ChargePoints, CapturedPoints
  <2> QED BY <1>2, <2>1, <2>2 DEF CancelClearPin
<1>3. ASSUME NEW kept \in SUBSET NoShowKeys, CancelClearNoShow(k, t, kept)
      PROVE  TypeInv'
  <2>1. RedisTyped'
    BY <1>3, ClearNoShowTyped DEF CancelClearNoShow
  <2>2. TasksTyped'
    BY <1>3, PhaseTyped DEF CancelClearNoShow, At, Points, AcceptPoints, ReturnedPoints,
                            ChargePoints, CapturedPoints
  <2> QED BY <1>3, <2>1, <2>2 DEF CancelClearNoShow
<1>4. CASE CancelAudit(k, t)
  <2>0. task[k].seen \in Statuses \cup {None}
    BY <1>0 DEF TaskStates
  <2>1. RecordsTyped'
    BY <1>4, <2>0, AuditedTyped DEF CancelAudit, Statuses
  <2>2. TasksTyped'
    BY <1>4, PhaseTyped DEF CancelAudit, At, Points, AcceptPoints, ReturnedPoints,
                            ChargePoints, CapturedPoints
  <2> QED BY <1>4, <2>1, <2>2 DEF CancelAudit
<1>5. CASE CancelRecord(k, t)
  <2>1. RecordsTyped'
    BY <1>5 DEF CancelRecord, RecordsTyped
  <2>2. TasksTyped'
    BY <1>5, PhaseTyped DEF CancelRecord, At, Points, AcceptPoints, ReturnedPoints,
                            ChargePoints, CapturedPoints
  <2> QED BY <1>5, <2>1, <2>2 DEF CancelRecord
<1>6. CASE CancelPublish(k, t)
  <2>1. task[k].actor \in Drivers \cup {None}
    BY <1>0, <1>6 DEF CancelPublish, At, LocalsAt, ReturnedPoints
  <2>2. RecordsTyped'
    BY <1>6, <2>1, PublishTyped DEF CancelPublish, Event, Events, EventTypes
  <2> QED BY <1>6, <2>2, ReturnTyped DEF CancelPublish
<1> QED BY <1>1, <1>2, <1>3, <1>4, <1>5, <1>6 DEF CancelStep

LEMMA CapturedTyped ==
  ASSUME TypeInv, NEW k \in Tasks, NEW t \in Trips, CapturedStep(k, t)
  PROVE  TypeInv'
<1> USE Frame DEF TypeInv
<1>1. CASE CapturedUpdate(k, t)
  <2>1. RowsTyped'
    BY <1>1, StampedTyped, UpdateTyped DEF CapturedUpdate, Statuses
  <2>2. TasksTyped'
    BY <1>1, PhaseTyped DEF CapturedUpdate, At, Points, AcceptPoints, ReturnedPoints,
                            ChargePoints, CapturedPoints
  <2> QED BY <1>1, <2>1, <2>2 DEF CapturedUpdate
<1>2. CASE CapturedAudit(k, t)
  <2>1. RecordsTyped'
    BY <1>2, AuditedTyped DEF CapturedAudit, Statuses
  <2>2. TasksTyped'
    BY <1>2, PhaseTyped DEF CapturedAudit, At, Points, AcceptPoints, ReturnedPoints,
                            ChargePoints, CapturedPoints
  <2> QED BY <1>2, <2>1, <2>2 DEF CapturedAudit
<1>3. CASE CapturedAck(k, t)
  <2>1. PaymentsTyped'
    BY <1>3 DEF CapturedAck, PaymentsTyped
  <2> QED BY <1>3, <2>1, ReturnTyped DEF CapturedAck
<1> QED BY <1>1, <1>2, <1>3 DEF CapturedStep

\* A new task at a point whose locals the request has set.
LEMMA BeginTyped ==
  ASSUME TasksTyped, NEW k \in Tasks, NEW x \in WellTyped, Begin(k, x)
  PROVE  TasksTyped'
  BY DEF TasksTyped, Begin

LEMMA NewTaskTyped ==
  ASSUME RowsTyped, NEW t \in Trips, NEW p \in Points
  PROVE  /\ NewTask(p, t) \in TaskStates
         /\ NewTask(p, t).at = p
<1>1. row[t].status \in Statuses \cup {None}
  BY DEF RowsTyped, Rows
<1> QED BY <1>1 DEF NewTask, Status, Idle, TaskStates

\* A request that needs no local but what it read, and perhaps its actor.
LEMMA PlainTyped ==
  ASSUME NEW x \in TaskStates,
         x.at \notin AcceptPoints \cup ReturnedPoints \cup ChargePoints \cup CapturedPoints
  PROVE  x \in WellTyped
  BY DEF WellTyped, LocalsAt

LEMMA BeginSomeTyped ==
  ASSUME TypeInv, NEW k \in Tasks, BeginSome(k)
  PROVE  TypeInv'
<1> USE Frame DEF TypeInv
<1> PICK t \in Trips :
      \/ BeginCreate(k, t)
      \/ \E d \in Drivers, p \in Pins : BeginAccept(k, t, d, p)
      \/ \E a \in Drivers \cup Admins, p \in Pins : BeginVerify(k, t, a, p)
      \/ \E a \in Drivers \cup Admins : BeginStart(k, t, a) \/ BeginComplete(k, t, a)
      \/ \E side \in {"rider", "driver", "system"},
            a \in Drivers \cup Admins \cup {Rider} : BeginCancel(k, t, side, a)
  BY DEF BeginSome
<1>1. CASE BeginCreate(k, t)
  <2>1. NewTask("create:insert", t) \in WellTyped
    BY NewTaskTyped, PlainTyped DEF Points, AcceptPoints, ReturnedPoints, ChargePoints,
                                    CapturedPoints
  <2> QED BY <1>1, <2>1, BeginTyped DEF BeginCreate
<1>2. ASSUME NEW d \in Drivers, NEW p \in Pins, BeginAccept(k, t, d, p) PROVE TypeInv'
  <2> DEFINE x == [NewTask("accept:setPin", t) EXCEPT !.actor = d, !.pin = p]
  <2>0. /\ NewTask("accept:setPin", t) \in TaskStates
        /\ NewTask("accept:setPin", t).at = "accept:setPin"
    BY NewTaskTyped DEF Points
  <2>1. x \in TaskStates /\ x.at = "accept:setPin" /\ x.actor = d /\ x.pin = p
    BY <2>0 DEF TaskStates
  <2>2. x \in WellTyped
    BY <2>1 DEF WellTyped, LocalsAt, ReturnedPoints, ChargePoints, CapturedPoints
  <2>3. Begin(k, x) /\ UNCHANGED <<row, redis, records, payments>>
    BY <1>2 DEF BeginAccept
  <2> QED BY <2>2, <2>3, BeginTyped
<1>3. ASSUME NEW a \in Drivers \cup Admins, NEW p \in Pins, BeginVerify(k, t, a, p)
      PROVE  TypeInv'
  <2> DEFINE x == [NewTask("verify:validatePin", t) EXCEPT !.actor = a, !.pin = p]
  <2>0. /\ NewTask("verify:validatePin", t) \in TaskStates
        /\ NewTask("verify:validatePin", t).at = "verify:validatePin"
    BY NewTaskTyped DEF Points
  <2>1. x \in TaskStates /\ x.at = "verify:validatePin"
    BY <2>0 DEF TaskStates
  <2>2. x \in WellTyped
    BY <2>1, PlainTyped DEF AcceptPoints, ReturnedPoints, ChargePoints, CapturedPoints
  <2>3. Begin(k, x) /\ UNCHANGED <<row, redis, records, payments>>
    BY <1>3 DEF BeginVerify
  <2> QED BY <2>2, <2>3, BeginTyped
<1>4. ASSUME NEW a \in Drivers \cup Admins, BeginStart(k, t, a) PROVE TypeInv'
  <2> DEFINE x == [NewTask("start:update", t) EXCEPT !.actor = a]
  <2>0. /\ NewTask("start:update", t) \in TaskStates
        /\ NewTask("start:update", t).at = "start:update"
    BY NewTaskTyped DEF Points
  <2>1. x \in TaskStates /\ x.at = "start:update"
    BY <2>0 DEF TaskStates
  <2>2. x \in WellTyped
    BY <2>1, PlainTyped DEF AcceptPoints, ReturnedPoints, ChargePoints, CapturedPoints
  <2>3. Begin(k, x) /\ UNCHANGED <<row, redis, records, payments>>
    BY <1>4 DEF BeginStart
  <2> QED BY <2>2, <2>3, BeginTyped
<1>5. ASSUME NEW a \in Drivers \cup Admins, BeginComplete(k, t, a) PROVE TypeInv'
  <2> DEFINE x == [NewTask("complete:createIntent", t) EXCEPT !.actor = a]
  <2>0. /\ NewTask("complete:createIntent", t) \in TaskStates
        /\ NewTask("complete:createIntent", t).at = "complete:createIntent"
    BY NewTaskTyped DEF Points
  <2>1. x \in TaskStates /\ x.at = "complete:createIntent"
    BY <2>0 DEF TaskStates
  <2>2. x \in WellTyped
    BY <2>1, PlainTyped DEF AcceptPoints, ReturnedPoints, ChargePoints, CapturedPoints
  <2>3. Begin(k, x) /\ UNCHANGED <<row, redis, records, payments>>
    BY <1>5 DEF BeginComplete
  <2> QED BY <2>2, <2>3, BeginTyped
<1>6. ASSUME NEW side, NEW a \in Drivers \cup Admins \cup {Rider},
             BeginCancel(k, t, side, a)
      PROVE  TypeInv'
  <2> DEFINE x == [NewTask("cancel:update", t) EXCEPT !.actor = a]
  <2>0. /\ NewTask("cancel:update", t) \in TaskStates
        /\ NewTask("cancel:update", t).at = "cancel:update"
    BY NewTaskTyped DEF Points
  <2>1. x \in TaskStates /\ x.at = "cancel:update"
    BY <2>0 DEF TaskStates
  <2>2. x \in WellTyped
    BY <2>1, PlainTyped DEF AcceptPoints, ReturnedPoints, ChargePoints, CapturedPoints
  <2>3. Begin(k, x) /\ UNCHANGED <<row, redis, records, payments>>
    BY <1>6 DEF BeginCancel
  <2> QED BY <2>2, <2>3, BeginTyped
<1> QED BY <1>1, <1>2, <1>3, <1>4, <1>5, <1>6

LEMMA DeliveryTyped ==
  ASSUME TypeInv, NEW k \in Tasks, NEW e \in inbox,
         BeginCaptured(k, e) \/ DropCaptured(k, e)
  PROVE  TypeInv'
<1> USE Frame DEF TypeInv
<1>0. e.trip \in Trips /\ e.intent \in Intents
  BY DEF PaymentsTyped, CapturedEvents
<1>1. CASE BeginCaptured(k, e)
  <2> DEFINE x == [NewTask("captured:update", e.trip) EXCEPT !.intent = e.intent]
  <2>0. /\ NewTask("captured:update", e.trip) \in TaskStates
        /\ NewTask("captured:update", e.trip).at = "captured:update"
    BY <1>0, NewTaskTyped DEF Points
  <2>1. x \in TaskStates /\ x.at = "captured:update" /\ x.intent = e.intent
    BY <1>0, <2>0 DEF TaskStates
  <2>2. x \in WellTyped
    BY <1>0, <2>1 DEF WellTyped, LocalsAt, AcceptPoints, ReturnedPoints
  <2>3. Begin(k, x) /\ UNCHANGED <<row, redis, records, payments>>
    BY <1>1 DEF BeginCaptured
  <2> QED BY <2>2, <2>3, BeginTyped
<1>2. CASE DropCaptured(k, e)
  <2>1. PaymentsTyped'
    BY <1>2 DEF DropCaptured, PaymentsTyped
  <2> QED BY <1>2, <2>1 DEF DropCaptured
<1> QED BY <1>1, <1>2

LEMMA CaptureTyped ==
  ASSUME TypeInv, NEW i \in Intents, Capture(i)
  PROVE  TypeInv'
<1> USE Frame DEF TypeInv
<1>1. PaymentsTyped'
  <2>1. intent[i] \in IntentStates /\ intent[i].trip \in Trips
    BY DEF Capture, PaymentsTyped
  <2>2. inbox' \subseteq CapturedEvents
    BY <2>1 DEF Capture, PaymentsTyped, CapturedEvents
  <2>3. intent' \in [Intents -> IntentStates]
    BY <2>1 DEF Capture, PaymentsTyped, IntentStates
  <2>4. \A j \in Intents : intent'[j].trip = intent[j].trip
                           /\ (intent'[j].status # "none" => intent[j].status # "none")
    BY <2>1 DEF Capture, PaymentsTyped, IntentStates
  <2> QED BY <2>2, <2>3, <2>4 DEF PaymentsTyped
<1> QED BY <1>1 DEF Capture

LEMMA ExpireTyped ==
  ASSUME TypeInv, Expire
  PROVE  TypeInv'
<1> USE Frame DEF TypeInv
<1> PICK t \in Trips : \/ ExpirePin(t)
                       \/ ExpireDisplay(t)
                       \/ \E key \in NoShowKeys : ExpireNoShow(t, key)
  BY DEF Expire
<1>1. CASE ExpirePin(t)
  <2>1. RedisTyped'
    BY <1>1 DEF ExpirePin, RedisTyped
  <2> QED BY <1>1, <2>1 DEF ExpirePin
<1>2. CASE ExpireDisplay(t)
  <2>1. RedisTyped'
    BY <1>2 DEF ExpireDisplay, RedisTyped
  <2> QED BY <1>2, <2>1 DEF ExpireDisplay
<1>3. ASSUME NEW key \in NoShowKeys, ExpireNoShow(t, key) PROVE TypeInv'
  <2>1. RedisTyped'
    BY <1>3 DEF ExpireNoShow, RedisTyped
  <2> QED BY <1>3, <2>1 DEF ExpireNoShow
<1> QED BY <1>1, <1>2, <1>3

LEMMA NextTyped == TypeInv /\ [Next]_vars => TypeInv'
<1> SUFFICES ASSUME TypeInv, [Next]_vars PROVE TypeInv'
  OBVIOUS
<1>1. CASE UNCHANGED vars
  BY <1>1, Frame DEF vars, TypeInv
<1>2. ASSUME NEW k \in Tasks, BeginSome(k) PROVE TypeInv'
  BY <1>2, BeginSomeTyped
<1>3. ASSUME NEW k \in Tasks, Step(k) PROVE TypeInv'
  BY <1>3, CreateTyped, AcceptTyped, VerifyTyped, StartTyped, CompleteTyped,
     CancelTyped, CapturedTyped DEF Step
<1>4. ASSUME NEW k \in Tasks, Abort(k) PROVE TypeInv'
  BY <1>4, Frame, ReturnTyped DEF Abort, TypeInv
<1>5. ASSUME NEW k \in Tasks, NEW e \in inbox, BeginCaptured(k, e) \/ DropCaptured(k, e)
      PROVE  TypeInv'
  BY <1>5, DeliveryTyped
<1>6. ASSUME NEW i \in Intents, Capture(i) PROVE TypeInv'
  BY <1>6, CaptureTyped
<1>7. CASE Expire
  BY <1>7, ExpireTyped
<1> QED BY <1>1, <1>2, <1>3, <1>4, <1>5, <1>6, <1>7 DEF Next

\* Whatever requests, faults and events interleave, rows, keys, records, intents
\* and tasks keep their types: no stale or missing local variable of a use case
\* ever reaches a column or a key.
THEOREM TypeCorrect == Spec => []TypeOK
<1>1. Spec => []TypeInv
  BY InitTyped, NextTyped, PTL DEF Spec
<1> QED BY <1>1, TypeInvImpliesTypeOK, PTL
=============================================================================
