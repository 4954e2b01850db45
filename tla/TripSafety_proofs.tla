--------------------------- MODULE TripSafety_proofs ---------------------------
(***************************************************************************)
(* The safety invariants of TripUseCases that hold of every interleaving,  *)
(* with any number of executions, crashes and lost answers.                *)
(*                                                                         *)
(* None of them is inductive.  What makes them hold is that nothing is     *)
(* ever taken back (Grows: timestamps, audit entries and issued intents    *)
(* only accumulate), so that a fact a task established when it read the    *)
(* row, however stale its copy of the row has become, is still true when   *)
(* the task writes.  Facts(x) lists these facts for a task record x, by    *)
(* the point it is at.                                                     *)
(***************************************************************************)
EXTENDS TripUseCases_proofs

\* The timestamp that is on the row of a task at point p.
StampedFor(p, stamps) ==
  /\ p \in {"create:audit", "create:publish", "accept:setPin", "accept:setDisplay",
            "accept:riderNoShow", "accept:update", "cancel:update"}
       => "REQUESTED" \in stamps
  /\ p \in {"accept:audit", "accept:publish", "verify:validatePin", "verify:update"}
       => "ASSIGNED" \in stamps
  /\ p \in {"verify:clearNoShow", "verify:driverNoShow", "verify:clearPin",
            "verify:audit", "start:update"}
       => "PICKUP_STARTED" \in stamps
  /\ p \in {"start:clearNoShow", "start:audit", "complete:createIntent",
            "complete:update"}
       => "IN_PROGRESS" \in stamps
  /\ p \in {"complete:audit", "complete:publish", "captured:update"}
       => "COMPLETED" \in stamps
  /\ p \in {"captured:audit", "captured:ack"}
       => "PAID" \in stamps
  /\ p \in {"cancel:clearPin", "cancel:clearNoShow", "cancel:audit", "cancel:record",
            "cancel:publish"}
       => "CANCELED" \in stamps

Enters(entries, s) == \E a \in entries : a[2] = s

\* The audit entry a task at point p has written.
AuditedFor(p, entries) ==
  /\ p = "create:publish" => Enters(entries, "REQUESTED")
  /\ p = "accept:publish" => Enters(entries, "ASSIGNED")
  /\ p = "complete:publish" => Enters(entries, "COMPLETED")
  /\ p \in {"cancel:record", "cancel:publish"} => Enters(entries, "CANCELED")

\* The facts about task record x, when the rows are r, the audit table is a and
\* the intents are n.
Facts(x, r, a, n) ==
  x.at # "idle" =>
    /\ x.trip \in Trips
    /\ StampedFor(x.at, r[x.trip].stamps)
    /\ x.seen # None => x.seen \in r[x.trip].stamps
    /\ AuditedFor(x.at, a[x.trip])
    /\ x.at \in ChargePoints => n[x.intent].trip = x.trip
    /\ x.at \in CapturedPoints =>
         n[x.intent].trip = x.trip /\ n[x.intent].status = "succeeded"

TaskFacts == \A k \in Tasks : Facts(task[k], row, audit, intent)

InboxTrue ==
  \A e \in inbox : intent[e.intent].trip = e.trip /\ intent[e.intent].status = "succeeded"

EveryRowRequested ==
  \A t \in Trips : row[t].stamps # {} => "REQUESTED" \in row[t].stamps

RowInv   == TimestampsHaveCauses /\ EveryRowRequested /\ DriverRecorded
MoneyInv == MoneyTrail /\ ChargedOnlyForARide /\ InboxTrue

SafetyInv == TypeInv /\ RowInv /\ MoneyInv /\ RecordsAreTrue /\ TaskFacts

\* What one step does to the history: it only adds.
Grows ==
  /\ \A t \in Trips : row[t].stamps \subseteq row'[t].stamps
                      /\ audit[t] \subseteq audit'[t]
  /\ \A i \in Intents :
       /\ intent[i].trip # None => intent'[i].trip = intent[i].trip
       /\ intent[i].status = "succeeded" => intent'[i] = intent[i]

-----------------------------------------------------------------------------
(* What the kinds of steps do to the history and to the tables' invariants. *)

\* The invariants of the tables, without the tasks.
TablesInv == RowInv /\ MoneyInv /\ RecordsAreTrue

\* No row, audit entry, record or intent is written; events may leave the inbox.
LEMMA QuietStep ==
  ASSUME SafetyInv, UNCHANGED <<row, records, intent>>, inbox' \subseteq inbox
  PROVE  Grows /\ TablesInv'
<1> USE DEF SafetyInv, records
<1>1. Grows
  BY DEF Grows
<1>2. RowInv'
  BY DEF RowInv, TimestampsHaveCauses, Status, EveryRowRequested, DriverRecorded
<1>3. MoneyInv'
  BY DEF MoneyInv, MoneyTrail, ChargedOnlyForARide, InboxTrue
<1>4. RecordsAreTrue'
  BY DEF RecordsAreTrue
<1> QED BY <1>1, <1>2, <1>3, <1>4 DEF TablesInv

\* Row t enters status s.
LEMMA AdvanceStep ==
  ASSUME SafetyInv, NEW t \in Trips, NEW s \in Statuses, NEW r \in Rows, Update(t, r),
         UNCHANGED <<records, payments>>,
         r.status = s, r.stamps = row[t].stamps \cup {s},
         \A p \in Before : p[1] = s => p[2] \in row[t].stamps,
         s # "REQUESTED" => "REQUESTED" \in row[t].stamps,
         (r.driverId = row[t].driverId /\ s # "ASSIGNED") \/ r.driverId \in Drivers,
         \/ s # "COMPLETED" /\ r.paymentIntentId = row[t].paymentIntentId
         \/ r.paymentIntentId \in Intents /\ intent[r.paymentIntentId].trip = t,
         s = "PAID" =>
           \E i \in Intents : intent[i].trip = t /\ intent[i].status = "succeeded"
  PROVE  Grows /\ TablesInv'
<1> USE DEF SafetyInv, records, payments
<1>0. /\ row'[t] = r
      /\ \A u \in Trips : u # t => row'[u] = row[u]
  BY DEF Update, TypeInv, RowsTyped
<1>1. Grows
  BY <1>0 DEF Grows
<1>2. TimestampsHaveCauses'
  <2> SUFFICES ASSUME NEW u \in Trips
               PROVE  /\ \A p \in Before :
                           p[1] \in row'[u].stamps => p[2] \in row'[u].stamps
                      /\ row'[u].status # None => row'[u].status \in row'[u].stamps
    BY DEF TimestampsHaveCauses, Status
  <2>1. /\ \A p \in Before : p[1] \in row[u].stamps => p[2] \in row[u].stamps
        /\ row[u].status # None => row[u].status \in row[u].stamps
    BY DEF RowInv, TimestampsHaveCauses, Status
  <2>2. CASE u = t
    BY <1>0, <2>1, <2>2
  <2>3. CASE u # t
    BY <1>0, <2>1, <2>3
  <2> QED BY <2>2, <2>3
<1>3. EveryRowRequested'
  BY <1>0 DEF RowInv, EveryRowRequested
<1>4. DriverRecorded'
  BY <1>0 DEF RowInv, DriverRecorded
<1>5. MoneyTrail'
  <2> SUFFICES ASSUME NEW u \in Trips
               PROVE  /\ "COMPLETED" \in row'[u].stamps =>
                           /\ row'[u].paymentIntentId \in Intents
                           /\ intent[row'[u].paymentIntentId].trip = u
                      /\ "PAID" \in row'[u].stamps =>
                           \E i \in Intents : intent[i] = [trip |-> u, status |-> "succeeded"]
    BY DEF MoneyTrail
  <2>1. /\ "COMPLETED" \in row[u].stamps =>
             /\ row[u].paymentIntentId \in Intents
             /\ intent[row[u].paymentIntentId].trip = u
        /\ "PAID" \in row[u].stamps =>
             \E i \in Intents : intent[i] = [trip |-> u, status |-> "succeeded"]
    BY DEF MoneyInv, MoneyTrail
  <2>2. s = "PAID" => \E i \in Intents : intent[i] = [trip |-> t, status |-> "succeeded"]
    BY DEF TypeInv, PaymentsTyped, IntentStates
  <2>3. CASE u = t
    BY <1>0, <2>1, <2>2, <2>3
  <2>4. CASE u # t
    BY <1>0, <2>1, <2>4
  <2> QED BY <2>3, <2>4
<1>6. ChargedOnlyForARide'
  <2> SUFFICES ASSUME NEW i \in Intents, intent[i].trip # None
               PROVE  "IN_PROGRESS" \in row'[intent[i].trip].stamps
    BY DEF ChargedOnlyForARide
  <2>1. intent[i].trip \in Trips
    BY DEF TypeInv, PaymentsTyped, IntentStates
  <2> QED BY <1>0, <2>1 DEF MoneyInv, ChargedOnlyForARide
<1>7. InboxTrue'
  BY DEF MoneyInv, InboxTrue
<1>8. RecordsAreTrue'
  BY <1>1 DEF Grows, RecordsAreTrue
<1> QED BY <1>1, <1>2, <1>3, <1>4, <1>5, <1>6, <1>7, <1>8 DEF TablesInv, RowInv, MoneyInv

\* A status change is audited, both ends of it on the row.
LEMMA AuditStep ==
  ASSUME SafetyInv, NEW t \in Trips, NEW from, NEW to, Audited(t, from, to),
         UNCHANGED <<row, cancellation, published, payments>>,
         from # None => from \in row[t].stamps, to \in row[t].stamps
  PROVE  Grows /\ TablesInv' /\ Enters(audit'[t], to)
<1> USE DEF SafetyInv, payments
<1>0. /\ audit'[t] = audit[t] \cup {<<from, to>>}
      /\ \A u \in Trips : u # t => audit'[u] = audit[u]
  BY DEF Audited, TypeInv, RecordsTyped
<1>1. Grows
  BY <1>0 DEF Grows
<1>2. RowInv'
  BY DEF RowInv, TimestampsHaveCauses, Status, EveryRowRequested, DriverRecorded
<1>3. MoneyInv'
  BY DEF MoneyInv, MoneyTrail, ChargedOnlyForARide, InboxTrue
<1>4. RecordsAreTrue'
  <2>1. \A u \in Trips : \A a \in audit'[u] :
          /\ a[1] # None => a[1] \in row[u].stamps
          /\ a[2] \in row[u].stamps
    BY <1>0 DEF RecordsAreTrue
  <2>2. \A u \in Trips : audit[u] \subseteq audit'[u]
    BY <1>0
  <2>3. \A e \in published : e.trip \in Trips
    BY DEF TypeInv, RecordsTyped, Events
  <2>4. cancellation \subseteq Trips
    BY DEF TypeInv, RecordsTyped
  <2> QED BY <2>1, <2>2, <2>3, <2>4 DEF RecordsAreTrue
<1>5. Enters(audit'[t], to)
  <2>1. <<from, to>> \in audit'[t] /\ <<from, to>>[2] = to
    BY <1>0
  <2> QED BY <2>1 DEF Enters
<1> QED BY <1>1, <1>2, <1>3, <1>4, <1>5 DEF TablesInv

\* A row enters the cancellations table, or an event the stream, after the audit
\* entry it goes with.
LEMMA RecordStep ==
  ASSUME SafetyInv, UNCHANGED <<row, audit, payments>>,
         \A t \in cancellation' \ cancellation : Enters(audit[t], "CANCELED"),
         \A e \in published' \ published : Enters(audit[e.trip], StatusOf(e.type))
  PROVE  Grows /\ TablesInv'
<1> USE DEF SafetyInv, payments
<1>1. Grows
  BY DEF Grows
<1>2. RowInv'
  BY DEF RowInv, TimestampsHaveCauses, Status, EveryRowRequested, DriverRecorded
<1>3. MoneyInv'
  BY DEF MoneyInv, MoneyTrail, ChargedOnlyForARide, InboxTrue
<1>4. RecordsAreTrue'
  BY DEF RecordsAreTrue, Enters
<1> QED BY <1>1, <1>2, <1>3, <1>4 DEF TablesInv

\* An intent is issued for a trip that is on the road, or was.
LEMMA IssueStep ==
  ASSUME SafetyInv, NEW t \in Trips, NEW i \in Intents, IssueIntent(t, i),
         UNCHANGED <<row, records, inbox>>, "IN_PROGRESS" \in row[t].stamps
  PROVE  Grows /\ TablesInv' /\ intent'[i].trip = t
<1> USE DEF SafetyInv, records
<1>0. /\ intent[i].trip = None /\ intent[i].status = "none"
      /\ intent'[i] = [trip |-> t, status |-> "created"]
      /\ \A j \in Intents : j # i => intent'[j] = intent[j]
  BY DEF IssueIntent, NoIntent, TypeInv, PaymentsTyped
<1>1. Grows
  BY <1>0 DEF Grows
<1>2. RowInv'
  BY DEF RowInv, TimestampsHaveCauses, Status, EveryRowRequested, DriverRecorded
<1>3. MoneyTrail'
  <2>1. \A u \in Trips : u # None
    BY UseCasesAssumption
  <2> QED BY <1>0, <2>1 DEF MoneyInv, MoneyTrail
<1>4. ChargedOnlyForARide'
  BY <1>0 DEF MoneyInv, ChargedOnlyForARide
<1>5. InboxTrue'
  BY <1>0 DEF MoneyInv, InboxTrue, TypeInv, PaymentsTyped, CapturedEvents
<1>6. RecordsAreTrue'
  BY DEF RecordsAreTrue
<1> QED BY <1>0, <1>1, <1>2, <1>3, <1>4, <1>5, <1>6 DEF TablesInv, MoneyInv

LEMMA CaptureStep ==
  ASSUME SafetyInv, NEW i \in Intents, Capture(i)
  PROVE  Grows /\ TablesInv'
<1> USE DEF SafetyInv, records, Capture
<1>0. /\ intent[i].status = "created"
      /\ intent'[i].trip = intent[i].trip /\ intent'[i].status = "succeeded"
      /\ \A j \in Intents : j # i => intent'[j] = intent[j]
  BY DEF TypeInv, PaymentsTyped, IntentStates
<1>1. Grows
  BY <1>0 DEF Grows
<1>2. RowInv'
  BY DEF RowInv, TimestampsHaveCauses, Status, EveryRowRequested, DriverRecorded
<1>3. MoneyTrail'
  BY <1>0 DEF MoneyInv, MoneyTrail
<1>4. ChargedOnlyForARide'
  BY <1>0 DEF MoneyInv, ChargedOnlyForARide
<1>5. InboxTrue'
  BY <1>0 DEF MoneyInv, InboxTrue, TypeInv, PaymentsTyped, CapturedEvents
<1>6. RecordsAreTrue'
  BY DEF RecordsAreTrue
<1> QED BY <1>1, <1>2, <1>3, <1>4, <1>5, <1>6 DEF TablesInv, MoneyInv

-----------------------------------------------------------------------------
(* What becomes of the facts about the tasks. *)

\* A fact, once true of a task record, stays true as the history grows.
LEMMA FactsGrow ==
  ASSUME TypeInv, Grows, NEW x \in WellTyped, Facts(x, row, audit, intent)
  PROVE  Facts(x, row', audit', intent')
<1> SUFFICES ASSUME x.at # "idle" PROVE Facts(x, row', audit', intent')
  BY DEF Facts
<1>1. /\ x.trip \in Trips
      /\ x.trip # None
      /\ row[x.trip].stamps \subseteq row'[x.trip].stamps
      /\ audit[x.trip] \subseteq audit'[x.trip]
  BY UseCasesAssumption DEF Facts, Grows
<1>2. StampedFor(x.at, row'[x.trip].stamps)
  BY <1>1 DEF Facts, StampedFor
<1>3. AuditedFor(x.at, audit'[x.trip])
  BY <1>1 DEF Facts, AuditedFor, Enters
<1>4. x.at \in ChargePoints => intent'[x.intent].trip = x.trip
  BY <1>1 DEF Facts, Grows, WellTyped, LocalsAt
<1>5. x.at \in CapturedPoints =>
        intent'[x.intent].trip = x.trip /\ intent'[x.intent].status = "succeeded"
  BY <1>1 DEF Facts, Grows, WellTyped, LocalsAt
<1> QED BY <1>1, <1>2, <1>3, <1>4, <1>5 DEF Facts

\* One task moves; the others keep their facts.
LEMMA MoveFacts ==
  ASSUME TypeInv, TaskFacts, Grows, NEW k \in Tasks, NEW x,
         task' = [task EXCEPT ![k] = x], Facts(x, row', audit', intent')
  PROVE  TaskFacts'
<1> SUFFICES ASSUME NEW j \in Tasks PROVE Facts(task'[j], row', audit', intent')
  BY DEF TaskFacts
<1>1. CASE j = k
  BY <1>1 DEF TypeInv, TasksTyped
<1>2. CASE j # k
  <2>1. task'[j] = task[j] /\ task[j] \in WellTyped
    BY <1>2 DEF TypeInv, TasksTyped
  <2>2. Facts(task[j], row, audit, intent)
    BY DEF TaskFacts
  <2>3. Facts(task[j], row', audit', intent')
    BY <2>1, <2>2, FactsGrow
  <2> QED BY <2>1, <2>3
<1> QED BY <1>1, <1>2

LEMMA ReturnFacts ==
  ASSUME TypeInv, TaskFacts, Grows, NEW k \in Tasks, Return(k)
  PROVE  TaskFacts'
<1>1. Facts(Idle, row', audit', intent')
  BY DEF Facts, Idle
<1> QED BY <1>1, MoveFacts DEF Return

LEMMA StillFacts ==
  ASSUME TypeInv, TaskFacts, Grows, UNCHANGED task
  PROVE  TaskFacts'
<1>1. \A j \in Tasks : task[j] \in WellTyped
  BY DEF TypeInv, TasksTyped
<1> QED BY <1>1, FactsGrow DEF TaskFacts

\* The task goes to point p, whose timestamp and audit entry are there.
LEMMA GotoFacts ==
  ASSUME TypeInv, TaskFacts, Grows, NEW k \in Tasks, NEW t \in Trips,
         task[k].trip = t, task[k].at # "idle", NEW p, Goto(k, p),
         StampedFor(p, row'[t].stamps), AuditedFor(p, audit'[t]),
         p \in ChargePoints => task[k].at \in ChargePoints,
         p \in CapturedPoints => task[k].at \in CapturedPoints
  PROVE  TaskFacts'
<1> DEFINE x == [task[k] EXCEPT !.at = p]
<1>1. task[k] \in WellTyped /\ task[k] \in TaskStates
  BY DEF TypeInv, TasksTyped, WellTyped
<1>2. Facts(task[k], row', audit', intent')
  BY <1>1, FactsGrow DEF TaskFacts
<1>3. /\ x.at = p /\ x.trip = task[k].trip
      /\ x.seen = task[k].seen /\ x.intent = task[k].intent
  BY <1>1 DEF TaskStates
<1>4. Facts(x, row', audit', intent')
  BY <1>2, <1>3 DEF Facts
<1>5. task' = [task EXCEPT ![k] = x]
  BY DEF Goto
<1> QED BY <1>4, <1>5, MoveFacts

-----------------------------------------------------------------------------
(* The steps of each use case. *)

LEMMA CreateSafe ==
  ASSUME SafetyInv, NEW k \in Tasks, NEW t \in Trips, task[k].trip = t, CreateStep(k, t)
  PROVE  Grows /\ TablesInv' /\ TaskFacts'
<1> USE DEF SafetyInv
<1>0. Facts(task[k], row, audit, intent)
  BY DEF TaskFacts
<1>1. ASSUME NEW known \in BOOLEAN, CreateInsert(k, t, known)
      PROVE  Grows /\ TablesInv' /\ TaskFacts'
  <2> DEFINE r == [Stamped(t, "REQUESTED") EXCEPT !.h3 = known]
  <2>1. Stamped(t, "REQUESTED") \in Rows
    BY StampedTyped DEF TypeInv, Statuses
  <2>2. /\ r \in Rows
        /\ r.status = "REQUESTED"
        /\ r.stamps = row[t].stamps \cup {"REQUESTED"}
        /\ r.driverId = row[t].driverId
        /\ r.paymentIntentId = row[t].paymentIntentId
    BY <2>1 DEF Rows, Stamped, TypeInv, RowsTyped
  <2>3. Update(t, r) /\ UNCHANGED <<records, payments>>
    BY <1>1 DEF CreateInsert
  <2>4. "REQUESTED" \in Statuses /\ \A p \in Before : p[1] # "REQUESTED"
    BY DEF Before, Statuses
  <2> HIDE DEF r
  <2>5. Grows /\ TablesInv'
    BY <2>2, <2>3, <2>4, AdvanceStep
  <2>6. "REQUESTED" \in row'[t].stamps
    BY <2>2, <2>3 DEF Update, TypeInv, RowsTyped
  <2>7. TaskFacts'
    BY <1>1, <2>5, <2>6, GotoFacts
       DEF CreateInsert, At, StampedFor, AuditedFor, ChargePoints, CapturedPoints
  <2> QED BY <2>5, <2>7
<1>2. CASE CreateAudit(k, t)
  <2>1. "REQUESTED" \in row[t].stamps
    BY <1>0, <1>2 DEF CreateAudit, At, Facts, StampedFor
  <2>2. Grows /\ TablesInv' /\ Enters(audit'[t], "REQUESTED")
    BY <1>2, <2>1, AuditStep DEF CreateAudit
  <2>3. TaskFacts'
    BY <1>2, <2>1, <2>2, GotoFacts
       DEF CreateAudit, At, StampedFor, AuditedFor, ChargePoints, CapturedPoints
  <2> QED BY <2>2, <2>3
<1>3. CASE CreatePublish(k, t)
  <2>1. Enters(audit[t], "REQUESTED")
    BY <1>0, <1>3 DEF CreatePublish, At, Facts, AuditedFor
  <2>2. \A e \in published' \ published : Enters(audit[e.trip], StatusOf(e.type))
    BY <1>3, <2>1 DEF CreatePublish, Publish, Event, StatusOf
  <2>3. Grows /\ TablesInv'
    BY <1>3, <2>2, RecordStep DEF CreatePublish
  <2> QED BY <1>3, <2>3, ReturnFacts DEF CreatePublish
<1> QED BY <1>1, <1>2, <1>3 DEF CreateStep

LEMMA AcceptSafe ==
  ASSUME SafetyInv, NEW k \in Tasks, NEW t \in Trips, task[k].trip = t, AcceptStep(k, t)
  PROVE  Grows /\ TablesInv' /\ TaskFacts'
<1> USE DEF SafetyInv
<1>0. Facts(task[k], row, audit, intent) /\ LocalsAt(task[k].at, task[k])
  BY DEF TaskFacts, TypeInv, TasksTyped, WellTyped
<1>1. CASE AcceptSetPin(k, t)
  <2>1. Grows /\ TablesInv'
    BY <1>1, QuietStep DEF AcceptSetPin, payments
  <2>2. TaskFacts'
    BY <1>0, <1>1, <2>1, GotoFacts
       DEF AcceptSetPin, At, Facts, StampedFor, AuditedFor, records, ChargePoints,
           CapturedPoints
  <2> QED BY <2>1, <2>2
<1>2. CASE AcceptSetDisplay(k, t)
  <2>1. Grows /\ TablesInv'
    BY <1>2, QuietStep DEF AcceptSetDisplay, payments
  <2>2. TaskFacts'
    BY <1>0, <1>2, <2>1, GotoFacts
       DEF AcceptSetDisplay, At, Facts, StampedFor, AuditedFor, records, ChargePoints,
           CapturedPoints
  <2> QED BY <2>1, <2>2
<1>3. CASE AcceptRiderNoShow(k, t)
  <2>1. Grows /\ TablesInv'
    BY <1>3, QuietStep DEF AcceptRiderNoShow, payments
  <2>2. TaskFacts'
    BY <1>0, <1>3, <2>1, GotoFacts
       DEF AcceptRiderNoShow, At, Facts, StampedFor, AuditedFor, records, ChargePoints,
           CapturedPoints
  <2> QED BY <2>1, <2>2
<1>4. CASE AcceptUpdate(k, t)
  <2> DEFINE r == [Stamped(t, "ASSIGNED") EXCEPT !.driverId = task[k].actor]
  <2>0. task[k].actor \in Drivers
    BY <1>0, <1>4 DEF AcceptUpdate, At, LocalsAt, AcceptPoints
  <2>1. Stamped(t, "ASSIGNED") \in Rows
    BY StampedTyped DEF TypeInv, Statuses
  <2>2. /\ r \in Rows
        /\ r.status = "ASSIGNED"
        /\ r.stamps = row[t].stamps \cup {"ASSIGNED"}
        /\ r.driverId \in Drivers
        /\ r.paymentIntentId = row[t].paymentIntentId
    BY <2>0, <2>1 DEF Rows, Stamped, TypeInv, RowsTyped
  <2>3. Update(t, r) /\ UNCHANGED <<records, payments>>
    BY <1>4 DEF AcceptUpdate
  <2>4. "REQUESTED" \in row[t].stamps
    BY <1>0, <1>4 DEF AcceptUpdate, At, Facts, StampedFor
  <2>5. \A p \in Before : p[1] = "ASSIGNED" => p[2] \in row[t].stamps
    BY <2>4 DEF Before
  <2>6. Grows /\ TablesInv'
    BY <2>2, <2>3, <2>4, <2>5, AdvanceStep DEF Statuses
  <2>7. "ASSIGNED" \in row'[t].stamps
    BY <2>2, <2>3 DEF Update, TypeInv, RowsTyped
  <2>8. TaskFacts'
    BY <1>4, <2>6, <2>7, GotoFacts
       DEF AcceptUpdate, At, StampedFor, AuditedFor, ChargePoints, CapturedPoints
  <2> QED BY <2>6, <2>8
<1>5. CASE AcceptAudit(k, t)
  <2>1. /\ "ASSIGNED" \in row[t].stamps
        /\ task[k].seen # None => task[k].seen \in row[t].stamps
    BY <1>0, <1>5 DEF AcceptAudit, At, Facts, StampedFor
  <2>2. Grows /\ TablesInv' /\ Enters(audit'[t], "ASSIGNED")
    BY <1>5, <2>1, AuditStep DEF AcceptAudit
  <2>3. TaskFacts'
    BY <1>5, <2>1, <2>2, GotoFacts
       DEF AcceptAudit, At, StampedFor, AuditedFor, ChargePoints, CapturedPoints
  <2> QED BY <2>2, <2>3
<1>6. CASE AcceptPublish(k, t)
  <2>1. Enters(audit[t], "ASSIGNED")
    BY <1>0, <1>6 DEF AcceptPublish, At, Facts, AuditedFor
  <2>2. \A e \in published' \ published : Enters(audit[e.trip], StatusOf(e.type))
    BY <1>6, <2>1 DEF AcceptPublish, Publish, Event, StatusOf
  <2>3. Grows /\ TablesInv'
    BY <1>6, <2>2, RecordStep DEF AcceptPublish
  <2> QED BY <1>6, <2>3, ReturnFacts DEF AcceptPublish
<1> QED BY <1>1, <1>2, <1>3, <1>4, <1>5, <1>6 DEF AcceptStep

\* A patch that writes no more than the status and its timestamp.
LEMMA StatusOnlyStep ==
  ASSUME SafetyInv, NEW t \in Trips,
         NEW s \in {"PICKUP_STARTED", "IN_PROGRESS", "PAID", "CANCELED"},
         Update(t, Stamped(t, s)), UNCHANGED <<records, payments>>,
         \A p \in Before : p[1] = s => p[2] \in row[t].stamps,
         "REQUESTED" \in row[t].stamps,
         s = "PAID" =>
           \E i \in Intents : intent[i].trip = t /\ intent[i].status = "succeeded"
  PROVE  Grows /\ TablesInv' /\ s \in row'[t].stamps
<1> DEFINE r == Stamped(t, s)
<1>1. s \in Statuses /\ s \notin {"REQUESTED", "ASSIGNED", "COMPLETED"}
  BY DEF Statuses
<1>2. /\ r.status = s /\ r.stamps = row[t].stamps \cup {s}
      /\ r.driverId = row[t].driverId
      /\ r.paymentIntentId = row[t].paymentIntentId
  BY DEF Stamped, SafetyInv, TypeInv, RowsTyped, Rows
<1>3. r \in Rows
  BY <1>1, StampedTyped DEF SafetyInv, TypeInv
<1>4. Grows /\ TablesInv'
  BY <1>1, <1>2, <1>3, AdvanceStep
<1>5. row'[t] = r
  BY DEF Update, SafetyInv, TypeInv, RowsTyped
<1> QED BY <1>2, <1>4, <1>5

\* Every timestamp of a row goes back to requestedAt.
LEMMA StampedRequested ==
  ASSUME SafetyInv, NEW t \in Trips, NEW s, s \in row[t].stamps
  PROVE  "REQUESTED" \in row[t].stamps
  BY DEF SafetyInv, RowInv, EveryRowRequested

LEMMA VerifySafe ==
  ASSUME SafetyInv, NEW k \in Tasks, NEW t \in Trips, task[k].trip = t, VerifyStep(k, t)
  PROVE  Grows /\ TablesInv' /\ TaskFacts'
<1> USE DEF SafetyInv
<1>0. Facts(task[k], row, audit, intent)
  BY DEF TaskFacts
<1>1. CASE VerifyValidatePin(k, t)
  <2>1. Grows /\ TablesInv'
    BY <1>1, QuietStep DEF VerifyValidatePin, payments
  <2>2. TaskFacts'
    BY <1>0, <1>1, <2>1, GotoFacts
       DEF VerifyValidatePin, At, Facts, StampedFor, AuditedFor, records, ChargePoints,
           CapturedPoints
  <2> QED BY <2>1, <2>2
<1>2. CASE VerifyUpdate(k, t)
  <2>1. "ASSIGNED" \in row[t].stamps
    BY <1>0, <1>2 DEF VerifyUpdate, At, Facts, StampedFor
  <2>2. \A p \in Before : p[1] = "PICKUP_STARTED" => p[2] \in row[t].stamps
    BY <2>1 DEF Before
  <2>3. Grows /\ TablesInv' /\ "PICKUP_STARTED" \in row'[t].stamps
    BY <1>2, <2>1, <2>2, StampedRequested, StatusOnlyStep DEF VerifyUpdate
  <2>4. TaskFacts'
    BY <1>2, <2>3, GotoFacts
       DEF VerifyUpdate, At, StampedFor, AuditedFor, ChargePoints, CapturedPoints
  <2> QED BY <2>3, <2>4
<1>3. ASSUME NEW kept \in SUBSET NoShowKeys, VerifyClearNoShow(k, t, kept)
      PROVE  Grows /\ TablesInv' /\ TaskFacts'
  <2>1. Grows /\ TablesInv'
    BY <1>3, QuietStep DEF VerifyClearNoShow, payments
  <2>2. TaskFacts'
    BY <1>0, <1>3, <2>1, GotoFacts
       DEF VerifyClearNoShow, At, Facts, StampedFor, AuditedFor, records, ChargePoints,
           CapturedPoints
  <2> QED BY <2>1, <2>2
<1>4. CASE VerifyDriverNoShow(k, t)
  <2>1. Grows /\ TablesInv'
    BY <1>4, QuietStep DEF VerifyDriverNoShow, payments
  <2>2. TaskFacts'
    BY <1>0, <1>4, <2>1, GotoFacts
       DEF VerifyDriverNoShow, At, Facts, StampedFor, AuditedFor, records, ChargePoints,
           CapturedPoints
  <2> QED BY <2>1, <2>2
<1>5. ASSUME NEW kept \in SUBSET PinKeys, VerifyClearPin(k, t, kept)
      PROVE  Grows /\ TablesInv' /\ TaskFacts'
  <2>1. Grows /\ TablesInv'
    BY <1>5, QuietStep DEF VerifyClearPin, payments
  <2>2. CASE Goto(k, "verify:audit")
    <3>1. TaskFacts'
      BY <1>0, <1>5, <2>1, <2>2, GotoFacts
         DEF VerifyClearPin, At, Facts, StampedFor, AuditedFor, records, ChargePoints,
             CapturedPoints
    <3> QED BY <2>1, <3>1
  <2>3. CASE Return(k)
    BY <2>1, <2>3, ReturnFacts
  <2> QED BY <1>5, <2>2, <2>3 DEF VerifyClearPin
<1>6. CASE VerifyAudit(k, t)
  <2>1. "PICKUP_STARTED" \in row[t].stamps
    BY <1>0, <1>6 DEF VerifyAudit, At, Facts, StampedFor
  <2>2. "ASSIGNED" \in row[t].stamps
    BY <2>1 DEF RowInv, TimestampsHaveCauses, Before
  <2>3. Grows /\ TablesInv'
    BY <1>6, <2>1, <2>2, AuditStep DEF VerifyAudit
  <2> QED BY <1>6, <2>3, ReturnFacts DEF VerifyAudit
<1> QED BY <1>1, <1>2, <1>3, <1>4, <1>5, <1>6 DEF VerifyStep

LEMMA StartSafe ==
  ASSUME SafetyInv, NEW k \in Tasks, NEW t \in Trips, task[k].trip = t, StartStep(k, t)
  PROVE  Grows /\ TablesInv' /\ TaskFacts'
<1> USE DEF SafetyInv
<1>0. Facts(task[k], row, audit, intent)
  BY DEF TaskFacts
<1>1. CASE StartUpdate(k, t)
  <2>1. "PICKUP_STARTED" \in row[t].stamps
    BY <1>0, <1>1 DEF StartUpdate, At, Facts, StampedFor
  <2>2. \A p \in Before : p[1] = "IN_PROGRESS" => p[2] \in row[t].stamps
    BY <2>1 DEF Before
  <2>3. Grows /\ TablesInv' /\ "IN_PROGRESS" \in row'[t].stamps
    BY <1>1, <2>1, <2>2, StampedRequested, StatusOnlyStep DEF StartUpdate
  <2>4. TaskFacts'
    BY <1>1, <2>3, GotoFacts
       DEF StartUpdate, At, StampedFor, AuditedFor, ChargePoints, CapturedPoints
  <2> QED BY <2>3, <2>4
<1>2. ASSUME NEW kept \in SUBSET NoShowKeys, StartClearNoShow(k, t, kept)
      PROVE  Grows /\ TablesInv' /\ TaskFacts'
  <2>1. Grows /\ TablesInv'
    BY <1>2, QuietStep DEF StartClearNoShow, payments
  <2>2. TaskFacts'
    BY <1>0, <1>2, <2>1, GotoFacts
       DEF StartClearNoShow, At, Facts, StampedFor, AuditedFor, records, ChargePoints,
           CapturedPoints
  <2> QED BY <2>1, <2>2
<1>3. CASE StartAudit(k, t)
  <2>1. "IN_PROGRESS" \in row[t].stamps
    BY <1>0, <1>3 DEF StartAudit, At, Facts, StampedFor
  <2>2. "PICKUP_STARTED" \in row[t].stamps
    BY <2>1 DEF RowInv, TimestampsHaveCauses, Before
  <2>3. Grows /\ TablesInv'
    BY <1>3, <2>1, <2>2, AuditStep DEF StartAudit
  <2> QED BY <1>3, <2>3, ReturnFacts DEF StartAudit
<1> QED BY <1>1, <1>2, <1>3 DEF StartStep

\* The update returned the row: GotoFacts for a task that also learns the driver.
LEMMA ReturnedFacts ==
  ASSUME TypeInv, TaskFacts, Grows, NEW k \in Tasks, NEW t \in Trips,
         task[k].trip = t, task[k].at # "idle", NEW p, NEW d,
         task' = [task EXCEPT ![k].at = p, ![k].actor = d],
         StampedFor(p, row'[t].stamps), AuditedFor(p, audit'[t]),
         p \in ChargePoints => task[k].at \in ChargePoints, p \notin CapturedPoints
  PROVE  TaskFacts'
<1> DEFINE x == [task[k] EXCEPT !.at = p, !.actor = d]
<1>1. task[k] \in WellTyped /\ task[k] \in TaskStates
  BY DEF TypeInv, TasksTyped, WellTyped
<1>2. Facts(task[k], row', audit', intent')
  BY <1>1, FactsGrow DEF TaskFacts
<1>3. /\ x.at = p /\ x.trip = task[k].trip
      /\ x.seen = task[k].seen /\ x.intent = task[k].intent
  BY <1>1 DEF TaskStates
<1>4. Facts(x, row', audit', intent')
  BY <1>2, <1>3 DEF Facts
<1>5. task' = [task EXCEPT ![k] = x]
  OBVIOUS
<1> QED BY <1>4, <1>5, MoveFacts

LEMMA CompleteSafe ==
  ASSUME SafetyInv, NEW k \in Tasks, NEW t \in Trips, task[k].trip = t, CompleteStep(k, t)
  PROVE  Grows /\ TablesInv' /\ TaskFacts'
<1> USE DEF SafetyInv
<1>0. /\ Facts(task[k], row, audit, intent)
      /\ LocalsAt(task[k].at, task[k]) /\ task[k] \in TaskStates
      /\ task[k] \in WellTyped
  BY DEF TaskFacts, TypeInv, TasksTyped, WellTyped
<1>1. ASSUME NEW i \in Intents, CompleteCreateIntent(k, t, i)
      PROVE  Grows /\ TablesInv' /\ TaskFacts'
  <2> DEFINE x == [task[k] EXCEPT !.at = "complete:update", !.intent = i]
  <2>1. "IN_PROGRESS" \in row[t].stamps
    BY <1>0, <1>1 DEF CompleteCreateIntent, At, Facts, StampedFor
  <2>2. Grows /\ TablesInv' /\ intent'[i].trip = t
    BY <1>1, <2>1, IssueStep DEF CompleteCreateIntent
  <2>3. x.at = "complete:update" /\ x.trip = t /\ x.seen = task[k].seen /\ x.intent = i
    BY <1>0 DEF TaskStates
  <2>4. Facts(task[k], row', audit', intent') /\ task[k].at # "idle"
    BY <1>0, <1>1, <2>2, FactsGrow DEF CompleteCreateIntent, At
  <2>5. "IN_PROGRESS" \in row'[t].stamps
    BY <2>1, <2>2 DEF Grows
  <2>6. Facts(x, row', audit', intent')
    BY <2>2, <2>3, <2>4, <2>5 DEF Facts, StampedFor, AuditedFor, CapturedPoints
  <2>7. task' = [task EXCEPT ![k] = x]
    BY <1>1 DEF CompleteCreateIntent
  <2> QED BY <2>2, <2>6, <2>7, MoveFacts
<1>2. ASSUME NEW i \in Intents, CompleteIntentLost(k, t, i)
      PROVE  Grows /\ TablesInv' /\ TaskFacts'
  <2>1. "IN_PROGRESS" \in row[t].stamps
    BY <1>0, <1>2 DEF CompleteIntentLost, At, Facts, StampedFor
  <2>2. Grows /\ TablesInv'
    BY <1>2, <2>1, IssueStep DEF CompleteIntentLost
  <2> QED BY <1>2, <2>2, StillFacts DEF CompleteIntentLost
<1>3. CASE CompleteUpdate(k, t)
  <2> DEFINE r == [Stamped(t, "COMPLETED") EXCEPT !.paymentIntentId = task[k].intent]
  <2>0. task[k].intent \in Intents /\ intent[task[k].intent].trip = t
    BY <1>0, <1>3 DEF CompleteUpdate, At, LocalsAt, Facts, ChargePoints
  <2>1. Stamped(t, "COMPLETED") \in Rows
    BY StampedTyped DEF TypeInv, Statuses
  <2>2. /\ r \in Rows
        /\ r.status = "COMPLETED"
        /\ r.stamps = row[t].stamps \cup {"COMPLETED"}
        /\ r.driverId = row[t].driverId
        /\ r.paymentIntentId = task[k].intent
    BY <2>0, <2>1 DEF Rows, Stamped, TypeInv, RowsTyped
  <2>3. Update(t, r) /\ UNCHANGED <<records, payments>>
    BY <1>3 DEF CompleteUpdate
  <2>4. "IN_PROGRESS" \in row[t].stamps
    BY <1>0, <1>3 DEF CompleteUpdate, At, Facts, StampedFor
  <2>5. /\ \A p \in Before : p[1] = "COMPLETED" => p[2] \in row[t].stamps
        /\ "REQUESTED" \in row[t].stamps
    BY <2>4, StampedRequested DEF Before
  <2>6. Grows /\ TablesInv'
    <3>1. r.paymentIntentId \in Intents /\ intent[r.paymentIntentId].trip = t
      BY <2>0, <2>2
    <3>2. "COMPLETED" \in Statuses
      BY DEF Statuses
    <3> HIDE DEF r
    <3> QED BY <2>2, <2>3, <2>5, <3>1, <3>2, AdvanceStep
  <2>7. "COMPLETED" \in row'[t].stamps
    BY <2>2, <2>3 DEF Update, TypeInv, RowsTyped
  <2>8. TaskFacts'
    <3>1. /\ StampedFor("complete:audit", row'[t].stamps)
          /\ AuditedFor("complete:audit", audit'[t])
          /\ "complete:audit" \notin CapturedPoints
      BY <2>7 DEF StampedFor, AuditedFor, CapturedPoints
    <3>2. task[k].at # "idle" /\ task[k].at \in ChargePoints
      BY <1>3 DEF CompleteUpdate, At, ChargePoints
    <3>3. task' = [task EXCEPT ![k].at = "complete:audit", ![k].actor = row[t].driverId]
      BY <1>3 DEF CompleteUpdate
    <3> QED BY <2>6, <3>1, <3>2, <3>3, ReturnedFacts
  <2> QED BY <2>6, <2>8
<1>4. CASE CompleteAudit(k, t)
  <2>1. "COMPLETED" \in row[t].stamps
    BY <1>0, <1>4 DEF CompleteAudit, At, Facts, StampedFor
  <2>2. "IN_PROGRESS" \in row[t].stamps
    BY <2>1 DEF RowInv, TimestampsHaveCauses, Before
  <2>3. Grows /\ TablesInv' /\ Enters(audit'[t], "COMPLETED")
    BY <1>4, <2>1, <2>2, AuditStep DEF CompleteAudit
  <2>4. TaskFacts'
    BY <1>4, <2>1, <2>3, GotoFacts
       DEF CompleteAudit, At, StampedFor, AuditedFor, ChargePoints, CapturedPoints
  <2> QED BY <2>3, <2>4
<1>5. CASE CompletePublish(k, t)
  <2>1. Enters(audit[t], "COMPLETED")
    BY <1>0, <1>5 DEF CompletePublish, At, Facts, AuditedFor
  <2>2. \A e \in published' \ published : Enters(audit[e.trip], StatusOf(e.type))
    BY <1>5, <2>1 DEF CompletePublish, Publish, Event, StatusOf
  <2>3. Grows /\ TablesInv'
    BY <1>5, <2>2, RecordStep DEF CompletePublish
  <2> QED BY <1>5, <2>3, ReturnFacts DEF CompletePublish
<1> QED BY <1>1, <1>2, <1>3, <1>4, <1>5 DEF CompleteStep

LEMMA CancelSafe ==
  ASSUME SafetyInv, NEW k \in Tasks, NEW t \in Trips, task[k].trip = t, CancelStep(k, t)
  PROVE  Grows /\ TablesInv' /\ TaskFacts'
<1> USE DEF SafetyInv
<1>0. Facts(task[k], row, audit, intent)
  BY DEF TaskFacts
<1>1. CASE CancelUpdate(k, t)
  <2>1. "REQUESTED" \in row[t].stamps
    BY <1>0, <1>1 DEF CancelUpdate, At, Facts, StampedFor
  <2>2. \A p \in Before : p[1] = "CANCELED" => p[2] \in row[t].stamps
    BY <2>1 DEF Before
  <2>3. Grows /\ TablesInv' /\ "CANCELED" \in row'[t].stamps
    BY <1>1, <2>1, <2>2, StatusOnlyStep DEF CancelUpdate
  <2>4. TaskFacts'
    <3>1. /\ StampedFor("cancel:clearPin", row'[t].stamps)
          /\ AuditedFor("cancel:clearPin", audit'[t])
          /\ "cancel:clearPin" \notin ChargePoints \cup CapturedPoints
      BY <2>3 DEF StampedFor, AuditedFor, ChargePoints, CapturedPoints
    <3>2. task[k].at # "idle"
      BY <1>1 DEF CancelUpdate, At
    <3>3. task' = [task EXCEPT ![k].at = "cancel:clearPin", ![k].actor = row[t].driverId]
      BY <1>1 DEF CancelUpdate
    <3> QED BY <2>3, <3>1, <3>2, <3>3, ReturnedFacts
  <2> QED BY <2>3, <2>4
<1>2. ASSUME NEW kept \in SUBSET PinKeys, CancelClearPin(k, t, kept)
      PROVE  Grows /\ TablesInv' /\ TaskFacts'
  <2>1. Grows /\ TablesInv'
    BY <1>2, QuietStep DEF CancelClearPin, payments
  <2>2. TaskFacts'
    BY <1>0, <1>2, <2>1, GotoFacts
       DEF CancelClearPin, At, Facts, StampedFor, AuditedFor, records, ChargePoints,
           CapturedPoints
  <2> QED BY <2>1, <2>2
<1>3. ASSUME NEW kept \in SUBSET NoShowKeys, CancelClearNoShow(k, t, kept)
      PROVE  Grows /\ TablesInv' /\ TaskFacts'
  <2>1. Grows /\ TablesInv'
    BY <1>3, QuietStep DEF CancelClearNoShow, payments
  <2>2. TaskFacts'
    BY <1>0, <1>3, <2>1, GotoFacts
       DEF CancelClearNoShow, At, Facts, StampedFor, AuditedFor, records, ChargePoints,
           CapturedPoints
  <2> QED BY <2>1, <2>2
<1>4. CASE CancelAudit(k, t)
  <2>1. /\ "CANCELED" \in row[t].stamps
        /\ task[k].seen # None => task[k].seen \in row[t].stamps
    BY <1>0, <1>4 DEF CancelAudit, At, Facts, StampedFor
  <2>2. Grows /\ TablesInv' /\ Enters(audit'[t], "CANCELED")
    BY <1>4, <2>1, AuditStep DEF CancelAudit
  <2>3. TaskFacts'
    BY <1>4, <2>1, <2>2, GotoFacts
       DEF CancelAudit, At, StampedFor, AuditedFor, ChargePoints, CapturedPoints
  <2> QED BY <2>2, <2>3
<1>5. CASE CancelRecord(k, t)
  <2>1. "CANCELED" \in row[t].stamps /\ Enters(audit[t], "CANCELED")
    BY <1>0, <1>5 DEF CancelRecord, At, Facts, StampedFor, AuditedFor
  <2>2. Grows /\ TablesInv'
    BY <1>5, <2>1, RecordStep DEF CancelRecord
  <2>3. TaskFacts'
    BY <1>5, <2>1, <2>2, GotoFacts
       DEF CancelRecord, At, StampedFor, AuditedFor, ChargePoints, CapturedPoints
  <2> QED BY <2>2, <2>3
<1>6. CASE CancelPublish(k, t)
  <2>1. Enters(audit[t], "CANCELED")
    BY <1>0, <1>6 DEF CancelPublish, At, Facts, AuditedFor
  <2>2. \A e \in published' \ published : Enters(audit[e.trip], StatusOf(e.type))
    BY <1>6, <2>1 DEF CancelPublish, Publish, Event, StatusOf
  <2>3. Grows /\ TablesInv'
    BY <1>6, <2>2, RecordStep DEF CancelPublish
  <2> QED BY <1>6, <2>3, ReturnFacts DEF CancelPublish
<1> QED BY <1>1, <1>2, <1>3, <1>4, <1>5, <1>6 DEF CancelStep

LEMMA CapturedSafe ==
  ASSUME SafetyInv, NEW k \in Tasks, NEW t \in Trips, task[k].trip = t, CapturedStep(k, t)
  PROVE  Grows /\ TablesInv' /\ TaskFacts'
<1> USE DEF SafetyInv
<1>0. Facts(task[k], row, audit, intent) /\ LocalsAt(task[k].at, task[k])
  BY DEF TaskFacts, TypeInv, TasksTyped, WellTyped
<1>1. CASE CapturedUpdate(k, t)
  <2>1. /\ "COMPLETED" \in row[t].stamps
        /\ task[k].intent \in Intents
        /\ intent[task[k].intent].trip = t
        /\ intent[task[k].intent].status = "succeeded"
    BY <1>0, <1>1 DEF CapturedUpdate, At, Facts, StampedFor, LocalsAt, CapturedPoints
  <2>2. \A p \in Before : p[1] = "PAID" => p[2] \in row[t].stamps
    BY <2>1 DEF Before
  <2>3. Grows /\ TablesInv' /\ "PAID" \in row'[t].stamps
    BY <1>1, <2>1, <2>2, StampedRequested, StatusOnlyStep DEF CapturedUpdate
  <2>4. TaskFacts'
    BY <1>1, <2>3, GotoFacts
       DEF CapturedUpdate, At, StampedFor, AuditedFor, ChargePoints, CapturedPoints
  <2> QED BY <2>3, <2>4
<1>2. CASE CapturedAudit(k, t)
  <2>1. "PAID" \in row[t].stamps
    BY <1>0, <1>2 DEF CapturedAudit, At, Facts, StampedFor
  <2>2. "COMPLETED" \in row[t].stamps
    BY <2>1 DEF RowInv, TimestampsHaveCauses, Before
  <2>3. Grows /\ TablesInv'
    BY <1>2, <2>1, <2>2, AuditStep DEF CapturedAudit
  <2>4. TaskFacts'
    BY <1>2, <2>1, <2>3, GotoFacts
       DEF CapturedAudit, At, StampedFor, AuditedFor, ChargePoints, CapturedPoints
  <2> QED BY <2>3, <2>4
<1>3. CASE CapturedAck(k, t)
  <2>1. Grows /\ TablesInv'
    BY <1>3, QuietStep DEF CapturedAck
  <2> QED BY <1>3, <2>1, ReturnFacts DEF CapturedAck
<1> QED BY <1>1, <1>2, <1>3 DEF CapturedStep

-----------------------------------------------------------------------------
(* Beginnings, events, and what happens around the tasks. *)

\* A task begins with a row whose status is the stamped one it read.
LEMMA BeginFacts ==
  ASSUME SafetyInv, UNCHANGED <<row, redis, records, payments>>,
         NEW k \in Tasks, NEW x, Begin(k, x), Facts(x, row, audit, intent)
  PROVE  Grows /\ TablesInv' /\ TaskFacts'
<1>1. Grows /\ TablesInv'
  BY QuietStep DEF payments
<1>2. Facts(x, row', audit', intent')
  BY DEF records, payments
<1> QED BY <1>1, <1>2, MoveFacts DEF Begin, SafetyInv

\* A new task at p, whatever the request puts into the other locals.
LEMMA NewFacts ==
  ASSUME SafetyInv, NEW t \in Trips, NEW p, NEW x,
         x.at = p, x.trip = t, x.seen = row[t].status,
         StampedFor(p, row[t].stamps), AuditedFor(p, audit[t]),
         p \notin ChargePoints \cup CapturedPoints
  PROVE  Facts(x, row, audit, intent)
<1>1. row[t].status # None => row[t].status \in row[t].stamps
  BY DEF SafetyInv, RowInv, TimestampsHaveCauses, Status
<1> QED BY <1>1 DEF Facts

LEMMA BeginSomeSafe ==
  ASSUME SafetyInv, NEW k \in Tasks, BeginSome(k)
  PROVE  Grows /\ TablesInv' /\ TaskFacts'
<1> PICK t \in Trips :
      \/ BeginCreate(k, t)
      \/ \E d \in Drivers, p \in Pins : BeginAccept(k, t, d, p)
      \/ \E a \in Drivers \cup Admins, p \in Pins : BeginVerify(k, t, a, p)
      \/ \E a \in Drivers \cup Admins : BeginStart(k, t, a) \/ BeginComplete(k, t, a)
      \/ \E side \in {"rider", "driver", "system"},
            a \in Drivers \cup Admins \cup {Rider} : BeginCancel(k, t, side, a)
  BY DEF BeginSome
<1>0. /\ row[t].status # None =>
           row[t].status \in row[t].stamps /\ "REQUESTED" \in row[t].stamps
      /\ "REQUESTED" # None /\ "OFFERED" # None /\ "ASSIGNED" # None
      /\ "PICKUP_STARTED" # None /\ "IN_PROGRESS" # None
  BY UseCasesAssumption
     DEF SafetyInv, RowInv, TimestampsHaveCauses, EveryRowRequested, Status, Statuses
<1>1. CASE BeginCreate(k, t)
  <2> DEFINE x == NewTask("create:insert", t)
  <2>1. x.at = "create:insert" /\ x.trip = t /\ x.seen = row[t].status
    BY DEF NewTask, Idle, Status
  <2>2. /\ StampedFor("create:insert", row[t].stamps)
        /\ AuditedFor("create:insert", audit[t])
        /\ "create:insert" \notin ChargePoints \cup CapturedPoints
    BY DEF StampedFor, AuditedFor, ChargePoints, CapturedPoints
  <2>3. Facts(x, row, audit, intent)
    BY <2>1, <2>2, NewFacts
  <2>4. Begin(k, x) /\ UNCHANGED <<row, redis, records, payments>>
    BY <1>1 DEF BeginCreate
  <2> QED BY <2>3, <2>4, BeginFacts
<1>2. ASSUME NEW d \in Drivers, NEW p \in Pins, BeginAccept(k, t, d, p)
      PROVE  Grows /\ TablesInv' /\ TaskFacts'
  <2> DEFINE x == [NewTask("accept:setPin", t) EXCEPT !.actor = d, !.pin = p]
  <2>1. x.at = "accept:setPin" /\ x.trip = t /\ x.seen = row[t].status
    BY DEF NewTask, Idle, Status
  <2>2. /\ StampedFor("accept:setPin", row[t].stamps)
        /\ AuditedFor("accept:setPin", audit[t])
        /\ "accept:setPin" \notin ChargePoints \cup CapturedPoints
    BY <1>0, <1>2 DEF BeginAccept, Status, StampedFor, AuditedFor, ChargePoints,
                      CapturedPoints
  <2>3. Facts(x, row, audit, intent)
    BY <2>1, <2>2, NewFacts
  <2>4. Begin(k, x) /\ UNCHANGED <<row, redis, records, payments>>
    BY <1>2 DEF BeginAccept
  <2> QED BY <2>3, <2>4, BeginFacts
<1>3. ASSUME NEW a \in Drivers \cup Admins, NEW p \in Pins, BeginVerify(k, t, a, p)
      PROVE  Grows /\ TablesInv' /\ TaskFacts'
  <2> DEFINE x == [NewTask("verify:validatePin", t) EXCEPT !.actor = a, !.pin = p]
  <2>1. x.at = "verify:validatePin" /\ x.trip = t /\ x.seen = row[t].status
    BY DEF NewTask, Idle, Status
  <2>2. /\ StampedFor("verify:validatePin", row[t].stamps)
        /\ AuditedFor("verify:validatePin", audit[t])
        /\ "verify:validatePin" \notin ChargePoints \cup CapturedPoints
    BY <1>0, <1>3 DEF BeginVerify, Status, StampedFor, AuditedFor, ChargePoints,
                      CapturedPoints
  <2>3. Facts(x, row, audit, intent)
    BY <2>1, <2>2, NewFacts
  <2>4. Begin(k, x) /\ UNCHANGED <<row, redis, records, payments>>
    BY <1>3 DEF BeginVerify
  <2> QED BY <2>3, <2>4, BeginFacts
<1>4. ASSUME NEW a \in Drivers \cup Admins, BeginStart(k, t, a)
      PROVE  Grows /\ TablesInv' /\ TaskFacts'
  <2> DEFINE x == [NewTask("start:update", t) EXCEPT !.actor = a]
  <2>1. x.at = "start:update" /\ x.trip = t /\ x.seen = row[t].status
    BY DEF NewTask, Idle, Status
  <2>2. /\ StampedFor("start:update", row[t].stamps)
        /\ AuditedFor("start:update", audit[t])
        /\ "start:update" \notin ChargePoints \cup CapturedPoints
    BY <1>0, <1>4 DEF BeginStart, Status, StampedFor, AuditedFor, ChargePoints,
                      CapturedPoints
  <2>3. Facts(x, row, audit, intent)
    BY <2>1, <2>2, NewFacts
  <2>4. Begin(k, x) /\ UNCHANGED <<row, redis, records, payments>>
    BY <1>4 DEF BeginStart
  <2> QED BY <2>3, <2>4, BeginFacts
<1>5. ASSUME NEW a \in Drivers \cup Admins, BeginComplete(k, t, a)
      PROVE  Grows /\ TablesInv' /\ TaskFacts'
  <2> DEFINE x == [NewTask("complete:createIntent", t) EXCEPT !.actor = a]
  <2>1. x.at = "complete:createIntent" /\ x.trip = t /\ x.seen = row[t].status
    BY DEF NewTask, Idle, Status
  <2>2. /\ StampedFor("complete:createIntent", row[t].stamps)
        /\ AuditedFor("complete:createIntent", audit[t])
        /\ "complete:createIntent" \notin ChargePoints \cup CapturedPoints
    BY <1>0, <1>5 DEF BeginComplete, Status, StampedFor, AuditedFor, ChargePoints,
                      CapturedPoints
  <2>3. Facts(x, row, audit, intent)
    BY <2>1, <2>2, NewFacts
  <2>4. Begin(k, x) /\ UNCHANGED <<row, redis, records, payments>>
    BY <1>5 DEF BeginComplete
  <2> QED BY <2>3, <2>4, BeginFacts
<1>6. ASSUME NEW side, NEW a, BeginCancel(k, t, side, a)
      PROVE  Grows /\ TablesInv' /\ TaskFacts'
  <2> DEFINE x == [NewTask("cancel:update", t) EXCEPT !.actor = a]
  <2>1. x.at = "cancel:update" /\ x.trip = t /\ x.seen = row[t].status
    BY DEF NewTask, Idle, Status
  <2>2. /\ StampedFor("cancel:update", row[t].stamps)
        /\ AuditedFor("cancel:update", audit[t])
        /\ "cancel:update" \notin ChargePoints \cup CapturedPoints
    BY <1>0, <1>6 DEF BeginCancel, Status, StampedFor, AuditedFor, ChargePoints,
                      CapturedPoints
  <2>3. Facts(x, row, audit, intent)
    BY <2>1, <2>2, NewFacts
  <2>4. Begin(k, x) /\ UNCHANGED <<row, redis, records, payments>>
    BY <1>6 DEF BeginCancel
  <2> QED BY <2>3, <2>4, BeginFacts
<1> QED BY <1>1, <1>2, <1>3, <1>4, <1>5, <1>6

LEMMA DeliverySafe ==
  ASSUME SafetyInv, NEW k \in Tasks, NEW e \in inbox,
         BeginCaptured(k, e) \/ DropCaptured(k, e)
  PROVE  Grows /\ TablesInv' /\ TaskFacts'
<1>1. CASE BeginCaptured(k, e)
  <2> DEFINE x == [NewTask("captured:update", e.trip) EXCEPT !.intent = e.intent]
  <2>1. /\ x.at = "captured:update" /\ x.trip = e.trip
        /\ x.seen = row[e.trip].status /\ x.intent = e.intent
    BY DEF NewTask, Idle, Status
  <2>2. /\ e.trip \in Trips
        /\ row[e.trip].status = "COMPLETED"
        /\ intent[e.intent].trip = e.trip
        /\ intent[e.intent].status = "succeeded"
    BY <1>1 DEF BeginCaptured, Payable, Status, SafetyInv, TypeInv, PaymentsTyped,
                CapturedEvents, MoneyInv, InboxTrue
  <2>3. "COMPLETED" \in row[e.trip].stamps
    <3>1. "COMPLETED" # None
      BY UseCasesAssumption DEF Statuses
    <3> QED BY <2>2, <3>1 DEF SafetyInv, RowInv, TimestampsHaveCauses, Status
  <2>4. Facts(x, row, audit, intent)
    BY <2>1, <2>2, <2>3 DEF Facts, StampedFor, AuditedFor, ChargePoints
  <2>5. Begin(k, x) /\ UNCHANGED <<row, redis, records, payments>>
    BY <1>1 DEF BeginCaptured
  <2> QED BY <2>4, <2>5, BeginFacts
<1>2. CASE DropCaptured(k, e)
  <2>1. Grows /\ TablesInv'
    BY <1>2, QuietStep DEF DropCaptured
  <2> QED BY <1>2, <2>1, StillFacts DEF DropCaptured, SafetyInv
<1> QED BY <1>1, <1>2

LEMMA NextSafe ==
  ASSUME SafetyInv, [Next]_vars
  PROVE  Grows /\ SafetyInv'
<1>1. CASE UNCHANGED vars
  <2>1. Grows /\ TablesInv'
    BY <1>1, QuietStep DEF vars, payments
  <2>2. TaskFacts'
    BY <1>1, <2>1, StillFacts DEF vars, SafetyInv
  <2> QED BY <2>1, <2>2, NextTyped DEF TablesInv, SafetyInv
<1>2. CASE Next
  <2>1. ASSUME NEW k \in Tasks, Step(k) PROVE Grows /\ TablesInv' /\ TaskFacts'
    BY <2>1, CreateSafe, AcceptSafe, VerifySafe, StartSafe, CompleteSafe, CancelSafe,
       CapturedSafe DEF Step
  <2>2. ASSUME NEW k \in Tasks, Abort(k) PROVE Grows /\ TablesInv' /\ TaskFacts'
    <3>1. Grows /\ TablesInv'
      BY <2>2, QuietStep DEF Abort, payments
    <3> QED BY <2>2, <3>1, ReturnFacts DEF Abort, SafetyInv
  <2>3. ASSUME NEW i \in Intents, Capture(i) PROVE Grows /\ TablesInv' /\ TaskFacts'
    BY <2>3, CaptureStep, StillFacts DEF Capture, SafetyInv
  <2>4. ASSUME Expire PROVE Grows /\ TablesInv' /\ TaskFacts'
    <3>1. UNCHANGED <<row, records, payments, task>>
      BY <2>4 DEF Expire, ExpirePin, ExpireDisplay, ExpireNoShow
    <3>2. Grows /\ TablesInv'
      BY <3>1, QuietStep DEF payments
    <3>3. UNCHANGED task
      BY <3>1
    <3>4. TaskFacts'
      BY <3>2, <3>3, StillFacts DEF SafetyInv
    <3> QED BY <3>2, <3>4
  <2>5. ASSUME NEW k \in Tasks, BeginSome(k) PROVE Grows /\ TablesInv' /\ TaskFacts'
    BY <2>5, BeginSomeSafe
  <2>6. ASSUME NEW k \in Tasks, NEW e \in inbox,
               BeginCaptured(k, e) \/ DropCaptured(k, e)
        PROVE  Grows /\ TablesInv' /\ TaskFacts'
    BY <2>6, DeliverySafe
  <2>7. Grows /\ TablesInv' /\ TaskFacts'
    BY <1>2, <2>1, <2>2, <2>3, <2>4, <2>5, <2>6 DEF Next
  <2> QED BY <2>7, NextTyped DEF TablesInv, SafetyInv
<1> QED BY <1>1, <1>2

LEMMA InitSafe == Init => SafetyInv
<1> SUFFICES ASSUME Init PROVE SafetyInv
  OBVIOUS
<1>1. \A t \in Trips :
        /\ row[t].stamps \in {{}, {"REQUESTED"}}
        /\ row[t].status # None => row[t].status \in row[t].stamps
  BY DEF Init, NoRow, RequestedRow
<1>2. RowInv
  BY <1>1 DEF RowInv, TimestampsHaveCauses, Before, EveryRowRequested, DriverRecorded,
              Status
<1>3. MoneyInv
  <2>1. \A i \in Intents : intent[i].trip = None
    BY DEF Init, NoIntent
  <2> QED BY <1>1, <2>1 DEF Init, MoneyInv, MoneyTrail, ChargedOnlyForARide, InboxTrue
<1>4. RecordsAreTrue
  BY DEF Init, RecordsAreTrue
<1>5. TaskFacts
  BY DEF Init, TaskFacts, Facts, Idle
<1> QED BY <1>2, <1>3, <1>4, <1>5, InitTyped DEF SafetyInv

LEMMA Safety == Spec => []SafetyInv
<1>1. SafetyInv /\ [Next]_vars => SafetyInv'
  BY NextSafe
<1> QED BY InitSafe, <1>1, PTL DEF Spec

-----------------------------------------------------------------------------
\* Under any interleaving of requests, events, crashes and lost answers, every
\* timestamp of a row has the one it needs before it, and the current status is
\* one the row was really taken to.
THEOREM TimestampsCorrect == Spec => []TimestampsHaveCauses
<1>1. SafetyInv => TimestampsHaveCauses
  BY DEF SafetyInv, RowInv
<1> QED BY Safety, <1>1, PTL

\* No lost update of racing acceptances leaves an assigned trip without a driver.
THEOREM DriverCorrect == Spec => []DriverRecorded
<1>1. SafetyInv => DriverRecorded
  BY DEF SafetyInv, RowInv
<1> QED BY Safety, <1>1, PTL

\* However often a completion races or is repeated, intents are only created for
\* trips that were on the road.
THEOREM ChargesCorrect == Spec => []ChargedOnlyForARide
<1>1. SafetyInv => ChargedOnlyForARide
  BY DEF SafetyInv, MoneyInv
<1> QED BY Safety, <1>1, PTL

\* A row that was completed names an intent issued for that trip, and a row that was
\* paid has a captured one.
THEOREM MoneyCorrect == Spec => []MoneyTrail
<1>1. SafetyInv => MoneyTrail
  BY DEF SafetyInv, MoneyInv
<1> QED BY Safety, <1>1, PTL

\* Published events and cancellation records have their audit entries, and audit
\* entries their timestamps on the row, whatever fails between the writes.
THEOREM RecordsCorrect == Spec => []RecordsAreTrue
<1>1. SafetyInv => RecordsAreTrue
  BY DEF SafetyInv
<1> QED BY Safety, <1>1, PTL

\* History is append-only: no step takes back a timestamp, an audit entry, the trip
\* an intent was issued for, or a capture.
THEOREM HistoryGrows == Spec => [][Grows]_vars
<1>1. SafetyInv /\ [Next]_vars => [Grows]_vars
  BY NextSafe
<1> QED BY Safety, <1>1, PTL DEF Spec
=============================================================================
