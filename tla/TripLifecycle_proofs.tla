-------------------------- MODULE TripLifecycle_proofs --------------------------
(***************************************************************************)
(* TripLifecycle: what a use case read allows what it writes, whoever      *)
(* wrote in between (WritesFollow); and when no two executions are about   *)
(* the same trip at the same time (NoOverlap), the use cases implement the *)
(* domain state machine (LifecycleCorrect) and keep what a race breaks,    *)
(* the event of a captured payment among it (CapturedIsKeptCorrect).       *)
(* Several trips may be worked on at once, and everything may fail; that   *)
(* no execution overlaps is met by one at a time (OneAtATime).             *)
(***************************************************************************)
EXTENDS TripLifecycle, TripSafety_proofs

\* The statuses a task at point p may have read, if p is at or before its update.
SeenAt(p, s) ==
  /\ p = "create:insert" => s = None
  /\ p \in {"accept:setPin", "accept:setDisplay", "accept:riderNoShow", "accept:update"}
       => s \in {"REQUESTED", "OFFERED"}
  /\ p \in {"verify:validatePin", "verify:update"} => s = "ASSIGNED"
  /\ p = "start:update" => s = "PICKUP_STARTED"
  /\ p \in {"complete:createIntent", "complete:update"} => s = "IN_PROGRESS"
  /\ p = "cancel:update" => s \in Statuses \ {"COMPLETED", "PAID", "CANCELED"}
  /\ p = "captured:update" => s = "COMPLETED"

SeenInv == \A k \in Tasks : SeenAt(task[k].at, task[k].seen)

\* Only task k moves, and if a row changes it does so from what k read.
Follows(k) ==
  /\ \A j \in Tasks \ {k} : task'[j] = task[j]
  /\ \A t \in Trips : row'[t] # row[t] =>
       \/ <<task[k].seen, row'[t].status>> \in SM(t)!validTransitions
       \/ task[k].seen = None /\ row'[t].status = "REQUESTED"

-----------------------------------------------------------------------------
(* The kinds of steps. *)

\* What a task may become: the record x.
LEMMA BecomeSeen ==
  ASSUME TypeInv, SeenInv, NEW k \in Tasks, NEW x, task' = [task EXCEPT ![k] = x],
         SeenAt(x.at, x.seen)
  PROVE  SeenInv' /\ \A j \in Tasks \ {k} : task'[j] = task[j]
<1>1. \A j \in Tasks : task'[j] = IF j = k THEN x ELSE task[j]
  BY DEF TypeInv, TasksTyped
<1> QED BY <1>1 DEF SeenInv

LEMMA GotoSeen ==
  ASSUME TypeInv, SeenInv, NEW k \in Tasks, NEW p, SeenAt(p, task[k].seen), Goto(k, p)
  PROVE  SeenInv' /\ \A j \in Tasks \ {k} : task'[j] = task[j]
<1> DEFINE x == [task[k] EXCEPT !.at = p]
<1>1. task[k] \in TaskStates
  BY DEF TypeInv, TasksTyped, WellTyped
<1>2. x.at = p /\ x.seen = task[k].seen
  BY <1>1 DEF TaskStates
<1>3. task' = [task EXCEPT ![k] = x]
  BY DEF Goto
<1> HIDE DEF x
<1> QED BY <1>2, <1>3, BecomeSeen

LEMMA ReturnSeen ==
  ASSUME TypeInv, SeenInv, NEW k \in Tasks, Return(k)
  PROVE  SeenInv' /\ \A j \in Tasks \ {k} : task'[j] = task[j]
<1>1. SeenAt(Idle.at, Idle.seen)
  BY DEF SeenAt, Idle
<1> QED BY <1>1, BecomeSeen DEF Return

LEMMA UpdateFollows ==
  ASSUME TypeInv, NEW k \in Tasks, NEW t \in Trips, NEW r, Update(t, r),
         \A j \in Tasks \ {k} : task'[j] = task[j],
         \/ <<task[k].seen, r.status>> \in SM(t)!validTransitions
         \/ task[k].seen = None /\ r.status = "REQUESTED"
  PROVE  Follows(k)
<1>1. \A u \in Trips : row'[u] = IF u = t THEN r ELSE row[u]
  BY DEF Update, TypeInv, RowsTyped
<1> QED BY <1>1 DEF Follows, SM!validTransitions

LEMMA SameRowsFollow ==
  ASSUME UNCHANGED row, NEW k \in Tasks, \A j \in Tasks \ {k} : task'[j] = task[j]
  PROVE  Follows(k)
  BY DEF Follows

LEMMA StampedStatus ==
  ASSUME TypeInv, NEW t \in Trips, NEW s
  PROVE  /\ Stamped(t, s).status = s
         /\ \A d : [Stamped(t, s) EXCEPT !.driverId = d].status = s
         /\ \A i : [Stamped(t, s) EXCEPT !.paymentIntentId = i].status = s
         /\ \A h : [Stamped(t, s) EXCEPT !.h3 = h].status = s
<1>1. row[t] \in Rows
  BY DEF TypeInv, RowsTyped
<1> QED BY <1>1 DEF Stamped, Rows

-----------------------------------------------------------------------------
(* The steps of each use case. *)

LEMMA CreateFollows ==
  ASSUME TypeInv, SeenInv, NEW k \in Tasks, NEW t \in Trips, CreateStep(k, t)
  PROVE  SeenInv' /\ Follows(k)
<1>1. ASSUME NEW known \in BOOLEAN, CreateInsert(k, t, known)
      PROVE  SeenInv' /\ Follows(k)
  <2>1. task[k].seen = None
    BY <1>1 DEF CreateInsert, At, SeenInv, SeenAt
  <2>2. SeenInv' /\ \A j \in Tasks \ {k} : task'[j] = task[j]
    BY <1>1, GotoSeen DEF CreateInsert, SeenAt
  <2> DEFINE r == [Stamped(t, "REQUESTED") EXCEPT !.h3 = known]
  <2>3. r.status = "REQUESTED" /\ Update(t, r)
    BY <1>1, StampedStatus DEF CreateInsert
  <2> HIDE DEF r
  <2> QED BY <2>1, <2>2, <2>3, UpdateFollows
<1>2. CASE CreateAudit(k, t)
  BY <1>2, GotoSeen, SameRowsFollow DEF CreateAudit, SeenAt
<1>3. CASE CreatePublish(k, t)
  BY <1>3, ReturnSeen, SameRowsFollow DEF CreatePublish
<1> QED BY <1>1, <1>2, <1>3 DEF CreateStep

LEMMA AcceptFollows ==
  ASSUME TypeInv, SeenInv, NEW k \in Tasks, NEW t \in Trips, AcceptStep(k, t)
  PROVE  SeenInv' /\ Follows(k)
<1>1. CASE AcceptSetPin(k, t) \/ AcceptSetDisplay(k, t) \/ AcceptRiderNoShow(k, t)
  <2>1. \A p \in {"accept:setDisplay", "accept:riderNoShow", "accept:update"} :
          SeenAt(p, task[k].seen)
    BY <1>1 DEF AcceptSetPin, AcceptSetDisplay, AcceptRiderNoShow, At, SeenInv, SeenAt
  <2> QED
    BY <1>1, <2>1, GotoSeen, SameRowsFollow
       DEF AcceptSetPin, AcceptSetDisplay, AcceptRiderNoShow
<1>2. CASE AcceptUpdate(k, t)
  <2>1. task[k].seen \in {"REQUESTED", "OFFERED"}
    BY <1>2 DEF AcceptUpdate, At, SeenInv, SeenAt
  <2>2. SeenInv' /\ \A j \in Tasks \ {k} : task'[j] = task[j]
    BY <1>2, GotoSeen DEF AcceptUpdate, SeenAt
  <2>3. <<task[k].seen, "ASSIGNED">> \in SM(t)!validTransitions
    BY <2>1 DEF SM!validTransitions
  <2> DEFINE r == [Stamped(t, "ASSIGNED") EXCEPT !.driverId = task[k].actor]
  <2>4. r.status = "ASSIGNED" /\ Update(t, r)
    BY <1>2, StampedStatus DEF AcceptUpdate
  <2> HIDE DEF r
  <2> QED BY <2>2, <2>3, <2>4, UpdateFollows
<1>3. CASE AcceptAudit(k, t)
  BY <1>3, GotoSeen, SameRowsFollow DEF AcceptAudit, SeenAt
<1>4. CASE AcceptPublish(k, t)
  BY <1>4, ReturnSeen, SameRowsFollow DEF AcceptPublish
<1> QED BY <1>1, <1>2, <1>3, <1>4 DEF AcceptStep

LEMMA VerifyFollows ==
  ASSUME TypeInv, SeenInv, NEW k \in Tasks, NEW t \in Trips, VerifyStep(k, t)
  PROVE  SeenInv' /\ Follows(k)
<1>1. CASE VerifyValidatePin(k, t)
  <2>1. SeenAt("verify:update", task[k].seen)
    BY <1>1 DEF VerifyValidatePin, At, SeenInv, SeenAt
  <2> QED BY <1>1, <2>1, GotoSeen, SameRowsFollow DEF VerifyValidatePin
<1>2. CASE VerifyUpdate(k, t)
  <2>1. task[k].seen = "ASSIGNED"
    BY <1>2 DEF VerifyUpdate, At, SeenInv, SeenAt
  <2>2. SeenInv' /\ \A j \in Tasks \ {k} : task'[j] = task[j]
    BY <1>2, GotoSeen DEF VerifyUpdate, SeenAt
  <2>3. <<task[k].seen, "PICKUP_STARTED">> \in SM(t)!validTransitions
    BY <2>1 DEF SM!validTransitions
  <2> QED BY <1>2, <2>2, <2>3, UpdateFollows, StampedStatus DEF VerifyUpdate
<1>3. ASSUME NEW kept, VerifyClearNoShow(k, t, kept) \/ VerifyDriverNoShow(k, t)
      PROVE  SeenInv' /\ Follows(k)
  BY <1>3, GotoSeen, SameRowsFollow DEF VerifyClearNoShow, VerifyDriverNoShow, SeenAt
<1>4. ASSUME NEW kept, VerifyClearPin(k, t, kept)
      PROVE  SeenInv' /\ Follows(k)
  BY <1>4, GotoSeen, ReturnSeen, SameRowsFollow DEF VerifyClearPin, SeenAt
<1>5. CASE VerifyAudit(k, t)
  BY <1>5, ReturnSeen, SameRowsFollow DEF VerifyAudit
<1> QED BY <1>1, <1>2, <1>3, <1>4, <1>5 DEF VerifyStep

LEMMA StartFollows ==
  ASSUME TypeInv, SeenInv, NEW k \in Tasks, NEW t \in Trips, StartStep(k, t)
  PROVE  SeenInv' /\ Follows(k)
<1>1. CASE StartUpdate(k, t)
  <2>1. task[k].seen = "PICKUP_STARTED"
    BY <1>1 DEF StartUpdate, At, SeenInv, SeenAt
  <2>2. SeenInv' /\ \A j \in Tasks \ {k} : task'[j] = task[j]
    BY <1>1, GotoSeen DEF StartUpdate, SeenAt
  <2>3. <<task[k].seen, "IN_PROGRESS">> \in SM(t)!validTransitions
    BY <2>1 DEF SM!validTransitions
  <2> QED BY <1>1, <2>2, <2>3, UpdateFollows, StampedStatus DEF StartUpdate
<1>2. ASSUME NEW kept, StartClearNoShow(k, t, kept)
      PROVE  SeenInv' /\ Follows(k)
  BY <1>2, GotoSeen, SameRowsFollow DEF StartClearNoShow, SeenAt
<1>3. CASE StartAudit(k, t)
  BY <1>3, ReturnSeen, SameRowsFollow DEF StartAudit
<1> QED BY <1>1, <1>2, <1>3 DEF StartStep

LEMMA CompleteFollows ==
  ASSUME TypeInv, SeenInv, NEW k \in Tasks, NEW t \in Trips, CompleteStep(k, t)
  PROVE  SeenInv' /\ Follows(k)
<1>t. task[k] \in TaskStates
  BY DEF TypeInv, TasksTyped, WellTyped
<1>1. ASSUME NEW i \in Intents, CompleteCreateIntent(k, t, i)
      PROVE  SeenInv' /\ Follows(k)
  <2> DEFINE x == [task[k] EXCEPT !.at = "complete:update", !.intent = i]
  <2>1. x.at = "complete:update" /\ x.seen = task[k].seen
    BY <1>t DEF TaskStates
  <2>2. SeenAt("complete:update", task[k].seen)
    BY <1>1 DEF CompleteCreateIntent, At, SeenInv, SeenAt
  <2>3. task' = [task EXCEPT ![k] = x] /\ UNCHANGED row
    BY <1>1 DEF CompleteCreateIntent
  <2> HIDE DEF x
  <2> QED BY <2>1, <2>2, <2>3, BecomeSeen, SameRowsFollow
<1>2. ASSUME NEW i \in Intents, CompleteIntentLost(k, t, i)
      PROVE  SeenInv' /\ Follows(k)
  BY <1>2, SameRowsFollow DEF CompleteIntentLost, SeenInv
<1>3. CASE CompleteUpdate(k, t)
  <2> DEFINE x == [task[k] EXCEPT !.at = "complete:audit", !.actor = row[t].driverId]
  <2>1. SeenAt(x.at, x.seen)
    BY <1>t DEF SeenAt, TaskStates
  <2>2. task' = [task EXCEPT ![k] = x]
    BY <1>3 DEF CompleteUpdate
  <2> HIDE DEF x
  <2>3. SeenInv' /\ \A j \in Tasks \ {k} : task'[j] = task[j]
    BY <2>1, <2>2, BecomeSeen
  <2>4. task[k].seen = "IN_PROGRESS"
    BY <1>3 DEF CompleteUpdate, At, SeenInv, SeenAt
  <2>5. <<task[k].seen, "COMPLETED">> \in SM(t)!validTransitions
    BY <2>4 DEF SM!validTransitions
  <2> DEFINE r == [Stamped(t, "COMPLETED") EXCEPT !.paymentIntentId = task[k].intent]
  <2>6. r.status = "COMPLETED" /\ Update(t, r)
    BY <1>3, StampedStatus DEF CompleteUpdate
  <2> HIDE DEF r
  <2> QED BY <2>3, <2>5, <2>6, UpdateFollows
<1>4. CASE CompleteAudit(k, t)
  BY <1>4, GotoSeen, SameRowsFollow DEF CompleteAudit, SeenAt
<1>5. CASE CompletePublish(k, t)
  BY <1>5, ReturnSeen, SameRowsFollow DEF CompletePublish
<1> QED BY <1>1, <1>2, <1>3, <1>4, <1>5 DEF CompleteStep

LEMMA CancelFollows ==
  ASSUME TypeInv, SeenInv, NEW k \in Tasks, NEW t \in Trips, CancelStep(k, t)
  PROVE  SeenInv' /\ Follows(k)
<1>t. task[k] \in TaskStates
  BY DEF TypeInv, TasksTyped, WellTyped
<1>1. CASE CancelUpdate(k, t)
  <2> DEFINE x == [task[k] EXCEPT !.at = "cancel:clearPin", !.actor = row[t].driverId]
  <2>1. SeenAt(x.at, x.seen)
    BY <1>t DEF SeenAt, TaskStates
  <2>2. task' = [task EXCEPT ![k] = x]
    BY <1>1 DEF CancelUpdate
  <2> HIDE DEF x
  <2>3. SeenInv' /\ \A j \in Tasks \ {k} : task'[j] = task[j]
    BY <2>1, <2>2, BecomeSeen
  <2>4. task[k].seen \in Statuses \ {"COMPLETED", "PAID", "CANCELED"}
    BY <1>1 DEF CancelUpdate, At, SeenInv, SeenAt
  <2>5. <<task[k].seen, "CANCELED">> \in SM(t)!validTransitions
    BY <2>4 DEF SM!validTransitions, Statuses
  <2>6. Update(t, Stamped(t, "CANCELED"))
    BY <1>1 DEF CancelUpdate
  <2> QED BY <2>3, <2>5, <2>6, UpdateFollows, StampedStatus
<1>2. ASSUME NEW kept, CancelClearPin(k, t, kept) \/ CancelClearNoShow(k, t, kept)
      PROVE  SeenInv' /\ Follows(k)
  BY <1>2, GotoSeen, SameRowsFollow DEF CancelClearPin, CancelClearNoShow, SeenAt
<1>3. CASE CancelAudit(k, t) \/ CancelRecord(k, t)
  BY <1>3, GotoSeen, SameRowsFollow DEF CancelAudit, CancelRecord, SeenAt
<1>4. CASE CancelPublish(k, t)
  BY <1>4, ReturnSeen, SameRowsFollow DEF CancelPublish
<1> QED BY <1>1, <1>2, <1>3, <1>4 DEF CancelStep

LEMMA CapturedFollows ==
  ASSUME TypeInv, SeenInv, NEW k \in Tasks, NEW t \in Trips, CapturedStep(k, t)
  PROVE  SeenInv' /\ Follows(k)
<1>1. CASE CapturedUpdate(k, t)
  <2>1. task[k].seen = "COMPLETED"
    BY <1>1 DEF CapturedUpdate, At, SeenInv, SeenAt
  <2>2. SeenInv' /\ \A j \in Tasks \ {k} : task'[j] = task[j]
    BY <1>1, GotoSeen DEF CapturedUpdate, SeenAt
  <2>3. <<task[k].seen, "PAID">> \in SM(t)!validTransitions
    BY <2>1 DEF SM!validTransitions
  <2> QED BY <1>1, <2>2, <2>3, UpdateFollows, StampedStatus DEF CapturedUpdate
<1>2. CASE CapturedAudit(k, t)
  BY <1>2, GotoSeen, SameRowsFollow DEF CapturedAudit, SeenAt
<1>3. CASE CapturedAck(k, t)
  BY <1>3, ReturnSeen, SameRowsFollow DEF CapturedAck
<1> QED BY <1>1, <1>2, <1>3 DEF CapturedStep

LEMMA BeginFollows ==
  ASSUME TypeInv, SeenInv, NEW k \in Tasks, BeginSome(k)
  PROVE  SeenInv' /\ Follows(k)
<1> PICK t \in Trips :
      \/ BeginCreate(k, t)
      \/ \E d \in Drivers, p \in Pins : BeginAccept(k, t, d, p)
      \/ \E a \in Drivers \cup Admins, p \in Pins : BeginVerify(k, t, a, p)
      \/ \E a \in Drivers \cup Admins : BeginStart(k, t, a) \/ BeginComplete(k, t, a)
      \/ \E side \in {"rider", "driver", "system"},
            a \in Drivers \cup Admins \cup {Rider} : BeginCancel(k, t, side, a)
  BY DEF BeginSome
<1>1. Status(t) \in Statuses \cup {None}
  BY DEF TypeInv, RowsTyped, Rows, Status
<1>2. \A p, a : LET x == NewTask(p, t)
                    y == [x EXCEPT !.actor = a]
                IN  /\ x.at = p /\ x.seen = Status(t)
                    /\ y.at = p /\ y.seen = Status(t)
  BY DEF NewTask, Idle
<1>3. ASSUME NEW x, Begin(k, x), UNCHANGED row, SeenAt(x.at, x.seen)
      PROVE  SeenInv' /\ Follows(k)
  BY <1>3, BecomeSeen, SameRowsFollow DEF Begin
<1>4. CASE BeginCreate(k, t)
  BY <1>2, <1>3, <1>4 DEF BeginCreate, SeenAt
<1>5. ASSUME NEW d \in Drivers, NEW p \in Pins, BeginAccept(k, t, d, p)
      PROVE  SeenInv' /\ Follows(k)
  <2> DEFINE x == [NewTask("accept:setPin", t) EXCEPT !.actor = d, !.pin = p]
  <2>1. x.at = "accept:setPin" /\ x.seen = Status(t)
    BY DEF NewTask, Idle
  <2>2. SeenAt(x.at, x.seen)
    BY <1>5, <2>1 DEF BeginAccept, SeenAt
  <2> QED BY <1>3, <1>5, <2>2 DEF BeginAccept
<1>6. ASSUME NEW a \in Drivers \cup Admins, NEW p \in Pins, BeginVerify(k, t, a, p)
      PROVE  SeenInv' /\ Follows(k)
  <2> DEFINE x == [NewTask("verify:validatePin", t) EXCEPT !.actor = a, !.pin = p]
  <2>1. x.at = "verify:validatePin" /\ x.seen = Status(t)
    BY DEF NewTask, Idle
  <2>2. SeenAt(x.at, x.seen)
    BY <1>6, <2>1 DEF BeginVerify, SeenAt
  <2> QED BY <1>3, <1>6, <2>2 DEF BeginVerify
<1>7. ASSUME NEW a \in Drivers \cup Admins, BeginStart(k, t, a)
      PROVE  SeenInv' /\ Follows(k)
  <2> DEFINE x == [NewTask("start:update", t) EXCEPT !.actor = a]
  <2>1. SeenAt(x.at, x.seen)
    BY <1>2, <1>7 DEF BeginStart, SeenAt
  <2> QED BY <1>3, <1>7, <2>1 DEF BeginStart
<1>8. ASSUME NEW a \in Drivers \cup Admins, BeginComplete(k, t, a)
      PROVE  SeenInv' /\ Follows(k)
  <2> DEFINE x == [NewTask("complete:createIntent", t) EXCEPT !.actor = a]
  <2>1. SeenAt(x.at, x.seen)
    BY <1>2, <1>8 DEF BeginComplete, SeenAt
  <2> QED BY <1>3, <1>8, <2>1 DEF BeginComplete
<1>9. ASSUME NEW side, NEW a, BeginCancel(k, t, side, a)
      PROVE  SeenInv' /\ Follows(k)
  <2> DEFINE x == [NewTask("cancel:update", t) EXCEPT !.actor = a]
  <2>1. SeenAt(x.at, x.seen)
    BY <1>1, <1>2, <1>9 DEF BeginCancel, SeenAt
  <2> QED BY <1>3, <1>9, <2>1 DEF BeginCancel
<1> QED BY <1>4, <1>5, <1>6, <1>7, <1>8, <1>9

-----------------------------------------------------------------------------

LEMMA InitSeen == Init => SeenInv
  BY DEF Init, SeenInv, SeenAt, Idle

\* In a step either one task moves, or no row changes.
LEMMA NextFollows ==
  ASSUME TypeInv, SeenInv, [Next]_vars
  PROVE  SeenInv' /\ ((\E k \in Tasks : Follows(k)) \/ UNCHANGED row)
<1>1. ASSUME NEW k \in Tasks, BeginSome(k) \/ Step(k)
      PROVE  SeenInv' /\ Follows(k)
  BY <1>1, BeginFollows, CreateFollows, AcceptFollows, VerifyFollows, StartFollows,
     CompleteFollows, CancelFollows, CapturedFollows DEF Step
<1>2. ASSUME NEW k \in Tasks, Abort(k)
      PROVE  SeenInv' /\ UNCHANGED row
  BY <1>2, ReturnSeen DEF Abort
<1>3. ASSUME NEW k \in Tasks, NEW e \in inbox, BeginCaptured(k, e)
      PROVE  SeenInv' /\ UNCHANGED row
  <2> DEFINE x == [NewTask("captured:update", e.trip) EXCEPT !.intent = e.intent]
  <2>1. x.at = "captured:update" /\ x.seen = "COMPLETED"
    BY <1>3 DEF BeginCaptured, Payable, NewTask, Idle
  <2>2. task' = [task EXCEPT ![k] = x] /\ UNCHANGED row
    BY <1>3 DEF BeginCaptured, Begin
  <2>3. SeenAt(x.at, x.seen)
    BY <2>1 DEF SeenAt
  <2> HIDE DEF x
  <2> QED BY <2>2, <2>3, BecomeSeen
<1>4. ASSUME UNCHANGED <<row, task>>
      PROVE  SeenInv' /\ UNCHANGED row
  BY <1>4 DEF SeenInv
<1>5. ASSUME NEW k \in Tasks, NEW e \in inbox, DropCaptured(k, e)
      PROVE  UNCHANGED <<row, task>>
  BY <1>5 DEF DropCaptured
<1>6. ASSUME NEW i \in Intents, Capture(i)
      PROVE  UNCHANGED <<row, task>>
  BY <1>6 DEF Capture
<1>7. ASSUME Expire
      PROVE  UNCHANGED <<row, task>>
  BY <1>7 DEF Expire, ExpirePin, ExpireDisplay, ExpireNoShow
<1>8. ASSUME UNCHANGED vars
      PROVE  UNCHANGED <<row, task>>
  BY <1>8 DEF vars
<1> QED BY <1>1, <1>2, <1>3, <1>4, <1>5, <1>6, <1>7, <1>8 DEF Next

\* Whatever requests interleave, every row that a request writes goes along the table
\* of the state machine, from the status that request read.
THEOREM WritesFollow == Spec => WritesFollowTheTable
<1> DEFINE A == \A k \in Tasks, t \in Trips :
                  (task'[k] # task[k] /\ row'[t] # row[t]) =>
                    \/ <<task[k].seen, row'[t].status>> \in SM(t)!validTransitions
                    \/ task[k].seen = None /\ row'[t].status = "REQUESTED"
           Inv == TypeInv /\ SeenInv
<1>1. Init => Inv
  BY InitTyped, InitSeen
<1>2. Inv /\ [Next]_vars => Inv'
  BY NextTyped, NextFollows
<1>3. Inv /\ [Next]_vars => [A]_vars
  <2> SUFFICES ASSUME Inv, [Next]_vars, NEW k \in Tasks, NEW t \in Trips,
                      task'[k] # task[k], row'[t] # row[t]
               PROVE  \/ <<task[k].seen, row'[t].status>> \in SM(t)!validTransitions
                      \/ task[k].seen = None /\ row'[t].status = "REQUESTED"
    OBVIOUS
  <2>1. PICK j \in Tasks : Follows(j)
    BY NextFollows
  <2>2. j = k
    BY <2>1 DEF Follows
  <2> QED BY <2>1, <2>2 DEF Follows
<1> HIDE DEF A, Inv
<1>4. Spec => [][A]_vars
  BY <1>1, <1>2, <1>3, PTL DEF Spec
<1> QED BY <1>4 DEF A, WritesFollowTheTable

-----------------------------------------------------------------------------
(* Requests about a trip that do not overlap. *)

\* No two executions are about the same trip.
NoOverlap ==
  \A j, k \in Tasks :
    (j # k /\ task[j].trip \in Trips) => task[k].trip # task[j].trip

\* The tasks whose update is still to come: what they read is what the row says.
BeforeUpdate ==
  {"create:insert", "accept:setPin", "accept:setDisplay", "accept:riderNoShow",
   "accept:update", "verify:validatePin", "verify:update", "start:update",
   "complete:createIntent", "complete:update", "cancel:update", "captured:update"}

\* What a task record x knows at point p, when nobody else writes: r is its trip's
\* row, pin and display are its trip's keys.
KnowsAt(p, x, r, pin, display) ==
  /\ p \in BeforeUpdate => r.status = x.seen
  /\ p \in {"create:insert", "captured:update"} => x.actor = None
  /\ p = "cancel:update" => x.actor \in Admins \cup {Rider, r.driverId}
  /\ p = "captured:update" => r.paymentIntentId = x.intent
  /\ p \in {"verify:validatePin", "verify:update", "start:update",
            "complete:createIntent", "complete:update"}
       => x.actor \in Admins \cup {r.driverId}
  /\ p \in {"accept:setDisplay", "accept:riderNoShow", "accept:update",
            "accept:audit", "accept:publish"}
       => pin \in {None, [pin |-> x.pin, for |-> x.actor]}
  /\ p \in {"accept:riderNoShow", "accept:update"} => display \in {None, x.pin}
  /\ p \in {"accept:audit", "accept:publish"}
       => r.status = "ASSIGNED" /\ r.driverId = x.actor

Knows(k) ==
  task[k].at # "idle" =>
    KnowsAt(task[k].at, task[k], row[task[k].trip], pinKey[task[k].trip],
            displayKey[task[k].trip])

\* The trip.assigned events of trip t.
Assignments(t) == {e \in published : e.trip = t /\ e.type = "trip.assigned"}

OnePinFor(t) ==
  (row[t].status = "ASSIGNED" /\ pinKey[t] # None) =>
    /\ pinKey[t].for = row[t].driverId
    /\ displayKey[t] \in {None, pinKey[t].pin}
    /\ \A e \in Assignments(t) : e.driver = pinKey[t].for /\ e.pin = pinKey[t].pin

PaidByOwn(t) ==
  row[t].status = "PAID" =>
    /\ row[t].paymentIntentId \in Intents
    /\ intent[row[t].paymentIntentId].status = "succeeded"

\* A trip that waits for a driver has none, and none was announced.
Unassigned(t) ==
  row[t].status \in {None, "REQUESTED", "OFFERED"} =>
    row[t].driverId = None /\ Assignments(t) = {}

TripFacts(t) == OnePinFor(t) /\ PaidByOwn(t) /\ Unassigned(t)

SerialInv == (\A k \in Tasks : Knows(k)) /\ (\A t \in Trips : TripFacts(t))

\* What a step of another task, or of none, may do to trip t: keys go away, and
\* an intent is captured.
Quiet(t) ==
  /\ row'[t] = row[t]
  /\ pinKey'[t] \in {pinKey[t], None}
  /\ displayKey'[t] \in {displayKey[t], None}
  /\ Assignments(t)' = Assignments(t)

-----------------------------------------------------------------------------
(* What the kinds of steps do to what is known. *)

LEMMA QuietTrip ==
  ASSUME Grows, NEW t \in Trips, TripFacts(t), Quiet(t)
  PROVE  TripFacts(t)'
<1>1. OnePinFor(t)'
  BY DEF TripFacts, Quiet, OnePinFor
<1>2. PaidByOwn(t)'
  BY DEF TripFacts, Quiet, PaidByOwn, Grows
<1>3. Unassigned(t)'
  BY DEF TripFacts, Quiet, Unassigned
<1> QED BY <1>1, <1>2, <1>3 DEF TripFacts

LEMMA QuietKnows ==
  ASSUME NEW t \in Trips, Quiet(t), NEW p, NEW x,
         KnowsAt(p, x, row[t], pinKey[t], displayKey[t])
  PROVE  KnowsAt(p, x, row'[t], pinKey'[t], displayKey'[t])
  BY DEF KnowsAt, Quiet

\* Task k becomes x; only its own trip t is written.
LEMMA OwnStep ==
  ASSUME SafetyInv, Grows, SerialInv, NoOverlap, NEW k \in Tasks, NEW t \in Trips,
         NEW x, task[k].trip = t, task' = [task EXCEPT ![k] = x],
         \A u \in Trips \ {t} : Quiet(u),
         TripFacts(t)',
         x.at # "idle" =>
           x.trip = t /\ KnowsAt(x.at, x, row'[t], pinKey'[t], displayKey'[t])
  PROVE  SerialInv'
<1>1. ASSUME NEW u \in Trips PROVE TripFacts(u)'
  <2>1. CASE u = t
    BY <2>1
  <2>2. CASE u # t
    <3>1. Quiet(u) /\ TripFacts(u)
      BY <2>2 DEF SerialInv
    <3> QED BY <3>1, QuietTrip
  <2> QED BY <2>1, <2>2
<1>2. ASSUME NEW j \in Tasks PROVE Knows(j)'
  <2>1. CASE j = k
    <3>1. task'[j] = x
      BY <2>1 DEF SafetyInv, TypeInv, TasksTyped
    <3> QED BY <3>1 DEF Knows
  <2>2. CASE j # k
    <3>1. task'[j] = task[j]
      BY <2>2 DEF SafetyInv, TypeInv, TasksTyped
    <3> SUFFICES ASSUME task[j].at # "idle"
                 PROVE  KnowsAt(task[j].at, task[j], row'[task[j].trip],
                                pinKey'[task[j].trip], displayKey'[task[j].trip])
      BY <3>1 DEF Knows
    <3>2. task[j].trip \in Trips
      BY DEF SafetyInv, TaskFacts, Facts
    <3>3. task[j].trip # t
      BY <2>2, <3>2 DEF NoOverlap
    <3>4. KnowsAt(task[j].at, task[j], row[task[j].trip], pinKey[task[j].trip],
                  displayKey[task[j].trip])
      BY DEF SerialInv, Knows
    <3>5. Quiet(task[j].trip)
      BY <3>2, <3>3
    <3> QED BY <3>2, <3>4, <3>5, QuietKnows
  <2> QED BY <2>1, <2>2
<1> QED BY <1>1, <1>2 DEF SerialInv

LEMMA OwnIdle == Idle.at = "idle"
  BY DEF Idle

\* Task k becomes x; no trip is written.
LEMMA StillStep ==
  ASSUME SafetyInv, Grows, SerialInv, NEW k \in Tasks, NEW x,
         task' = [task EXCEPT ![k] = x], \A u \in Trips : Quiet(u),
         x.at # "idle" =>
           /\ x.trip \in Trips
           /\ KnowsAt(x.at, x, row[x.trip], pinKey[x.trip], displayKey[x.trip])
  PROVE  SerialInv'
<1>1. ASSUME NEW u \in Trips PROVE TripFacts(u)'
  BY QuietTrip DEF SerialInv
<1>2. ASSUME NEW j \in Tasks PROVE Knows(j)'
  <2>1. task'[j] = IF j = k THEN x ELSE task[j]
    BY DEF SafetyInv, TypeInv, TasksTyped
  <2>2. task'[j].at # "idle" =>
          /\ task'[j].trip \in Trips
          /\ KnowsAt(task'[j].at, task'[j], row[task'[j].trip], pinKey[task'[j].trip],
                     displayKey[task'[j].trip])
    <3>1. CASE j = k
      BY <2>1, <3>1
    <3>2. CASE j # k
      BY <2>1, <3>2 DEF SerialInv, Knows, SafetyInv, TaskFacts, Facts
    <3> QED BY <3>1, <3>2
  <2> QED BY <2>2, QuietKnows DEF Knows
<1> QED BY <1>1, <1>2 DEF SerialInv

\* No task moves, and no trip is written.
LEMMA NobodyMoves ==
  ASSUME SafetyInv, Grows, SerialInv, UNCHANGED task, \A u \in Trips : Quiet(u)
  PROVE  SerialInv'
<1>1. ASSUME NEW u \in Trips PROVE TripFacts(u)'
  BY QuietTrip DEF SerialInv
<1>2. ASSUME NEW j \in Tasks PROVE Knows(j)'
  <2> SUFFICES ASSUME task[j].at # "idle"
               PROVE  KnowsAt(task[j].at, task[j], row'[task[j].trip],
                              pinKey'[task[j].trip], displayKey'[task[j].trip])
    BY DEF Knows
  <2>1. task[j].trip \in Trips
    BY DEF SafetyInv, TaskFacts, Facts
  <2>2. KnowsAt(task[j].at, task[j], row[task[j].trip], pinKey[task[j].trip],
                displayKey[task[j].trip])
    BY DEF SerialInv, Knows
  <2> QED BY <2>1, <2>2, QuietKnows
<1> QED BY <1>1, <1>2 DEF SerialInv

\* The task goes to p, or returns; no trip is written.
LEMMA GotoStill ==
  ASSUME SafetyInv, Grows, SerialInv, NEW k \in Tasks, NEW t \in Trips, NEW p,
         task[k].trip = t, Goto(k, p), \A u \in Trips : Quiet(u),
         KnowsAt(p, task[k], row[t], pinKey[t], displayKey[t])
  PROVE  SerialInv'
<1> DEFINE x == [task[k] EXCEPT !.at = p]
<1>1. /\ x.at = p /\ x.trip = t /\ x.seen = task[k].seen /\ x.actor = task[k].actor
      /\ x.pin = task[k].pin /\ x.intent = task[k].intent
  BY DEF SafetyInv, TypeInv, TasksTyped, WellTyped, TaskStates
<1>2. KnowsAt(x.at, x, row[t], pinKey[t], displayKey[t])
  BY <1>1 DEF KnowsAt
<1>3. task' = [task EXCEPT ![k] = x]
  BY DEF Goto
<1> HIDE DEF x
<1> QED BY <1>1, <1>2, <1>3, StillStep

LEMMA ReturnStill ==
  ASSUME SafetyInv, Grows, SerialInv, NEW k \in Tasks, Return(k),
         \A u \in Trips : Quiet(u)
  PROVE  SerialInv'
  BY OwnIdle, StillStep DEF Return

\* The task goes to p, and its own trip is written.
LEMMA GotoOwn ==
  ASSUME SafetyInv, Grows, SerialInv, NoOverlap, NEW k \in Tasks, NEW t \in Trips, NEW p,
         task[k].trip = t, Goto(k, p), \A u \in Trips \ {t} : Quiet(u), TripFacts(t)',
         KnowsAt(p, task[k], row'[t], pinKey'[t], displayKey'[t])
  PROVE  SerialInv'
<1> DEFINE x == [task[k] EXCEPT !.at = p]
<1>1. /\ x.at = p /\ x.trip = t /\ x.seen = task[k].seen /\ x.actor = task[k].actor
      /\ x.pin = task[k].pin /\ x.intent = task[k].intent
  BY DEF SafetyInv, TypeInv, TasksTyped, WellTyped, TaskStates
<1>2. KnowsAt(x.at, x, row'[t], pinKey'[t], displayKey'[t])
  BY <1>1 DEF KnowsAt
<1>3. task' = [task EXCEPT ![k] = x]
  BY DEF Goto
<1> HIDE DEF x
<1> QED BY <1>1, <1>2, <1>3, OwnStep

\* Nothing but no-show keys, audit entries, cancellations and intents is written.
LEMMA QuietAll ==
  ASSUME UNCHANGED <<row, pinKey, displayKey, published>>
  PROVE  \A u \in Trips : Quiet(u)
  BY DEF Quiet, Assignments

\* Clearing a trip's PIN writes no other key.
LEMMA ClearQuiet ==
  ASSUME TypeInv, NEW t \in Trips, NEW kept, ClearPin(t, kept),
         UNCHANGED <<row, records>>
  PROVE  \A u \in Trips : Quiet(u)
  BY DEF ClearPin, TypeInv, RedisTyped, Quiet, Assignments, records

\* Row t becomes r; the other trips are left alone.
LEMMA RowWritten ==
  ASSUME TypeInv, NEW t \in Trips, NEW r, Update(t, r),
         UNCHANGED <<redis, records, payments>>
  PROVE  /\ row'[t] = r
         /\ pinKey'[t] = pinKey[t] /\ displayKey'[t] = displayKey[t]
         /\ Assignments(t)' = Assignments(t)
         /\ \A u \in Trips \ {t} : Quiet(u) /\ row'[u] = row[u]
  BY DEF TypeInv, RowsTyped, Update, Quiet, Assignments, redis, records

-----------------------------------------------------------------------------
(* The refinement mapping. *)

TripRecord == [status : Statuses \cup {None}, driverId : Drivers \cup {None},
               paymentIntentId : Intents \cup {None}, stamps : SUBSET Statuses]

\* What the patch of an update does to the columns.
LEMMA StampedColumns ==
  ASSUME TypeInv, NEW t \in Trips, NEW s
  PROVE  /\ LET r == Stamped(t, s)
            IN  /\ r.status = s /\ r.stamps = row[t].stamps \cup {s}
                /\ r.driverId = row[t].driverId
                /\ r.paymentIntentId = row[t].paymentIntentId
         /\ \A d : LET r == [Stamped(t, s) EXCEPT !.driverId = d]
                   IN  /\ r.status = s /\ r.stamps = row[t].stamps \cup {s}
                       /\ r.driverId = d
                       /\ r.paymentIntentId = row[t].paymentIntentId
         /\ \A i : LET r == [Stamped(t, s) EXCEPT !.paymentIntentId = i]
                   IN  /\ r.status = s /\ r.stamps = row[t].stamps \cup {s}
                       /\ r.driverId = row[t].driverId
                       /\ r.paymentIntentId = i
         /\ \A h : LET r == [Stamped(t, s) EXCEPT !.h3 = h]
                   IN  /\ r.status = s /\ r.stamps = row[t].stamps \cup {s}
                       /\ r.driverId = row[t].driverId
                       /\ r.paymentIntentId = row[t].paymentIntentId
<1>1. row[t] \in Rows
  BY DEF TypeInv, RowsTyped
<1> QED BY <1>1 DEF Stamped, Rows

\* Trip y is z, one field of which may be written on top; z keeps the driver and the
\* payment intent of x.
Patched(y, x, z) ==
  /\ y.paymentIntentId = x.paymentIntentId =>
       /\ y.driverId = x.driverId => y = z /\ y = [z EXCEPT !.paymentIntentId = @]
       /\ y = [z EXCEPT !.driverId = y.driverId]
  /\ y.driverId = x.driverId => y = [z EXCEPT !.paymentIntentId = y.paymentIntentId]

LEMMA SameRecord ==
  ASSUME NEW x \in TripRecord, NEW y \in TripRecord, NEW s,
         y.status = s, y.stamps = x.stamps \cup {s}
  PROVE  Patched(y, x, [x EXCEPT !.status = s, !.stamps = @ \cup {s}])
  BY DEF TripRecord, Patched

LEMMA Mapped ==
  ASSUME TypeInv, TypeInv', NEW t \in Trips
  PROVE  /\ TripOf(t) \in TripRecord /\ TripOf(t)' \in TripRecord
         /\ TripOf(t).status = row[t].status /\ TripOf(t).driverId = row[t].driverId
         /\ TripOf(t).paymentIntentId = row[t].paymentIntentId
         /\ TripOf(t).stamps = row[t].stamps
         /\ TripOf(t)'.status = row'[t].status /\ TripOf(t)'.driverId = row'[t].driverId
         /\ TripOf(t)'.paymentIntentId = row'[t].paymentIntentId
         /\ TripOf(t)'.stamps = row'[t].stamps
  BY DEF TripOf, TypeInv, RowsTyped, Rows, TripRecord

LEMMA MappedStamp ==
  ASSUME TypeInv, TypeInv', NEW t \in Trips, NEW s,
         row'[t].status = s, row'[t].stamps = row[t].stamps \cup {s}
  PROVE  Patched(TripOf(t)', TripOf(t), SM(t)!Stamped(s))
<1> DEFINE x == TripOf(t)
           y == TripOf(t)'
<1>1. SM(t)!Stamped(s) = [x EXCEPT !.status = s, !.stamps = @ \cup {s}]
  BY DEF SM!Stamped
<1>2. /\ x \in TripRecord /\ y \in TripRecord
      /\ y.status = s /\ y.stamps = x.stamps \cup {s}
  BY Mapped
<1> HIDE DEF x, y
<1>3. Patched(y, x, [x EXCEPT !.status = s, !.stamps = @ \cup {s}])
  BY <1>2, SameRecord
<1>4. Patched(y, x, SM(t)!Stamped(s))
  BY <1>1, <1>3
<1> QED BY <1>4 DEF x, y

-----------------------------------------------------------------------------
(* The steps of each use case. *)

\* The row names the driver task k acts for, or nobody when it accepts the trip.
OfThisDriver(k, t) ==
  IF task[k].at = "accept:update" THEN row[t].driverId = None
  ELSE row[t].driverId = task[k].actor

\* What task k does to the rows: only its own trip t is written, as the state
\* machine says, and for a driver only if the row is of this driver.
Obeys(k, t) ==
  /\ \A u \in Trips \ {t} : row'[u] = row[u]
  /\ TripStep(t) \/ row'[t] = row[t]
  /\ (row'[t] # row[t] /\ task[k].actor \in Drivers \ (Admins \cup {Rider}))
       => OfThisDriver(k, t)

Setting == SafetyInv /\ SafetyInv' /\ Grows /\ SeenInv /\ SerialInv /\ NoOverlap

LEMMA SameRowsObey ==
  ASSUME UNCHANGED row, NEW k \in Tasks, NEW t \in Trips
  PROVE  Obeys(k, t)
  BY DEF Obeys

\* What a task knows while it runs.
LEMMA KnownAt ==
  ASSUME Setting, NEW k \in Tasks, NEW t \in Trips, task[k].trip = t,
         task[k].at # "idle"
  PROVE  /\ KnowsAt(task[k].at, task[k], row[t], pinKey[t], displayKey[t])
         /\ SeenAt(task[k].at, task[k].seen)
         /\ LocalsAt(task[k].at, task[k])
         /\ Facts(task[k], row, audit, intent)
         /\ TripFacts(t)
         /\ TypeInv /\ TypeInv'
  BY DEF Setting, SerialInv, Knows, SeenInv, SafetyInv, TypeInv, TasksTyped, WellTyped,
         TaskFacts

LEMMA PublishQuiet ==
  ASSUME NEW e, e.type # "trip.assigned", Publish(e), UNCHANGED <<row, redis>>
  PROVE  \A u \in Trips : Quiet(u)
  BY DEF Publish, Quiet, Assignments, redis

LEMMA NoneIsActor ==
  ASSUME NEW t \in Trips
  PROVE  /\ None \in SM(t)!Actors
         /\ \A type, id : SM(t)!Authorized(None, type, id)
         /\ \A side : SM(t)!CancelAuthorized(None, side)
  BY DEF SM!Actors, SM!Authorized, SM!CancelAuthorized

LEMMA CreateSerial ==
  ASSUME Setting, NEW k \in Tasks, NEW t \in Trips, task[k].trip = t, CreateStep(k, t)
  PROVE  SerialInv' /\ Obeys(k, t)
<1> USE DEF Setting
<1>1. ASSUME NEW known \in BOOLEAN, CreateInsert(k, t, known)
      PROVE  SerialInv' /\ Obeys(k, t)
  <2>1. /\ TypeInv /\ TypeInv' /\ TripFacts(t)
        /\ row[t].status = None /\ task[k].actor = None
    BY <1>1, KnownAt DEF CreateInsert, At, KnowsAt, SeenAt, BeforeUpdate
  <2> DEFINE r == [Stamped(t, "REQUESTED") EXCEPT !.h3 = known]
  <2>2. /\ r.status = "REQUESTED" /\ r.stamps = row[t].stamps \cup {"REQUESTED"}
        /\ r.driverId = row[t].driverId /\ r.paymentIntentId = row[t].paymentIntentId
    BY <2>1, StampedColumns
  <2>3. Update(t, r) /\ UNCHANGED <<redis, records, payments>>
    BY <1>1 DEF CreateInsert
  <2> HIDE DEF r
  <2>4. /\ row'[t] = r /\ Assignments(t)' = Assignments(t)
        /\ \A u \in Trips \ {t} : Quiet(u) /\ row'[u] = row[u]
    BY <2>1, <2>3, RowWritten
  <2>5. TripFacts(t)'
    BY <2>1, <2>2, <2>4 DEF TripFacts, OnePinFor, PaidByOwn, Unassigned
  <2>6. SerialInv'
    BY <1>1, <2>4, <2>5, GotoOwn DEF CreateInsert, KnowsAt, BeforeUpdate
  <2>7. TripOf(t)' = SM(t)!Stamped("REQUESTED")
    BY <2>1, <2>2, <2>4, Mapped, MappedStamp DEF Patched
  <2>8. SM(t)!handleRequest
    BY <2>1, <2>7, Mapped DEF SM!handleRequest
  <2>9. None \notin Drivers
    BY UseCasesAssumption
  <2>10. TripStep(t)
    BY <2>1, <2>8 DEF TripStep, Status, SM!Next
  <2> QED BY <2>1, <2>4, <2>6, <2>9, <2>10 DEF Obeys
<1>2. CASE CreateAudit(k, t)
  BY <1>2, QuietAll, GotoStill, SameRowsObey
     DEF CreateAudit, KnowsAt, BeforeUpdate, redis
<1>3. CASE CreatePublish(k, t)
  <2>1. \A u \in Trips : Quiet(u)
    BY <1>3, PublishQuiet DEF CreatePublish, Event
  <2> QED BY <1>3, <2>1, ReturnStill, SameRowsObey DEF CreatePublish
<1> QED BY <1>1, <1>2, <1>3 DEF CreateStep

LEMMA AcceptSerial ==
  ASSUME Setting, NEW k \in Tasks, NEW t \in Trips, task[k].trip = t, AcceptStep(k, t)
  PROVE  SerialInv' /\ Obeys(k, t)
<1> USE DEF Setting
<1> DEFINE mine == [pin |-> task[k].pin, for |-> task[k].actor]
<1>1. CASE AcceptSetPin(k, t)
  <2>1. /\ KnowsAt("accept:setPin", task[k], row[t], pinKey[t], displayKey[t])
        /\ SeenAt("accept:setPin", task[k].seen) /\ TripFacts(t)
    BY <1>1, KnownAt DEF AcceptSetPin, At
  <2>2. row[t].status \in {"REQUESTED", "OFFERED"} /\ row[t].status = task[k].seen
    BY <2>1 DEF KnowsAt, SeenAt, BeforeUpdate
  <2>3. /\ pinKey'[t] = mine
        /\ UNCHANGED <<row, displayKey, published>>
        /\ \A u \in Trips \ {t} : Quiet(u)
    BY <1>1 DEF AcceptSetPin, SafetyInv, TypeInv, RedisTyped, Quiet, Assignments, records
  <2>4. TripFacts(t)'
    BY <2>1, <2>2, <2>3, KnownAt
       DEF TripFacts, OnePinFor, PaidByOwn, Unassigned, Assignments, AcceptSetPin, payments
  <2>5. KnowsAt("accept:setDisplay", task[k], row'[t], pinKey'[t], displayKey'[t])
    BY <2>2, <2>3 DEF KnowsAt
  <2>6. SerialInv'
    BY <1>1, <2>3, <2>4, <2>5, GotoOwn DEF AcceptSetPin
  <2> QED BY <2>3, <2>6, SameRowsObey
<1>2. CASE AcceptSetDisplay(k, t)
  <2>1. /\ KnowsAt("accept:setDisplay", task[k], row[t], pinKey[t], displayKey[t])
        /\ SeenAt("accept:setDisplay", task[k].seen) /\ TripFacts(t)
    BY <1>2, KnownAt DEF AcceptSetDisplay, At
  <2>2. row[t].status \in {"REQUESTED", "OFFERED"} /\ row[t].status = task[k].seen
    BY <2>1 DEF KnowsAt, SeenAt, BeforeUpdate
  <2>3. /\ displayKey'[t] = task[k].pin
        /\ UNCHANGED <<row, pinKey, published>>
        /\ \A u \in Trips \ {t} : Quiet(u)
    BY <1>2 DEF AcceptSetDisplay, SafetyInv, TypeInv, RedisTyped, Quiet, Assignments,
                records
  <2>4. TripFacts(t)'
    BY <1>2, <2>1, <2>2, <2>3
       DEF TripFacts, OnePinFor, PaidByOwn, Unassigned, Assignments, AcceptSetDisplay,
           payments
  <2>5. KnowsAt("accept:riderNoShow", task[k], row'[t], pinKey'[t], displayKey'[t])
    BY <2>1, <2>2, <2>3 DEF KnowsAt
  <2>6. SerialInv'
    BY <1>2, <2>3, <2>4, <2>5, GotoOwn DEF AcceptSetDisplay
  <2> QED BY <2>3, <2>6, SameRowsObey
<1>3. CASE AcceptRiderNoShow(k, t)
  <2>1. KnowsAt("accept:riderNoShow", task[k], row[t], pinKey[t], displayKey[t])
    BY <1>3, KnownAt DEF AcceptRiderNoShow, At
  <2>2. KnowsAt("accept:update", task[k], row[t], pinKey[t], displayKey[t])
    BY <2>1 DEF KnowsAt, BeforeUpdate
  <2>3. UNCHANGED <<row, pinKey, displayKey, published>>
    BY <1>3 DEF AcceptRiderNoShow, records
  <2> QED BY <1>3, <2>2, <2>3, QuietAll, GotoStill, SameRowsObey DEF AcceptRiderNoShow
<1>4. CASE AcceptUpdate(k, t)
  <2>1. /\ KnowsAt("accept:update", task[k], row[t], pinKey[t], displayKey[t])
        /\ SeenAt("accept:update", task[k].seen) /\ TripFacts(t)
        /\ TypeInv /\ TypeInv' /\ task[k].actor \in Drivers
    BY <1>4, KnownAt DEF AcceptUpdate, At, LocalsAt, AcceptPoints
  <2>2. row[t].status \in {"REQUESTED", "OFFERED"}
    BY <2>1 DEF KnowsAt, SeenAt, BeforeUpdate
  <2>3. row[t].driverId = None /\ Assignments(t) = {}
    BY <2>1, <2>2 DEF TripFacts, Unassigned
  <2>4. pinKey[t] \in {None, mine} /\ displayKey[t] \in {None, task[k].pin}
    BY <2>1 DEF KnowsAt
  <2> DEFINE r == [Stamped(t, "ASSIGNED") EXCEPT !.driverId = task[k].actor]
  <2>5. /\ r.status = "ASSIGNED" /\ r.stamps = row[t].stamps \cup {"ASSIGNED"}
        /\ r.driverId = task[k].actor /\ r.paymentIntentId = row[t].paymentIntentId
    BY <2>1, StampedColumns
  <2>6. Update(t, r) /\ UNCHANGED <<redis, records, payments>>
    BY <1>4 DEF AcceptUpdate
  <2> HIDE DEF r
  <2>7. /\ row'[t] = r /\ Assignments(t)' = Assignments(t)
        /\ pinKey'[t] = pinKey[t] /\ displayKey'[t] = displayKey[t]
        /\ \A u \in Trips \ {t} : Quiet(u) /\ row'[u] = row[u]
    BY <2>1, <2>6, RowWritten
  <2>8. TripFacts(t)'
    <3>1. "ASSIGNED" # None
      BY UseCasesAssumption DEF Statuses
    <3> QED BY <2>3, <2>4, <2>5, <2>7, <3>1 DEF TripFacts, OnePinFor, PaidByOwn, Unassigned
  <2>9. KnowsAt("accept:audit", task[k], row'[t], pinKey'[t], displayKey'[t])
    BY <2>4, <2>5, <2>7 DEF KnowsAt, BeforeUpdate
  <2>10. SerialInv'
    BY <1>4, <2>7, <2>8, <2>9, GotoOwn DEF AcceptUpdate
  <2>11. TripOf(t)' = [SM(t)!Stamped("ASSIGNED") EXCEPT !.driverId = task[k].actor]
    BY <2>1, <2>5, <2>7, Mapped, MappedStamp DEF Patched
  <2>12. SM(t)!handleAssign(task[k].actor, None, TRUE, FALSE)
    BY <2>1, <2>2, <2>3, <2>11, Mapped, NoneIsActor DEF SM!handleAssign
  <2>13. SM(t)!Next
    BY <2>1, <2>12, NoneIsActor DEF SM!Next
  <2>14. TripStep(t)
    BY <2>5, <2>7, <2>13 DEF TripStep
  <2>15. OfThisDriver(k, t)
    BY <1>4, <2>3 DEF OfThisDriver, AcceptUpdate, At
  <2> QED BY <2>7, <2>10, <2>14, <2>15 DEF Obeys
<1>5. CASE AcceptAudit(k, t)
  <2>1. KnowsAt("accept:audit", task[k], row[t], pinKey[t], displayKey[t])
    BY <1>5, KnownAt DEF AcceptAudit, At
  <2>2. KnowsAt("accept:publish", task[k], row[t], pinKey[t], displayKey[t])
    BY <2>1 DEF KnowsAt, BeforeUpdate
  <2>3. UNCHANGED <<row, pinKey, displayKey, published>>
    BY <1>5 DEF AcceptAudit, redis
  <2> QED BY <1>5, <2>2, <2>3, QuietAll, GotoStill, SameRowsObey DEF AcceptAudit
<1>6. CASE AcceptPublish(k, t)
  <2>1. /\ KnowsAt("accept:publish", task[k], row[t], pinKey[t], displayKey[t])
        /\ TripFacts(t)
    BY <1>6, KnownAt DEF AcceptPublish, At
  <2>2. /\ pinKey[t] \in {None, mine}
        /\ row[t].status = "ASSIGNED" /\ row[t].driverId = task[k].actor
    BY <2>1 DEF KnowsAt
  <2> DEFINE e == Event("trip.assigned", t, task[k].actor, task[k].pin, None)
  <2>3. e.trip = t /\ e.driver = task[k].actor /\ e.pin = task[k].pin
    BY DEF Event
  <2>4. Publish(e) /\ UNCHANGED <<row, pinKey, displayKey, intent>> /\ Return(k)
    BY <1>6 DEF AcceptPublish, redis, payments
  <2> HIDE DEF e
  <2>5. /\ Assignments(t)' \subseteq Assignments(t) \cup {e}
        /\ \A u \in Trips \ {t} : Quiet(u)
    BY <2>3, <2>4 DEF Publish, Assignments, Quiet
  <2>6. OnePinFor(t)'
    BY <2>1, <2>2, <2>3, <2>4, <2>5 DEF TripFacts, OnePinFor
  <2>7. PaidByOwn(t)' /\ Unassigned(t)'
    <3>1. "ASSIGNED" # None
      BY UseCasesAssumption DEF Statuses
    <3> QED BY <2>2, <2>4, <3>1 DEF PaidByOwn, Unassigned
  <2>8. SerialInv'
    BY <2>4, <2>5, <2>6, <2>7, OwnIdle, OwnStep DEF TripFacts, Return
  <2> QED BY <2>4, <2>8, SameRowsObey
<1> QED BY <1>1, <1>2, <1>3, <1>4, <1>5, <1>6 DEF AcceptStep

\* The status and its timestamp are written, and nothing else.
LEMMA StatusWritten ==
  ASSUME Setting, NEW t \in Trips,
         NEW s \in {"PICKUP_STARTED", "IN_PROGRESS", "CANCELED", "PAID"},
         Update(t, Stamped(t, s)), UNCHANGED <<redis, records, payments>>,
         s = "PAID" => /\ row[t].paymentIntentId \in Intents
                       /\ intent[row[t].paymentIntentId].status = "succeeded"
  PROVE  /\ TripFacts(t)'
         /\ \A u \in Trips \ {t} : Quiet(u) /\ row'[u] = row[u]
         /\ row'[t].status = s
         /\ TripOf(t)' = SM(t)!Stamped(s)
         /\ TripOf(t)' = [SM(t)!Stamped(s) EXCEPT !.paymentIntentId = @]
         /\ TripOf(t)' =
              [SM(t)!Stamped(s) EXCEPT !.paymentIntentId = row[t].paymentIntentId]
<1>1. TypeInv /\ TypeInv' /\ s # None
  BY UseCasesAssumption DEF Setting, SafetyInv, Statuses
<1> DEFINE r == Stamped(t, s)
<1>2. /\ r.status = s /\ r.stamps = row[t].stamps \cup {s}
      /\ r.driverId = row[t].driverId /\ r.paymentIntentId = row[t].paymentIntentId
  BY <1>1, StampedColumns
<1> HIDE DEF r
<1>3. /\ row'[t] = r
      /\ \A u \in Trips \ {t} : Quiet(u) /\ row'[u] = row[u]
  BY <1>1, RowWritten DEF r
<1>4. TripFacts(t)'
  BY <1>1, <1>2, <1>3 DEF TripFacts, OnePinFor, PaidByOwn, Unassigned, payments
<1>5. Patched(TripOf(t)', TripOf(t), SM(t)!Stamped(s))
  BY <1>1, <1>2, <1>3, MappedStamp
<1> QED BY <1>1, <1>2, <1>3, <1>4, <1>5, Mapped DEF Patched

\* The driver of a trip that was assigned.
LEMMA HasDriver ==
  ASSUME Setting, NEW t \in Trips, "ASSIGNED" \in row[t].stamps
  PROVE  row[t].driverId \in Drivers
  BY DEF Setting, SafetyInv, RowInv, DriverRecorded

LEMMA VerifySerial ==
  ASSUME Setting, NEW k \in Tasks, NEW t \in Trips, task[k].trip = t, VerifyStep(k, t)
  PROVE  SerialInv' /\ Obeys(k, t)
<1> USE DEF Setting
<1>1. CASE VerifyValidatePin(k, t)
  <2>1. KnowsAt("verify:validatePin", task[k], row[t], pinKey[t], displayKey[t])
    BY <1>1, KnownAt DEF VerifyValidatePin, At
  <2>2. KnowsAt("verify:update", task[k], row[t], pinKey[t], displayKey[t])
    BY <2>1 DEF KnowsAt, BeforeUpdate
  <2>3. UNCHANGED <<row, pinKey, displayKey, published>>
    BY <1>1 DEF VerifyValidatePin, redis, records
  <2> QED BY <1>1, <2>2, <2>3, QuietAll, GotoStill, SameRowsObey DEF VerifyValidatePin
<1>2. CASE VerifyUpdate(k, t)
  <2>1. /\ KnowsAt("verify:update", task[k], row[t], pinKey[t], displayKey[t])
        /\ task[k].seen = "ASSIGNED" /\ "ASSIGNED" \in row[t].stamps
        /\ TypeInv /\ TypeInv'
    BY <1>2, KnownAt DEF VerifyUpdate, At, SeenAt, Facts, StampedFor
  <2>2. /\ row[t].status = "ASSIGNED"
        /\ task[k].actor \in Admins \cup {row[t].driverId}
    BY <2>1 DEF KnowsAt, BeforeUpdate
  <2>3. /\ TripFacts(t)' /\ row'[t].status = "PICKUP_STARTED"
        /\ \A u \in Trips \ {t} : Quiet(u) /\ row'[u] = row[u]
        /\ TripOf(t)' = SM(t)!Stamped("PICKUP_STARTED")
    BY <1>2, StatusWritten DEF VerifyUpdate
  <2>4. SerialInv'
    BY <1>2, <2>3, GotoOwn DEF VerifyUpdate, KnowsAt, BeforeUpdate
  <2>5. SM(t)!handleStartPickup(row[t].driverId, None, TRUE, 0)
    BY <2>1, <2>2, <2>3, Mapped, NoneIsActor
       DEF SM!handleStartPickup, SM!MaxPickupDistance
  <2>6. SM(t)!Next
    BY <2>1, <2>5, HasDriver, NoneIsActor DEF SM!Next, SM!Distances
  <2>7. TripStep(t)
    BY <2>3, <2>6 DEF TripStep
  <2>8. task[k].actor \notin Admins => OfThisDriver(k, t)
    BY <1>2, <2>2 DEF OfThisDriver, VerifyUpdate, At
  <2> QED BY <2>3, <2>4, <2>7, <2>8 DEF Obeys
<1>3. ASSUME NEW kept, VerifyClearNoShow(k, t, kept) \/ VerifyDriverNoShow(k, t)
      PROVE  SerialInv' /\ Obeys(k, t)
  <2>1. UNCHANGED <<row, pinKey, displayKey, published>>
    BY <1>3 DEF VerifyClearNoShow, VerifyDriverNoShow, records
  <2> QED
    BY <1>3, <2>1, QuietAll, GotoStill, SameRowsObey
       DEF VerifyClearNoShow, VerifyDriverNoShow, KnowsAt, BeforeUpdate
<1>4. ASSUME NEW kept, VerifyClearPin(k, t, kept)
      PROVE  SerialInv' /\ Obeys(k, t)
  <2>1. \A u \in Trips : Quiet(u)
    BY <1>4, ClearQuiet DEF VerifyClearPin, SafetyInv
  <2>2. UNCHANGED row
    BY <1>4 DEF VerifyClearPin
  <2> QED
    BY <1>4, <2>1, <2>2, GotoStill, ReturnStill, SameRowsObey
       DEF VerifyClearPin, KnowsAt, BeforeUpdate
<1>5. CASE VerifyAudit(k, t)
  BY <1>5, QuietAll, ReturnStill, SameRowsObey DEF VerifyAudit, redis
<1> QED BY <1>1, <1>2, <1>3, <1>4, <1>5 DEF VerifyStep

LEMMA StartSerial ==
  ASSUME Setting, NEW k \in Tasks, NEW t \in Trips, task[k].trip = t, StartStep(k, t)
  PROVE  SerialInv' /\ Obeys(k, t)
<1> USE DEF Setting
<1>1. CASE StartUpdate(k, t)
  <2>1. /\ KnowsAt("start:update", task[k], row[t], pinKey[t], displayKey[t])
        /\ task[k].seen = "PICKUP_STARTED" /\ "PICKUP_STARTED" \in row[t].stamps
        /\ TypeInv /\ TypeInv'
    BY <1>1, KnownAt DEF StartUpdate, At, SeenAt, Facts, StampedFor
  <2>2. /\ row[t].status = "PICKUP_STARTED"
        /\ task[k].actor \in Admins \cup {row[t].driverId}
    BY <2>1 DEF KnowsAt, BeforeUpdate
  <2>3. /\ TripFacts(t)' /\ row'[t].status = "IN_PROGRESS"
        /\ \A u \in Trips \ {t} : Quiet(u) /\ row'[u] = row[u]
        /\ TripOf(t)' = SM(t)!Stamped("IN_PROGRESS")
    BY <1>1, StatusWritten DEF StartUpdate
  <2>4. SerialInv'
    BY <1>1, <2>3, GotoOwn DEF StartUpdate, KnowsAt, BeforeUpdate
  <2>5. SM(t)!handleStart(row[t].driverId, None)
    BY <2>1, <2>2, <2>3, Mapped, NoneIsActor DEF SM!handleStart
  <2>6. "ASSIGNED" \in row[t].stamps
    BY <2>1 DEF SafetyInv, RowInv, TimestampsHaveCauses, Before
  <2>7. SM(t)!Next
    BY <2>5, <2>6, HasDriver, NoneIsActor DEF SM!Next
  <2>8. TripStep(t)
    BY <2>3, <2>7 DEF TripStep
  <2>9. task[k].actor \notin Admins => OfThisDriver(k, t)
    BY <1>1, <2>2 DEF OfThisDriver, StartUpdate, At
  <2> QED BY <2>3, <2>4, <2>8, <2>9 DEF Obeys
<1>2. ASSUME NEW kept, StartClearNoShow(k, t, kept)
      PROVE  SerialInv' /\ Obeys(k, t)
  BY <1>2, QuietAll, GotoStill, SameRowsObey
     DEF StartClearNoShow, KnowsAt, BeforeUpdate, records
<1>3. CASE StartAudit(k, t)
  BY <1>3, QuietAll, ReturnStill, SameRowsObey DEF StartAudit, redis
<1> QED BY <1>1, <1>2, <1>3 DEF StartStep

LEMMA CompleteSerial ==
  ASSUME Setting, NEW k \in Tasks, NEW t \in Trips, task[k].trip = t, CompleteStep(k, t)
  PROVE  SerialInv' /\ Obeys(k, t)
<1> USE DEF Setting
<1>1. ASSUME NEW i \in Intents, CompleteCreateIntent(k, t, i)
      PROVE  SerialInv' /\ Obeys(k, t)
  <2>1. KnowsAt("complete:createIntent", task[k], row[t], pinKey[t], displayKey[t])
    BY <1>1, KnownAt DEF CompleteCreateIntent, At
  <2> DEFINE x == [task[k] EXCEPT !.at = "complete:update", !.intent = i]
  <2>2. /\ x.at = "complete:update" /\ x.trip = t
        /\ x.seen = task[k].seen /\ x.actor = task[k].actor
    BY DEF SafetyInv, TypeInv, TasksTyped, WellTyped, TaskStates
  <2>3. task' = [task EXCEPT ![k] = x] /\ UNCHANGED <<row, pinKey, displayKey, published>>
    BY <1>1 DEF CompleteCreateIntent, redis, records
  <2> HIDE DEF x
  <2>4. KnowsAt("complete:update", x, row[t], pinKey[t], displayKey[t])
    BY <2>1, <2>2 DEF KnowsAt, BeforeUpdate
  <2> QED BY <2>2, <2>3, <2>4, QuietAll, StillStep, SameRowsObey
<1>2. ASSUME NEW i \in Intents, CompleteIntentLost(k, t, i)
      PROVE  SerialInv' /\ Obeys(k, t)
  <2>1. UNCHANGED <<row, pinKey, displayKey, published, task>>
    BY <1>2 DEF CompleteIntentLost, redis, records
  <2> QED BY <2>1, QuietAll, NobodyMoves, SameRowsObey
<1>3. CASE CompleteUpdate(k, t)
  <2>1. /\ KnowsAt("complete:update", task[k], row[t], pinKey[t], displayKey[t])
        /\ task[k].seen = "IN_PROGRESS" /\ "IN_PROGRESS" \in row[t].stamps
        /\ task[k].intent \in Intents /\ TypeInv /\ TypeInv'
    BY <1>3, KnownAt
       DEF CompleteUpdate, At, SeenAt, Facts, StampedFor, LocalsAt, ChargePoints
  <2>2. /\ row[t].status = "IN_PROGRESS"
        /\ task[k].actor \in Admins \cup {row[t].driverId}
    BY <2>1 DEF KnowsAt, BeforeUpdate
  <2> DEFINE r == [Stamped(t, "COMPLETED") EXCEPT !.paymentIntentId = task[k].intent]
             x == [task[k] EXCEPT !.at = "complete:audit", !.actor = row[t].driverId]
  <2>3. /\ r.status = "COMPLETED" /\ r.stamps = row[t].stamps \cup {"COMPLETED"}
        /\ r.driverId = row[t].driverId /\ r.paymentIntentId = task[k].intent
    BY <2>1, StampedColumns
  <2>4. x.at = "complete:audit" /\ x.trip = t
    BY DEF SafetyInv, TypeInv, TasksTyped, WellTyped, TaskStates
  <2>5. /\ Update(t, r) /\ UNCHANGED <<redis, records, payments>>
        /\ task' = [task EXCEPT ![k] = x]
    BY <1>3 DEF CompleteUpdate
  <2> HIDE DEF r, x
  <2>6. /\ row'[t] = r
        /\ \A u \in Trips \ {t} : Quiet(u) /\ row'[u] = row[u]
    BY <2>1, <2>5, RowWritten
  <2>7. TripFacts(t)'
    <3>1. "COMPLETED" # None
      BY UseCasesAssumption DEF Statuses
    <3> QED BY <2>3, <2>6, <3>1 DEF TripFacts, OnePinFor, PaidByOwn, Unassigned
  <2>8. SerialInv'
    BY <2>4, <2>5, <2>6, <2>7, OwnStep DEF KnowsAt, BeforeUpdate
  <2>9. TripOf(t)' = [SM(t)!Stamped("COMPLETED") EXCEPT !.paymentIntentId = task[k].intent]
    BY <2>1, <2>3, <2>6, Mapped, MappedStamp DEF Patched
  <2>10. task[k].intent # None
    BY <2>1, UseCasesAssumption
  <2>11. SM(t)!handleComplete(row[t].driverId, None, task[k].intent)
    BY <2>1, <2>2, <2>9, <2>10, Mapped, NoneIsActor DEF SM!handleComplete
  <2>12. "ASSIGNED" \in row[t].stamps
    BY <2>1 DEF SafetyInv, RowInv, TimestampsHaveCauses, Before
  <2>13. SM(t)!Next
    BY <2>1, <2>11, <2>12, HasDriver, NoneIsActor DEF SM!Next
  <2>14. TripStep(t)
    BY <2>3, <2>6, <2>13 DEF TripStep
  <2>15. task[k].actor \notin Admins => OfThisDriver(k, t)
    BY <1>3, <2>2 DEF OfThisDriver, CompleteUpdate, At
  <2> QED BY <2>6, <2>8, <2>14, <2>15 DEF Obeys
<1>4. CASE CompleteAudit(k, t)
  BY <1>4, QuietAll, GotoStill, SameRowsObey
     DEF CompleteAudit, KnowsAt, BeforeUpdate, redis
<1>5. CASE CompletePublish(k, t)
  <2>1. \A u \in Trips : Quiet(u)
    BY <1>5, PublishQuiet DEF CompletePublish, Event
  <2> QED BY <1>5, <2>1, ReturnStill, SameRowsObey DEF CompletePublish
<1> QED BY <1>1, <1>2, <1>3, <1>4, <1>5 DEF CompleteStep

LEMMA CancelSerial ==
  ASSUME Setting, NEW k \in Tasks, NEW t \in Trips, task[k].trip = t, CancelStep(k, t)
  PROVE  SerialInv' /\ Obeys(k, t)
<1> USE DEF Setting
<1>1. CASE CancelUpdate(k, t)
  <2>1. /\ KnowsAt("cancel:update", task[k], row[t], pinKey[t], displayKey[t])
        /\ task[k].seen \in Statuses \ {"COMPLETED", "PAID", "CANCELED"}
        /\ TypeInv /\ TypeInv'
    BY <1>1, KnownAt DEF CancelUpdate, At, SeenAt
  <2>2. /\ row[t].status = task[k].seen
        /\ task[k].actor \in Admins \cup {Rider, row[t].driverId}
    BY <2>1 DEF KnowsAt, BeforeUpdate
  <2> DEFINE x == [task[k] EXCEPT !.at = "cancel:clearPin", !.actor = row[t].driverId]
  <2>3. x.at = "cancel:clearPin" /\ x.trip = t
    BY DEF SafetyInv, TypeInv, TasksTyped, WellTyped, TaskStates
  <2>4. task' = [task EXCEPT ![k] = x]
    BY <1>1 DEF CancelUpdate
  <2> HIDE DEF x
  <2>5. /\ TripFacts(t)' /\ row'[t].status = "CANCELED"
        /\ \A u \in Trips \ {t} : Quiet(u) /\ row'[u] = row[u]
        /\ TripOf(t)' = [SM(t)!Stamped("CANCELED") EXCEPT !.paymentIntentId = @]
    BY <1>1, StatusWritten DEF CancelUpdate
  <2>6. SerialInv'
    BY <2>3, <2>4, <2>5, OwnStep DEF KnowsAt, BeforeUpdate
  <2>7. SM(t)!handleCancel("system", None, None)
    BY <2>1, <2>2, <2>5, Mapped, NoneIsActor
       DEF SM!handleCancel, SM!CancellableStates, Statuses
  <2>8. SM(t)!Next
    BY <2>7, NoneIsActor DEF SM!Next
  <2>9. TripStep(t)
    BY <2>5, <2>8 DEF TripStep
  <2>10. task[k].actor \notin Admins \cup {Rider} => OfThisDriver(k, t)
    BY <1>1, <2>2 DEF OfThisDriver, CancelUpdate, At
  <2> QED BY <2>5, <2>6, <2>9, <2>10 DEF Obeys
<1>2. ASSUME NEW kept, CancelClearPin(k, t, kept)
      PROVE  SerialInv' /\ Obeys(k, t)
  <2>1. \A u \in Trips : Quiet(u)
    BY <1>2, ClearQuiet DEF CancelClearPin, SafetyInv
  <2>2. UNCHANGED row
    BY <1>2 DEF CancelClearPin
  <2> QED
    BY <1>2, <2>1, <2>2, GotoStill, SameRowsObey
       DEF CancelClearPin, KnowsAt, BeforeUpdate
<1>3. ASSUME NEW kept, CancelClearNoShow(k, t, kept)
      PROVE  SerialInv' /\ Obeys(k, t)
  BY <1>3, QuietAll, GotoStill, SameRowsObey
     DEF CancelClearNoShow, KnowsAt, BeforeUpdate, records
<1>4. CASE CancelAudit(k, t) \/ CancelRecord(k, t)
  BY <1>4, QuietAll, GotoStill, SameRowsObey
     DEF CancelAudit, CancelRecord, KnowsAt, BeforeUpdate, redis
<1>5. CASE CancelPublish(k, t)
  <2>1. \A u \in Trips : Quiet(u)
    BY <1>5, PublishQuiet DEF CancelPublish, Event
  <2> QED BY <1>5, <2>1, ReturnStill, SameRowsObey DEF CancelPublish
<1> QED BY <1>1, <1>2, <1>3, <1>4, <1>5 DEF CancelStep

LEMMA CapturedSerial ==
  ASSUME Setting, NEW k \in Tasks, NEW t \in Trips, task[k].trip = t, CapturedStep(k, t)
  PROVE  SerialInv' /\ Obeys(k, t)
<1> USE DEF Setting
<1>1. CASE CapturedUpdate(k, t)
  <2>1. /\ KnowsAt("captured:update", task[k], row[t], pinKey[t], displayKey[t])
        /\ task[k].seen = "COMPLETED" /\ task[k].intent \in Intents
        /\ intent[task[k].intent].status = "succeeded"
        /\ TypeInv /\ TypeInv'
    BY <1>1, KnownAt DEF CapturedUpdate, At, SeenAt, LocalsAt, Facts, CapturedPoints
  <2>2. /\ row[t].status = "COMPLETED" /\ row[t].paymentIntentId = task[k].intent
        /\ task[k].actor = None
    BY <2>1 DEF KnowsAt, BeforeUpdate
  <2>3. /\ TripFacts(t)' /\ row'[t].status = "PAID"
        /\ \A u \in Trips \ {t} : Quiet(u) /\ row'[u] = row[u]
        /\ TripOf(t)' =
             [SM(t)!Stamped("PAID") EXCEPT !.paymentIntentId = row[t].paymentIntentId]
    BY <1>1, <2>1, <2>2, StatusWritten DEF CapturedUpdate
  <2>4. SerialInv'
    BY <1>1, <2>3, GotoOwn DEF CapturedUpdate, KnowsAt, BeforeUpdate
  <2>5. SM(t)!handleMarkPaid(task[k].intent)
    BY <2>1, <2>2, <2>3, Mapped DEF SM!handleMarkPaid
  <2>6. SM(t)!Next
    BY <2>1, <2>5 DEF SM!Next
  <2>7. None \notin Drivers
    BY UseCasesAssumption
  <2>8. TripStep(t)
    BY <2>3, <2>6 DEF TripStep
  <2> QED BY <2>2, <2>3, <2>4, <2>7, <2>8 DEF Obeys
<1>2. CASE CapturedAudit(k, t)
  BY <1>2, QuietAll, GotoStill, SameRowsObey
     DEF CapturedAudit, KnowsAt, BeforeUpdate, redis
<1>3. CASE CapturedAck(k, t)
  BY <1>3, QuietAll, ReturnStill, SameRowsObey DEF CapturedAck, redis, records
<1> QED BY <1>1, <1>2, <1>3 DEF CapturedStep

-----------------------------------------------------------------------------
(* Beginnings, events, and what happens around the tasks. *)

LEMMA BeginSerial ==
  ASSUME Setting, NEW k \in Tasks, BeginSome(k)
  PROVE  SerialInv' /\ UNCHANGED row
<1> USE DEF Setting
<1> PICK t \in Trips :
      \/ BeginCreate(k, t)
      \/ \E d \in Drivers, p \in Pins : BeginAccept(k, t, d, p)
      \/ \E a \in Drivers \cup Admins, p \in Pins : BeginVerify(k, t, a, p)
      \/ \E a \in Drivers \cup Admins : BeginStart(k, t, a) \/ BeginComplete(k, t, a)
      \/ \E side \in {"rider", "driver", "system"},
            a \in Drivers \cup Admins \cup {Rider} : BeginCancel(k, t, side, a)
  BY DEF BeginSome
<1>1. ASSUME NEW x, Begin(k, x), UNCHANGED <<row, redis, records, payments>>,
             x.trip = t, KnowsAt(x.at, x, row[t], pinKey[t], displayKey[t])
      PROVE  SerialInv' /\ UNCHANGED row
  <2>1. UNCHANGED <<row, pinKey, displayKey, published>>
    BY <1>1 DEF redis, records
  <2> QED BY <1>1, <2>1, QuietAll, StillStep DEF Begin
<1>2. CASE BeginCreate(k, t)
  <2> DEFINE x == NewTask("create:insert", t)
  <2>1. x.at = "create:insert" /\ x.trip = t /\ x.seen = row[t].status /\ x.actor = None
    BY DEF NewTask, Idle, Status
  <2>2. KnowsAt(x.at, x, row[t], pinKey[t], displayKey[t])
    BY <2>1 DEF KnowsAt
  <2> QED BY <1>1, <1>2, <2>1, <2>2 DEF BeginCreate
<1>3. ASSUME NEW d \in Drivers, NEW p \in Pins, BeginAccept(k, t, d, p)
      PROVE  SerialInv' /\ UNCHANGED row
  <2> DEFINE x == [NewTask("accept:setPin", t) EXCEPT !.actor = d, !.pin = p]
  <2>1. x.at = "accept:setPin" /\ x.trip = t /\ x.seen = row[t].status
    BY DEF NewTask, Idle, Status
  <2>2. KnowsAt(x.at, x, row[t], pinKey[t], displayKey[t])
    BY <2>1 DEF KnowsAt
  <2> QED BY <1>1, <1>3, <2>1, <2>2 DEF BeginAccept
<1>4. ASSUME NEW a \in Drivers \cup Admins, NEW p \in Pins, BeginVerify(k, t, a, p)
      PROVE  SerialInv' /\ UNCHANGED row
  <2> DEFINE x == [NewTask("verify:validatePin", t) EXCEPT !.actor = a, !.pin = p]
  <2>1. /\ x.at = "verify:validatePin" /\ x.trip = t /\ x.seen = row[t].status
        /\ x.actor = a
    BY DEF NewTask, Idle, Status
  <2>2. KnowsAt(x.at, x, row[t], pinKey[t], displayKey[t])
    BY <1>4, <2>1 DEF KnowsAt, BeginVerify, MayAct
  <2> QED BY <1>1, <1>4, <2>1, <2>2 DEF BeginVerify
<1>5. ASSUME NEW a \in Drivers \cup Admins, BeginStart(k, t, a)
      PROVE  SerialInv' /\ UNCHANGED row
  <2> DEFINE x == [NewTask("start:update", t) EXCEPT !.actor = a]
  <2>1. /\ x.at = "start:update" /\ x.trip = t /\ x.seen = row[t].status
        /\ x.actor = a
    BY DEF NewTask, Idle, Status
  <2>2. KnowsAt(x.at, x, row[t], pinKey[t], displayKey[t])
    BY <1>5, <2>1 DEF KnowsAt, BeginStart, MayAct
  <2> QED BY <1>1, <1>5, <2>1, <2>2 DEF BeginStart
<1>6. ASSUME NEW a \in Drivers \cup Admins, BeginComplete(k, t, a)
      PROVE  SerialInv' /\ UNCHANGED row
  <2> DEFINE x == [NewTask("complete:createIntent", t) EXCEPT !.actor = a]
  <2>1. /\ x.at = "complete:createIntent" /\ x.trip = t /\ x.seen = row[t].status
        /\ x.actor = a
    BY DEF NewTask, Idle, Status
  <2>2. KnowsAt(x.at, x, row[t], pinKey[t], displayKey[t])
    BY <1>6, <2>1 DEF KnowsAt, BeginComplete, MayAct
  <2> QED BY <1>1, <1>6, <2>1, <2>2 DEF BeginComplete
<1>7. ASSUME NEW side, NEW a, BeginCancel(k, t, side, a)
      PROVE  SerialInv' /\ UNCHANGED row
  <2> DEFINE x == [NewTask("cancel:update", t) EXCEPT !.actor = a]
  <2>1. /\ x.at = "cancel:update" /\ x.trip = t /\ x.seen = row[t].status
        /\ x.actor = a
    BY DEF NewTask, Idle, Status
  <2>2. KnowsAt(x.at, x, row[t], pinKey[t], displayKey[t])
    BY <1>7, <2>1 DEF KnowsAt, BeginCancel, MayCancel
  <2> QED BY <1>1, <1>7, <2>1, <2>2 DEF BeginCancel
<1> QED BY <1>2, <1>3, <1>4, <1>5, <1>6, <1>7

LEMMA DeliverySerial ==
  ASSUME Setting, NEW k \in Tasks, NEW e \in inbox, BeginCaptured(k, e)
  PROVE  SerialInv' /\ UNCHANGED row
<1> USE DEF Setting
<1> DEFINE x == [NewTask("captured:update", e.trip) EXCEPT !.intent = e.intent]
<1>1. /\ x.at = "captured:update" /\ x.trip = e.trip
      /\ x.seen = row[e.trip].status /\ x.intent = e.intent /\ x.actor = None
  BY DEF NewTask, Idle, Status
<1>2. e.trip \in Trips /\ row[e.trip].paymentIntentId = e.intent
  BY DEF BeginCaptured, Payable, SafetyInv, TypeInv, PaymentsTyped, CapturedEvents
<1>3. KnowsAt(x.at, x, row[e.trip], pinKey[e.trip], displayKey[e.trip])
  BY <1>1, <1>2 DEF KnowsAt
<1>4. UNCHANGED <<row, pinKey, displayKey, published>> /\ task' = [task EXCEPT ![k] = x]
  BY DEF BeginCaptured, Begin, redis, records
<1> HIDE DEF x
<1> QED BY <1>1, <1>2, <1>3, <1>4, QuietAll, StillStep

LEMMA ExpireSerial ==
  ASSUME Setting, Expire
  PROVE  SerialInv' /\ UNCHANGED row
<1>1. UNCHANGED <<row, records, task>>
  BY DEF Expire, ExpirePin, ExpireDisplay, ExpireNoShow
<1>2. \A u \in Trips : Quiet(u)
  BY <1>1 DEF Expire, ExpirePin, ExpireDisplay, ExpireNoShow, Quiet, Assignments, records,
              Setting, SafetyInv, TypeInv, RedisTyped
<1> QED BY <1>1, <1>2, NobodyMoves DEF Setting

\* In a step either one task moves, writes its own trip at most, and obeys the state
\* machine, or no row changes.
LEMMA NextSerial ==
  ASSUME SafetyInv, SeenInv, SerialInv, NoOverlap, [Next]_vars
  PROVE  /\ SerialInv'
         /\ \/ UNCHANGED row
            \/ \E k \in Tasks, t \in Trips :
                 Obeys(k, t) /\ \A j \in Tasks \ {k} : task'[j] = task[j]
<1>1. Setting
  BY NextSafe DEF Setting
<1>2. ASSUME NEW k \in Tasks, Step(k)
      PROVE  SerialInv' /\ \E t \in Trips :
               Obeys(k, t) /\ \A j \in Tasks \ {k} : task'[j] = task[j]
  <2> PICK t \in Trips :
        /\ task[k].trip = t
        /\ \/ CreateStep(k, t) \/ AcceptStep(k, t) \/ VerifyStep(k, t)
           \/ StartStep(k, t) \/ CompleteStep(k, t) \/ CancelStep(k, t)
           \/ CapturedStep(k, t)
    BY <1>2 DEF Step
  <2>1. SerialInv' /\ Obeys(k, t)
    BY <1>1, CreateSerial, AcceptSerial, VerifySerial, StartSerial, CompleteSerial,
       CancelSerial, CapturedSerial
  <2>2. Follows(k)
    BY CreateFollows, AcceptFollows, VerifyFollows, StartFollows, CompleteFollows,
       CancelFollows, CapturedFollows DEF SafetyInv
  <2> QED BY <2>1, <2>2 DEF Follows
<1>3. ASSUME NEW k \in Tasks, BeginSome(k)
      PROVE  SerialInv' /\ UNCHANGED row
  BY <1>1, <1>3, BeginSerial
<1>4. ASSUME NEW k \in Tasks, Abort(k)
      PROVE  SerialInv' /\ UNCHANGED row
  BY <1>1, <1>4, QuietAll, ReturnStill DEF Abort, Setting, redis, records
<1>5. ASSUME NEW k \in Tasks, NEW e \in inbox, BeginCaptured(k, e)
      PROVE  SerialInv' /\ UNCHANGED row
  BY <1>1, <1>5, DeliverySerial
<1>6. ASSUME UNCHANGED <<row, pinKey, displayKey, published, task>>
      PROVE  SerialInv' /\ UNCHANGED row
  BY <1>1, <1>6, QuietAll, NobodyMoves DEF Setting
<1>7. ASSUME NEW k \in Tasks, NEW e \in inbox, DropCaptured(k, e)
      PROVE  UNCHANGED <<row, pinKey, displayKey, published, task>>
  BY <1>7 DEF DropCaptured, redis, records
<1>8. ASSUME NEW i \in Intents, Capture(i)
      PROVE  UNCHANGED <<row, pinKey, displayKey, published, task>>
  BY <1>8 DEF Capture, redis, records
<1>9. ASSUME Expire
      PROVE  SerialInv' /\ UNCHANGED row
  BY <1>1, <1>9, ExpireSerial
<1>10. ASSUME UNCHANGED vars
       PROVE  UNCHANGED <<row, pinKey, displayKey, published, task>>
  BY <1>10 DEF vars, redis, records
<1> QED BY <1>2, <1>3, <1>4, <1>5, <1>6, <1>7, <1>8, <1>9, <1>10 DEF Next

LEMMA InitSerial == Init => SerialInv
<1> SUFFICES ASSUME Init PROVE SerialInv
  OBVIOUS
<1>1. \A k \in Tasks : Knows(k)
  BY DEF Init, Knows, Idle
<1>2. ASSUME NEW t \in Trips PROVE TripFacts(t)
  <2>1. /\ row[t].status \in {None, "REQUESTED"} /\ row[t].driverId = None
        /\ pinKey[t] = None /\ Assignments(t) = {}
    BY DEF Init, NoRow, RequestedRow, Assignments
  <2>2. "PAID" # None
    BY UseCasesAssumption DEF Statuses
  <2> QED BY <2>1, <2>2 DEF TripFacts, OnePinFor, PaidByOwn, Unassigned
<1> QED BY <1>1, <1>2 DEF SerialInv

AllInv == SafetyInv /\ SeenInv /\ SerialInv

LEMMA Serial == Spec /\ []NoOverlap => []AllInv
<1>1. Init => AllInv
  BY InitSafe, InitSeen, InitSerial DEF AllInv
<1>2. AllInv /\ NoOverlap /\ [Next]_vars => AllInv'
  BY NextSafe, NextFollows, NextSerial DEF AllInv, SafetyInv
<1> QED BY <1>1, <1>2, PTL DEF Spec

\* As long as the requests about a trip do not overlap, however many run at the same
\* time about different trips and whatever fails, the use cases implement the state
\* machine they do not call: each trip only makes its steps, with its guards on driver,
\* payment intent and timestamps, and is requested once.
THEOREM LifecycleCorrect == Spec /\ []NoOverlap => Lifecycle
<1> DEFINE A == \A t \in Trips : TripStep(t) \/ UNCHANGED TripOf(t)
<1>1. Init => \A t \in Trips \ Existing : SM(t)!Init
  <2> SUFFICES ASSUME Init, NEW t \in Trips \ Existing PROVE SM(t)!Init
    OBVIOUS
  <2>1. row[t] = NoRow
    BY DEF Init
  <2> QED BY <2>1 DEF SM!Init, SM!NoTrip, TripOf, NoRow
<1>2. AllInv /\ NoOverlap /\ [Next]_vars => [A]_vars
  <2> SUFFICES ASSUME AllInv, NoOverlap, [Next]_vars, NEW t \in Trips
               PROVE  TripStep(t) \/ UNCHANGED TripOf(t)
    OBVIOUS
  <2>1. row'[t] = row[t] => UNCHANGED TripOf(t)
    BY DEF TripOf
  <2> QED BY <2>1, NextSerial DEF AllInv, Obeys
<1> HIDE DEF A
<1>3. Spec /\ []NoOverlap => [][A]_vars
  BY <1>2, Serial, PTL DEF Spec
<1> QED BY <1>1, <1>3, PTL DEF A, Lifecycle, Spec

\* As long as the requests about a trip do not overlap, a driver's verification, start,
\* completion or cancellation changes a row only if the row names this driver, and its
\* acceptance only a row that names nobody: the driver check each use case makes on
\* what it read.  A driver is no admin, and not the rider of the trip: these two may
\* change it too.
THEOREM DriverOfTheRowCorrect ==
  Spec /\ []NoOverlap /\ Drivers \cap (Admins \cup {Rider}) = {} => ChangedByItsDriver
<1> DEFINE D == Drivers \cap (Admins \cup {Rider}) = {}
           A == \A k \in Tasks, t \in Trips :
                  (task'[k] # task[k] /\ row'[t] # row[t] /\ task[k].actor \in Drivers)
                    => IF task[k].at = "accept:update" THEN row[t].driverId = None
                       ELSE row[t].driverId = task[k].actor
<1>1. D /\ AllInv /\ NoOverlap /\ [Next]_vars => [A]_vars
  <2> SUFFICES ASSUME D, AllInv, NoOverlap, [Next]_vars, NEW k \in Tasks, NEW t \in Trips,
                      task'[k] # task[k], row'[t] # row[t], task[k].actor \in Drivers
               PROVE  OfThisDriver(k, t)
    BY DEF OfThisDriver
  <2>1. PICK j \in Tasks, u \in Trips :
          Obeys(j, u) /\ \A i \in Tasks \ {j} : task'[i] = task[i]
    BY NextSerial DEF AllInv
  <2>2. j = k /\ u = t
    BY <2>1 DEF Obeys
  <2> QED BY <2>1, <2>2 DEF Obeys
<1>2. D => D'
  OBVIOUS
<1> HIDE DEF A, D
<1>3. Spec /\ []NoOverlap /\ D => [][A]_vars
  BY <1>1, <1>2, Serial, PTL DEF Spec
<1> QED BY <1>3 DEF A, D, ChangedByItsDriver

\* As long as the requests about a trip do not overlap, the PIN the driver has to
\* type, the one the rider sees and the one pushed with trip.assigned are the same,
\* whatever expires and whichever await fails.
THEOREM OnePinCorrect == Spec /\ []NoOverlap => []OnePinPerAssignment
<1>1. AllInv => OnePinPerAssignment
  BY DEF AllInv, SerialInv, TripFacts, OnePinFor, OnePinPerAssignment, Assignments, Status
<1> QED BY Serial, <1>1, PTL

\* As long as the requests and events about a trip do not overlap, a paid trip was
\* paid with the intent its row names.
THEOREM PaidByItsOwnCorrect == Spec /\ []NoOverlap => []PaidByItsOwnIntent
<1>1. AllInv => PaidByItsOwnIntent
  BY DEF AllInv, SerialInv, TripFacts, PaidByOwn, PaidByItsOwnIntent, Status
<1> QED BY Serial, <1>1, PTL

-----------------------------------------------------------------------------
(* The captured events. *)

\* If intent i is captured, its event for trip t waits in the inbox.
Owed(t, i) ==
  (i \in Intents /\ intent[i].status = "succeeded") =>
    [trip |-> t, intent |-> i] \in inbox

\* The event of a completed trip waits, and waits already when the completion is
\* about to be written.  It is acknowledged when the trip is PAID.
RowKept(t) == row[t].status = "COMPLETED" => Owed(t, row[t].paymentIntentId)

TaskKept(k) ==
  /\ task[k].at = "complete:update" => Owed(task[k].trip, task[k].intent)
  /\ task[k].at \in {"captured:audit", "captured:ack"} => row[task[k].trip].status = "PAID"

KeptInv == (\A t \in Trips : RowKept(t)) /\ (\A k \in Tasks : TaskKept(k))

\* A delivery that is dropped was an execution about its trip too: it does not happen
\* while another one is about this trip.
DroppedAlone ==
  \A k \in Tasks, e \in inbox :
    DropCaptured(k, e) => \A j \in Tasks : task[j].trip # e.trip

\* Task k moves, its own trip t may be written, and no intent or event.
LEMMA OwnKept ==
  ASSUME KeptInv, TaskFacts, NoOverlap, UNCHANGED payments,
         NEW k \in Tasks, NEW t \in Trips, task[k].trip = t,
         \A u \in Trips \ {t} : row'[u] = row[u],
         \A j \in Tasks \ {k} : task'[j] = task[j],
         RowKept(t)', TaskKept(k)'
  PROVE  KeptInv'
<1>1. ASSUME NEW u \in Trips PROVE RowKept(u)'
  BY DEF KeptInv, RowKept, Owed, payments
<1>2. ASSUME NEW j \in Tasks PROVE TaskKept(j)'
  <2>1. CASE j = k
    BY <2>1
  <2>2. CASE j # k
    <3>1. task'[j] = task[j]
      BY <2>2
    <3>2. task[j].at # "idle" => task[j].trip \in Trips \ {t}
      BY <2>2 DEF TaskFacts, Facts, NoOverlap
    <3> QED BY <3>1, <3>2 DEF KeptInv, TaskKept, Owed, payments
  <2> QED BY <2>1, <2>2
<1> QED BY <1>1, <1>2 DEF KeptInv

\* Task k moves, and nothing that matters is written.
LEMMA StillKept ==
  ASSUME KeptInv, UNCHANGED <<row, payments>>, NEW k \in Tasks,
         \A j \in Tasks \ {k} : task'[j] = task[j], TaskKept(k)'
  PROVE  KeptInv'
<1>1. ASSUME NEW u \in Trips PROVE RowKept(u)'
  BY DEF KeptInv, RowKept, Owed, payments
<1>2. ASSUME NEW j \in Tasks PROVE TaskKept(j)'
  <2>1. CASE j = k
    BY <2>1
  <2>2. CASE j # k
    BY <2>2 DEF KeptInv, TaskKept, Owed, payments
  <2> QED BY <2>1, <2>2
<1> QED BY <1>1, <1>2 DEF KeptInv

\* An intent is issued; task k may take it along.
LEMMA IssueKept ==
  ASSUME KeptInv, TypeInv, UNCHANGED <<row, inbox>>, NEW k \in Tasks,
         NEW t, NEW i \in Intents, IssueIntent(t, i),
         \A j \in Tasks \ {k} : task'[j] = task[j],
         \/ task'[k] = task[k]
         \/ task'[k].at = "complete:update" /\ task'[k].intent = i
  PROVE  KeptInv'
<1>1. \A j \in Intents : intent'[j] = IF j = i THEN [trip |-> t, status |-> "created"]
                                               ELSE intent[j]
  BY DEF IssueIntent, TypeInv, PaymentsTyped
<1>2. \A u, j : Owed(u, j) => Owed(u, j)'
  BY <1>1 DEF Owed
<1>3. \A u : Owed(u, i)'
  BY <1>1 DEF Owed
<1>4. ASSUME NEW u \in Trips PROVE RowKept(u)'
  BY <1>2 DEF KeptInv, RowKept
<1>5. ASSUME NEW j \in Tasks PROVE TaskKept(j)'
  <2>1. CASE task'[j] = task[j]
    BY <1>2, <2>1 DEF KeptInv, TaskKept
  <2>2. CASE j = k /\ task'[k].at = "complete:update" /\ task'[k].intent = i
    BY <1>3, <2>2 DEF TaskKept
  <2> QED BY <2>1, <2>2
<1> QED BY <1>4, <1>5 DEF KeptInv

\* The steps that write neither COMPLETED nor PAID, nor intents and events, and after
\* which the task is at none of the points above.
Plain(k, t) ==
  /\ UNCHANGED payments
  /\ \A u \in Trips \ {t} : row'[u] = row[u]
  /\ row'[t] = row[t] \/ row'[t].status # "COMPLETED"
  /\ task'[k].at \notin {"complete:update", "captured:audit", "captured:ack"}

LEMMA PlainSteps ==
  ASSUME TypeInv, NEW k \in Tasks, NEW t \in Trips,
         \/ CreateStep(k, t) \/ AcceptStep(k, t) \/ VerifyStep(k, t)
         \/ StartStep(k, t) \/ CancelStep(k, t)
         \/ CompleteAudit(k, t) \/ CompletePublish(k, t)
  PROVE  Plain(k, t)
<1> DEFINE points == {"complete:update", "captured:audit", "captured:ack"}
<1>1. task[k] \in TaskStates /\ row[t] \in Rows
  BY DEF TypeInv, TasksTyped, WellTyped, RowsTyped
<1>2. \A p : Goto(k, p) => task'[k].at = p
  BY <1>1 DEF Goto, TaskStates, TypeInv, TasksTyped
<1>3. Return(k) => task'[k].at = "idle"
  BY DEF Return, Idle, TypeInv, TasksTyped
<1>4. ASSUME NEW r, Update(t, r), r.status # "COMPLETED"
      PROVE  /\ \A u \in Trips \ {t} : row'[u] = row[u]
             /\ row'[t].status # "COMPLETED"
  BY <1>4 DEF Update, TypeInv, RowsTyped
<1>5. CASE CreateStep(k, t)
  <2>1. ASSUME NEW known \in BOOLEAN, CreateInsert(k, t, known)
        PROVE  Plain(k, t)
    <3> DEFINE r == [Stamped(t, "REQUESTED") EXCEPT !.h3 = known]
    <3>1. r.status # "COMPLETED" /\ Update(t, r)
      BY <2>1, StampedStatus DEF CreateInsert
    <3> HIDE DEF r
    <3> QED BY <1>2, <1>4, <2>1, <3>1 DEF CreateInsert, Plain
  <2>2. CASE CreateAudit(k, t) \/ CreatePublish(k, t)
    BY <1>2, <1>3, <2>2 DEF CreateAudit, CreatePublish, Plain
  <2> QED BY <1>5, <2>1, <2>2 DEF CreateStep
<1>6. CASE AcceptStep(k, t)
  <2>1. CASE AcceptUpdate(k, t)
    <3> DEFINE r == [Stamped(t, "ASSIGNED") EXCEPT !.driverId = task[k].actor]
    <3>1. r.status # "COMPLETED" /\ Update(t, r)
      BY <2>1, StampedStatus DEF AcceptUpdate
    <3> HIDE DEF r
    <3> QED BY <1>2, <1>4, <2>1, <3>1 DEF AcceptUpdate, Plain
  <2>2. CASE AcceptSetPin(k, t) \/ AcceptSetDisplay(k, t) \/ AcceptRiderNoShow(k, t)
    BY <1>2, <2>2 DEF AcceptSetPin, AcceptSetDisplay, AcceptRiderNoShow, Plain
  <2>3. CASE AcceptAudit(k, t) \/ AcceptPublish(k, t)
    BY <1>2, <1>3, <2>3 DEF AcceptAudit, AcceptPublish, Plain
  <2> QED BY <1>6, <2>1, <2>2, <2>3 DEF AcceptStep
<1>7. CASE VerifyStep(k, t)
  <2>1. CASE VerifyUpdate(k, t)
    BY <1>2, <1>4, <2>1, StampedStatus DEF VerifyUpdate, Plain
  <2>2. CASE VerifyValidatePin(k, t) \/ VerifyDriverNoShow(k, t) \/ VerifyAudit(k, t)
    BY <1>2, <1>3, <2>2 DEF VerifyValidatePin, VerifyDriverNoShow, VerifyAudit, Plain
  <2>3. ASSUME NEW kept, VerifyClearNoShow(k, t, kept) \/ VerifyClearPin(k, t, kept)
        PROVE  Plain(k, t)
    BY <1>2, <1>3, <2>3 DEF VerifyClearNoShow, VerifyClearPin, Plain
  <2> QED BY <1>7, <2>1, <2>2, <2>3 DEF VerifyStep
<1>8. CASE StartStep(k, t)
  <2>1. CASE StartUpdate(k, t)
    BY <1>2, <1>4, <2>1, StampedStatus DEF StartUpdate, Plain
  <2>2. ASSUME NEW kept, StartClearNoShow(k, t, kept) \/ StartAudit(k, t)
        PROVE  Plain(k, t)
    BY <1>2, <1>3, <2>2 DEF StartClearNoShow, StartAudit, Plain
  <2> QED BY <1>8, <2>1, <2>2 DEF StartStep
<1>9. CASE CancelStep(k, t)
  <2>1. CASE CancelUpdate(k, t)
    <3>1. task'[k].at = "cancel:clearPin"
      BY <1>1, <2>1 DEF CancelUpdate, TaskStates, TypeInv, TasksTyped
    <3> QED BY <1>4, <2>1, <3>1, StampedStatus DEF CancelUpdate, Plain
  <2>2. ASSUME NEW kept, CancelClearPin(k, t, kept) \/ CancelClearNoShow(k, t, kept)
        PROVE  Plain(k, t)
    BY <1>2, <2>2 DEF CancelClearPin, CancelClearNoShow, Plain
  <2>3. CASE CancelAudit(k, t) \/ CancelRecord(k, t) \/ CancelPublish(k, t)
    BY <1>2, <1>3, <2>3 DEF CancelAudit, CancelRecord, CancelPublish, Plain
  <2> QED BY <1>9, <2>1, <2>2, <2>3 DEF CancelStep
<1>10. CASE CompleteAudit(k, t) \/ CompletePublish(k, t)
  BY <1>2, <1>3, <1>10 DEF CompleteAudit, CompletePublish, Plain
<1> QED BY <1>5, <1>6, <1>7, <1>8, <1>9, <1>10

\* A new task is at none of these points.
LEMMA BeginsPlain ==
  ASSUME NEW k, BeginSome(k)
  PROVE  \E x : Begin(k, x) /\ x.at \notin {"complete:update", "captured:audit", "captured:ack"}
<1> DEFINE places == {"complete:update", "captured:audit", "captured:ack"}
<1> PICK t \in Trips :
      \/ BeginCreate(k, t)
      \/ \E d \in Drivers, p \in Pins : BeginAccept(k, t, d, p)
      \/ \E a \in Drivers \cup Admins, p \in Pins : BeginVerify(k, t, a, p)
      \/ \E a \in Drivers \cup Admins : BeginStart(k, t, a) \/ BeginComplete(k, t, a)
      \/ \E side \in {"rider", "driver", "system"},
            a \in Drivers \cup Admins \cup {Rider} : BeginCancel(k, t, side, a)
  BY DEF BeginSome
<1>1. CASE BeginCreate(k, t)
  <2>1. NewTask("create:insert", t).at = "create:insert"
    BY DEF NewTask, Idle
  <2> QED BY <1>1, <2>1 DEF BeginCreate
<1>2. ASSUME NEW d, NEW p, BeginAccept(k, t, d, p)
      PROVE  \E x : Begin(k, x) /\ x.at \notin places
  <2> DEFINE x == [NewTask("accept:setPin", t) EXCEPT !.actor = d, !.pin = p]
  <2>1. x.at = "accept:setPin"
    BY DEF NewTask, Idle
  <2> QED BY <1>2, <2>1 DEF BeginAccept
<1>3. ASSUME NEW a, NEW p, BeginVerify(k, t, a, p)
      PROVE  \E x : Begin(k, x) /\ x.at \notin places
  <2> DEFINE x == [NewTask("verify:validatePin", t) EXCEPT !.actor = a, !.pin = p]
  <2>1. x.at = "verify:validatePin"
    BY DEF NewTask, Idle
  <2> QED BY <1>3, <2>1 DEF BeginVerify
<1>4. ASSUME NEW a, BeginStart(k, t, a)
      PROVE  \E x : Begin(k, x) /\ x.at \notin places
  <2> DEFINE x == [NewTask("start:update", t) EXCEPT !.actor = a]
  <2>1. x.at = "start:update"
    BY DEF NewTask, Idle
  <2> QED BY <1>4, <2>1 DEF BeginStart
<1>5. ASSUME NEW a, BeginComplete(k, t, a)
      PROVE  \E x : Begin(k, x) /\ x.at \notin places
  <2> DEFINE x == [NewTask("complete:createIntent", t) EXCEPT !.actor = a]
  <2>1. x.at = "complete:createIntent"
    BY DEF NewTask, Idle
  <2> QED BY <1>5, <2>1 DEF BeginComplete
<1>6. ASSUME NEW side, NEW a, BeginCancel(k, t, side, a)
      PROVE  \E x : Begin(k, x) /\ x.at \notin places
  <2> DEFINE x == [NewTask("cancel:update", t) EXCEPT !.actor = a]
  <2>1. x.at = "cancel:update"
    BY DEF NewTask, Idle
  <2> QED BY <1>6, <2>1 DEF BeginCancel
<1> QED BY <1>1, <1>2, <1>3, <1>4, <1>5, <1>6

LEMMA PlainKept ==
  ASSUME KeptInv, TaskFacts, NoOverlap, NEW k \in Tasks, NEW t \in Trips,
         task[k].trip = t, Follows(k), Plain(k, t)
  PROVE  KeptInv'
<1>1. RowKept(t)'
  BY DEF KeptInv, RowKept, Owed, Plain, payments
<1>2. TaskKept(k)'
  BY DEF Plain, TaskKept
<1> QED BY <1>1, <1>2, OwnKept DEF Follows, Plain

LEMMA CompleteKept ==
  ASSUME KeptInv, SafetyInv, NoOverlap, NEW k \in Tasks, NEW t \in Trips,
         task[k].trip = t, Follows(k), CompleteStep(k, t)
  PROVE  KeptInv'
<1>0. TypeInv /\ task[k] \in TaskStates
  BY DEF SafetyInv, TypeInv, TasksTyped, WellTyped
<1>1. ASSUME NEW i \in Intents, CompleteCreateIntent(k, t, i)
      PROVE  KeptInv'
  <2>1. task'[k].at = "complete:update" /\ task'[k].intent = i
    BY <1>0, <1>1 DEF CompleteCreateIntent, TaskStates, TypeInv, TasksTyped
  <2> QED BY <1>0, <1>1, <2>1, IssueKept DEF CompleteCreateIntent, Follows
<1>2. ASSUME NEW i \in Intents, CompleteIntentLost(k, t, i)
      PROVE  KeptInv'
  BY <1>0, <1>2, IssueKept DEF CompleteIntentLost
<1>3. CASE CompleteUpdate(k, t)
  <2> DEFINE r == [Stamped(t, "COMPLETED") EXCEPT !.paymentIntentId = task[k].intent]
  <2>1. r.paymentIntentId = task[k].intent
    BY <1>0, StampedColumns
  <2>2. Update(t, r) /\ UNCHANGED payments
    BY <1>3 DEF CompleteUpdate
  <2> HIDE DEF r
  <2>3. row'[t] = r /\ \A u \in Trips \ {t} : row'[u] = row[u]
    BY <1>0, <2>2 DEF Update, TypeInv, RowsTyped
  <2>4. Owed(t, task[k].intent)
    BY <1>3 DEF KeptInv, TaskKept, CompleteUpdate, At
  <2>5. RowKept(t)'
    BY <2>1, <2>2, <2>3, <2>4 DEF RowKept, Owed, payments
  <2>6. task'[k].at = "complete:audit"
    BY <1>0, <1>3 DEF CompleteUpdate, TaskStates, TypeInv, TasksTyped
  <2>7. TaskKept(k)'
    BY <2>6 DEF TaskKept
  <2> QED BY <2>2, <2>3, <2>5, <2>7, OwnKept DEF Follows, SafetyInv
<1>4. CASE CompleteAudit(k, t) \/ CompletePublish(k, t)
  BY <1>0, <1>4, PlainSteps, PlainKept DEF SafetyInv
<1> QED BY <1>1, <1>2, <1>3, <1>4 DEF CompleteStep

LEMMA CapturedKept ==
  ASSUME KeptInv, SafetyInv, NoOverlap, NEW k \in Tasks, NEW t \in Trips,
         task[k].trip = t, Follows(k), CapturedStep(k, t)
  PROVE  KeptInv'
<1>0. TypeInv /\ TaskFacts /\ task[k] \in TaskStates
  BY DEF SafetyInv, TypeInv, TasksTyped, WellTyped
<1>g. \A p : Goto(k, p) => task'[k].at = p /\ task'[k].trip = t
  BY <1>0 DEF Goto, TaskStates, TypeInv, TasksTyped
<1>1. CASE CapturedUpdate(k, t)
  <2>1. Update(t, Stamped(t, "PAID")) /\ UNCHANGED payments
    BY <1>1 DEF CapturedUpdate
  <2>2. row'[t].status = "PAID" /\ \A u \in Trips \ {t} : row'[u] = row[u]
    BY <1>0, <2>1, StampedStatus DEF Update, TypeInv, RowsTyped
  <2>3. RowKept(t)'
    BY <2>2 DEF RowKept
  <2>4. TaskKept(k)'
    BY <1>1, <1>g, <2>2 DEF CapturedUpdate, TaskKept
  <2> QED BY <1>0, <2>1, <2>2, <2>3, <2>4, OwnKept DEF Follows
<1>2. CASE CapturedAudit(k, t)
  <2>1. UNCHANGED <<row, payments>> /\ row[t].status = "PAID"
    BY <1>2 DEF CapturedAudit, KeptInv, TaskKept, At
  <2>2. TaskKept(k)'
    BY <1>2, <1>g, <2>1 DEF CapturedAudit, TaskKept
  <2> QED BY <2>1, <2>2, StillKept DEF Follows
<1>3. CASE CapturedAck(k, t)
  <2>1. /\ inbox' = inbox \ {[trip |-> t, intent |-> task[k].intent]}
        /\ UNCHANGED <<row, intent>> /\ row[t].status = "PAID"
        /\ task'[k].at = "idle"
    BY <1>0, <1>3 DEF CapturedAck, KeptInv, TaskKept, At, Return, Idle, TypeInv, TasksTyped
  <2>2. \A u, i : u # t /\ Owed(u, i) => Owed(u, i)'
    BY <2>1 DEF Owed
  <2>3. ASSUME NEW u \in Trips PROVE RowKept(u)'
    BY <2>1, <2>2 DEF KeptInv, RowKept
  <2>4. ASSUME NEW j \in Tasks PROVE TaskKept(j)'
    <3>1. CASE j = k
      BY <2>1, <3>1 DEF TaskKept
    <3>2. CASE j # k
      <4>1. task'[j] = task[j]
        BY <3>2 DEF Follows
      <4>2. task[j].at # "idle" => task[j].trip # t
        BY <1>0, <3>2 DEF TaskFacts, Facts, NoOverlap
      <4> QED BY <2>1, <2>2, <4>1, <4>2 DEF KeptInv, TaskKept
    <3> QED BY <3>1, <3>2
  <2> QED BY <2>3, <2>4 DEF KeptInv
<1> QED BY <1>1, <1>2, <1>3 DEF CapturedStep

LEMMA CaptureKept ==
  ASSUME KeptInv, SafetyInv, NEW i \in Intents, Capture(i)
  PROVE  KeptInv'
<1>0. UNCHANGED <<row, task>>
  BY DEF Capture
<1>1. \A j \in Intents \ {i} : intent'[j] = intent[j]
  BY DEF Capture, SafetyInv, TypeInv, PaymentsTyped
<1>2. \A u, j : (Owed(u, j) /\ (j = i => intent[i].trip = u)) => Owed(u, j)'
  BY <1>1 DEF Owed, Capture
<1>3. ASSUME NEW u \in Trips PROVE RowKept(u)'
  <2> SUFFICES ASSUME row[u].status = "COMPLETED",
                      NEW p, p = row[u].paymentIntentId
               PROVE  Owed(u, p)'
    BY <1>0 DEF RowKept, Owed
  <2>1. "COMPLETED" \in row[u].stamps
    <3>1. "COMPLETED" # None
      BY UseCasesAssumption DEF Statuses
    <3> QED BY <3>1 DEF SafetyInv, RowInv, TimestampsHaveCauses, Status
  <2>2. intent[row[u].paymentIntentId].trip = u
    BY <2>1 DEF SafetyInv, MoneyInv, MoneyTrail
  <2>3. Owed(u, row[u].paymentIntentId)
    BY DEF KeptInv, RowKept
  <2> QED BY <1>2, <2>2, <2>3
<1>4. ASSUME NEW j \in Tasks PROVE TaskKept(j)'
  <2>1. task[j].at = "complete:update" => intent[task[j].intent].trip = task[j].trip
    BY DEF SafetyInv, TaskFacts, Facts, ChargePoints
  <2> QED BY <1>0, <1>2, <2>1 DEF KeptInv, TaskKept
<1> QED BY <1>3, <1>4 DEF KeptInv

LEMMA DropKept ==
  ASSUME KeptInv, SafetyInv, NEW k \in Tasks, NEW e \in inbox, DropCaptured(k, e),
         DroppedAlone
  PROVE  KeptInv'
<1>1. UNCHANGED <<row, intent, task>> /\ inbox' = inbox \ {e} /\ ~Payable(e)
  BY DEF DropCaptured
<1>2. \A u, i : (Owed(u, i) /\ e # [trip |-> u, intent |-> i]) => Owed(u, i)'
  BY <1>1 DEF Owed
<1>3. ASSUME NEW u \in Trips PROVE RowKept(u)'
  <2>1. row[u].status = "COMPLETED" => e # [trip |-> u, intent |-> row[u].paymentIntentId]
    BY <1>1 DEF Payable, Status
  <2> QED BY <1>1, <1>2, <2>1 DEF KeptInv, RowKept
<1>4. ASSUME NEW j \in Tasks PROVE TaskKept(j)'
  <2>1. task[j].trip # e.trip
    BY DEF DroppedAlone
  <2> QED BY <1>1, <1>2, <2>1 DEF KeptInv, TaskKept
<1> QED BY <1>3, <1>4 DEF KeptInv

LEMMA NextKept ==
  ASSUME AllInv, KeptInv, NoOverlap, [DroppedAlone]_vars, [Next]_vars
  PROVE  KeptInv'
<1>0. SafetyInv /\ SeenInv /\ TypeInv /\ TaskFacts
  BY DEF AllInv, SafetyInv
<1>1. ASSUME NEW k \in Tasks, Step(k)
      PROVE  KeptInv'
  <2> PICK t \in Trips :
        /\ task[k].trip = t
        /\ \/ CreateStep(k, t) \/ AcceptStep(k, t) \/ VerifyStep(k, t)
           \/ StartStep(k, t) \/ CompleteStep(k, t) \/ CancelStep(k, t)
           \/ CapturedStep(k, t)
    BY <1>1 DEF Step
  <2>1. Follows(k)
    BY <1>0, CreateFollows, AcceptFollows, VerifyFollows, StartFollows, CompleteFollows,
       CancelFollows, CapturedFollows
  <2> QED BY <1>0, <2>1, PlainSteps, PlainKept, CompleteKept, CapturedKept
<1>2. ASSUME NEW k \in Tasks, BeginSome(k) \/ Abort(k)
      PROVE  KeptInv'
  <2>1. UNCHANGED <<row, payments>>
    BY <1>2 DEF BeginSome, BeginCreate, BeginAccept, BeginVerify, BeginStart,
               BeginComplete, BeginCancel, Abort
  <2>2. \A j \in Tasks \ {k} : task'[j] = task[j]
    BY <1>0, <1>2, BeginFollows, ReturnSeen DEF Abort, Follows
  <2>3. task'[k].at \notin {"complete:update", "captured:audit", "captured:ack"}
    <3> DEFINE places == {"complete:update", "captured:audit", "captured:ack"}
    <3>1. \A x : Begin(k, x) /\ x.at \notin places => task'[k].at \notin places
      BY <1>0 DEF Begin, TypeInv, TasksTyped
    <3>2. BeginSome(k) => \E x : Begin(k, x) /\ x.at \notin places
      BY BeginsPlain
    <3>3. Abort(k) => task'[k].at = "idle"
      BY <1>0 DEF Abort, Return, Idle, TypeInv, TasksTyped
    <3> HIDE DEF places
    <3>4. "idle" \notin places
      BY DEF places
    <3>5. task'[k].at \notin places
      BY <1>2, <3>1, <3>2, <3>3, <3>4
    <3> QED BY <3>5 DEF places
  <2>4. TaskKept(k)'
    BY <2>3 DEF TaskKept
  <2> QED BY <2>1, <2>2, <2>4, StillKept
<1>3. ASSUME NEW k \in Tasks, NEW e \in inbox, BeginCaptured(k, e)
      PROVE  KeptInv'
  <2> DEFINE x == [NewTask("captured:update", e.trip) EXCEPT !.intent = e.intent]
  <2>1. x.at = "captured:update"
    BY DEF NewTask, Idle
  <2>2. task' = [task EXCEPT ![k] = x] /\ UNCHANGED <<row, payments>>
    BY <1>3 DEF BeginCaptured, Begin
  <2> HIDE DEF x
  <2>3. task'[k] = x /\ \A j \in Tasks \ {k} : task'[j] = task[j]
    BY <1>0, <2>2 DEF TypeInv, TasksTyped
  <2>4. TaskKept(k)'
    BY <2>1, <2>3 DEF TaskKept
  <2> QED BY <2>2, <2>3, <2>4, StillKept
<1>4. ASSUME NEW k \in Tasks, NEW e \in inbox, DropCaptured(k, e)
      PROVE  KeptInv'
  <2>1. inbox' # inbox
    BY <1>4 DEF DropCaptured
  <2>2. DroppedAlone
    BY <2>1 DEF vars, payments
  <2> QED BY <1>0, <1>4, <2>2, DropKept
<1>5. ASSUME NEW i \in Intents, Capture(i)
      PROVE  KeptInv'
  BY <1>0, <1>5, CaptureKept
<1>6. ASSUME UNCHANGED <<row, payments, task>>
      PROVE  KeptInv'
  BY <1>6 DEF KeptInv, RowKept, TaskKept, Owed, payments
<1>7. ASSUME Expire
      PROVE  UNCHANGED <<row, payments, task>>
  BY <1>7 DEF Expire, ExpirePin, ExpireDisplay, ExpireNoShow
<1>8. ASSUME UNCHANGED vars
      PROVE  UNCHANGED <<row, payments, task>>
  BY <1>8 DEF vars
<1> QED BY <1>1, <1>2, <1>3, <1>4, <1>5, <1>6, <1>7, <1>8 DEF Next

LEMMA InitKept == Init => KeptInv
<1> SUFFICES ASSUME Init PROVE KeptInv
  OBVIOUS
<1>1. \A i \in Intents : intent[i].status = "none"
  BY DEF Init, NoIntent
<1>2. \A k \in Tasks : task[k].at = "idle"
  BY DEF Init, Idle
<1> QED BY <1>1, <1>2 DEF KeptInv, RowKept, TaskKept, Owed

\* As long as the executions and the deliveries about a trip do not overlap, the
\* captured event of a completed trip waits until the trip is PAID, whichever await
\* fails and however often the process stops.
THEOREM CapturedIsKeptCorrect ==
  Spec /\ []NoOverlap /\ [][DroppedAlone]_vars => []CapturedIsKept
<1>1. Init => KeptInv
  BY InitKept
<1>2. AllInv /\ KeptInv /\ NoOverlap /\ [DroppedAlone]_vars /\ [Next]_vars => KeptInv'
  BY NextKept
<1>3. KeptInv => CapturedIsKept
  BY DEF KeptInv, RowKept, Owed, CapturedIsKept, Status
<1>4. Spec /\ []NoOverlap => []AllInv
  BY Serial
<1> QED BY <1>1, <1>2, <1>3, <1>4, PTL DEF Spec

-----------------------------------------------------------------------------
(* One execution at a time. *)

\* A process that runs one execution at a time has no overlap, and keeps what a race
\* would break without any further hypothesis.
THEOREM OneAtATime ==
  ASSUME NEW one, Tasks = {one}
  PROVE  Spec => /\ Lifecycle
                 /\ Drivers \cap (Admins \cup {Rider}) = {} => ChangedByItsDriver
                 /\ [](OnePinPerAssignment /\ PaidByItsOwnIntent /\ CapturedIsKept)
<1>1. NoOverlap
  BY DEF NoOverlap
<1>2. TypeInv => DroppedAlone
  <2> SUFFICES ASSUME TypeInv, NEW k \in Tasks, NEW e \in inbox, DropCaptured(k, e),
                      NEW j \in Tasks
               PROVE  task[j].trip # e.trip
    BY DEF DroppedAlone
  <2>1. task[j].trip = None
    BY DEF DropCaptured, Idle
  <2>2. e.trip \in Trips
    BY DEF TypeInv, PaymentsTyped, CapturedEvents
  <2> QED BY <2>1, <2>2, UseCasesAssumption
<1>3. Spec => []NoOverlap
  BY <1>1, PTL
<1>4. AllInv => TypeInv
  BY DEF AllInv, SafetyInv
<1>5. Spec => [][DroppedAlone]_vars
  BY <1>2, <1>3, <1>4, Serial, PTL
<1> QED
  BY <1>3, <1>5, LifecycleCorrect, DriverOfTheRowCorrect, OnePinCorrect,
     PaidByItsOwnCorrect, CapturedIsKeptCorrect, PTL
=============================================================================
