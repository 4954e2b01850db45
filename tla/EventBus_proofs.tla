----------------------------- MODULE EventBus_proofs -----------------------------
(***************************************************************************)
(* For any number of replicas, overlapping ticks, crashes and failures: no *)
(* message is lost between delivery and processing, and the bus implements *)
(* Inbox.                                                                  *)
(***************************************************************************)
EXTENDS EventBus, TLAPS

\* Without a group nothing was delivered.
NoGroupNoDelivery == ~group => cursor = 0

\* What is about to be acknowledged has been processed.
AckIsEarned ==
  \A t \in Ticks, m \in Nat :
    tick[t].at = "ack" /\ IsNextOf(m, t) => m \in processed

Inv == TypeOK /\ NoGroupNoDelivery /\ NothingLost /\ AckIsEarned

Delivered == (start + 1)..cursor

TickRecord(messages) ==
  [at : {"free", "process", "ack"}, by : Processes \cup {None}, batch : SUBSET messages]

LEMMA InitInv == Init => Inv
<1> SUFFICES ASSUME Init PROVE Inv
  OBVIOUS
<1>1. TypeOK
  <2>1. Len(<<>>) = 0 /\ <<>> \in Seq(Kinds) /\ 0 \in 0..0 /\ 0 \in Nat
    OBVIOUS
  <2>2. tick \in [Ticks -> TickRecord((start + 1)..cursor)]
    BY DEF Init, Free, TickRecord
  <2>3. \A t \in Ticks : tick[t].at = "free" <=> tick[t].batch = {}
    BY DEF Init, Free
  <2>4. boot \in [Processes -> BootPoints] /\ online \in [Processes -> BOOLEAN]
    BY DEF Init, BootPoints
  <2> QED BY <2>1, <2>2, <2>3, <2>4 DEF Init, TypeOK, TickRecord
<1>2. NoGroupNoDelivery /\ NothingLost /\ AckIsEarned
  BY DEF Init, NoGroupNoDelivery, NothingLost, AckIsEarned, Free
<1> QED BY <1>1, <1>2 DEF Inv

-----------------------------------------------------------------------------
\* A longer stream disturbs nothing.
LEMMA AddKeepsInv ==
  ASSUME Inv, NEW kind \in Kinds, Add(kind),
         UNCHANGED <<group, cursor, pending, rested, tick, history>>,
         boot' \in [Processes -> BootPoints], online' = online, crashes' = crashes
  PROVE  Inv'
<1> USE DEF history
<1>1. stream' \in Seq(Kinds) /\ Len(stream') = Len(stream) + 1
  BY DEF Inv, TypeOK, Add
<1>2. TypeOK'
  BY <1>1 DEF Inv, TypeOK
<1>3. NoGroupNoDelivery' /\ NothingLost' /\ AckIsEarned'
  BY DEF Inv, NoGroupNoDelivery, NothingLost, AckIsEarned, IsNextOf
<1> QED BY <1>2, <1>3 DEF Inv

\* Neither does a step of a replica that leaves the messages alone.
LEMMA ReplicaKeepsInv ==
  ASSUME Inv, UNCHANGED <<redis, history>>,
         boot' \in [Processes -> BootPoints], online' \in [Processes -> BOOLEAN],
         crashes' \in Nat,
         \/ tick' = tick
         \/ \E p \in Processes :
              tick' = [t \in Ticks |-> IF tick[t].by = p THEN Free ELSE tick[t]]
  PROVE  Inv'
<1> USE DEF redis, history
<1>f. Free \in TickRecord(Delivered) /\ Free.at = "free" /\ Free.batch = {}
  BY DEF TickRecord, Free
<1>t. /\ tick' \in [Ticks -> TickRecord(Delivered)]
      /\ \A t \in Ticks : tick'[t] = tick[t] \/ tick'[t] = Free
  <2>1. tick \in [Ticks -> TickRecord(Delivered)]
    BY DEF Inv, TypeOK, TickRecord, Delivered
  <2> QED BY <1>f, <2>1
<1>b. \A t \in Ticks : tick'[t].at = "free" <=> tick'[t].batch = {}
  BY <1>f, <1>t DEF Inv, TypeOK
<1>1. TypeOK'
  BY <1>t, <1>b DEF Inv, TypeOK, TickRecord, Delivered
<1>2. NoGroupNoDelivery' /\ NothingLost'
  BY DEF Inv, NoGroupNoDelivery, NothingLost
<1>3. AckIsEarned'
  BY <1>t DEF Inv, AckIsEarned, IsNextOf, Free
<1> QED BY <1>1, <1>2, <1>3 DEF Inv

LEMMA CreateGroupKeepsInv ==
  ASSUME Inv, NEW p \in Processes, CreateGroup(p)
  PROVE  Inv'
<1>1. boot' \in [Processes -> BootPoints]
  BY DEF Inv, TypeOK, CreateGroup, BootPoints
<1>2. CASE group
  <2>1. UNCHANGED <<stream, group, cursor, pending, rested, tick, online, crashes, history>>
    BY <1>2 DEF CreateGroup, history
  <2> QED BY <1>1, <2>1, ReplicaKeepsInv DEF Inv, TypeOK, redis
<1>3. CASE ~group
  <2>1. cursor = 0 /\ start = 0
    BY <1>3 DEF Inv, NoGroupNoDelivery, TypeOK
  <2>2. pending = {} /\ rested = {} /\ processed = {}
    BY <2>1 DEF Inv, TypeOK
  <2>3. \A t \in Ticks : tick[t].batch = {} /\ tick[t].at = "free"
    BY <2>1 DEF Inv, TypeOK
  <2>4. /\ cursor' = Len(stream) /\ start' = Len(stream) /\ group' = TRUE
        /\ UNCHANGED <<stream, pending, rested, online, crashes, tick, processed>>
    BY <1>3 DEF CreateGroup
  <2>5. tick \in [Ticks -> TickRecord({})]
    BY <2>1, <2>3 DEF Inv, TypeOK, TickRecord
  <2>6. Len(stream) \in Nat
    BY DEF Inv, TypeOK
  <2>7. TypeOK'
    BY <1>1, <2>2, <2>3, <2>4, <2>5, <2>6 DEF Inv, TypeOK, TickRecord
  <2>8. NoGroupNoDelivery' /\ NothingLost' /\ AckIsEarned'
    BY <2>3, <2>4, <2>6 DEF NoGroupNoDelivery, NothingLost, AckIsEarned, IsNextOf
  <2> QED BY <2>7, <2>8 DEF Inv
<1>4. group \in BOOLEAN
  BY DEF Inv, TypeOK
<1> QED BY <1>2, <1>3, <1>4

-----------------------------------------------------------------------------
\* An execution that takes messages which have been delivered.
LEMMA TakeKeepsTicks ==
  ASSUME NEW t \in Ticks, NEW p \in Processes, NEW new, Take(t, p, new),
         NEW old, tick \in [Ticks -> TickRecord(old)],
         NEW now, old \subseteq now, new \subseteq now
  PROVE  /\ tick' \in [Ticks -> TickRecord(now)]
         /\ \A u \in Ticks :
              \/ tick'[u] = tick[u]
              \/ tick'[u].at = "process" /\ tick'[u].batch # {}
  BY DEF Take, TickRecord

LEMMA ConsumeKeepsInv ==
  ASSUME Inv, NEW t \in Ticks, NEW p \in Processes, ConsumeEvents(t, p)
  PROVE  Inv'
<1> USE EventBusAssumption DEF replica, history
<1>1. /\ cursor \in Nat /\ start \in Nat /\ Len(stream) \in Nat
      /\ cursor <= Len(stream) /\ start <= cursor /\ Batch \in Nat
  BY DEF Inv, TypeOK
<1>2. /\ cursor' = LastRead /\ LastRead \in cursor..Len(stream)
      /\ pending' = pending \cup Unread /\ Unread = (cursor + 1)..LastRead
      /\ UNCHANGED <<stream, group, rested, boot, online, crashes, start, processed>>
      /\ Consuming(p) /\ Take(t, p, Unread)
  BY <1>1 DEF ConsumeEvents, LastRead, Unread
<1>3. /\ Delivered \subseteq Delivered' /\ Unread \subseteq Delivered'
      /\ \A m \in Delivered' : m \in Delivered \/ m \in Unread
  BY <1>1, <1>2 DEF Delivered
<1>4. tick \in [Ticks -> TickRecord(Delivered)]
  BY DEF Inv, TypeOK, TickRecord, Delivered
<1>5. /\ tick' \in [Ticks -> TickRecord(Delivered')]
      /\ \A u \in Ticks :
           \/ tick'[u] = tick[u]
           \/ tick'[u].at = "process" /\ tick'[u].batch # {}
  BY <1>2, <1>3, <1>4, TakeKeepsTicks
<1>6. TypeOK'
  <2>1. cursor' \in 0..Len(stream') /\ start' \in 0..cursor'
    BY <1>1, <1>2
  <2>2. pending' \subseteq Delivered' /\ rested' \subseteq pending'
        /\ processed' \subseteq Delivered'
    BY <1>2, <1>3 DEF Inv, TypeOK, Delivered
  <2>3. \A u \in Ticks : tick'[u].at = "free" <=> tick'[u].batch = {}
    BY <1>5 DEF Inv, TypeOK
  <2> QED BY <1>2, <1>5, <2>1, <2>2, <2>3 DEF Inv, TypeOK, TickRecord, Delivered
<1>7. NoGroupNoDelivery'
  BY <1>2 DEF NoGroupNoDelivery, Consuming
<1>8. NothingLost'
  BY <1>2, <1>3 DEF Inv, NothingLost, Delivered
<1>9. AckIsEarned'
  BY <1>2, <1>5 DEF Inv, AckIsEarned, IsNextOf
<1> QED BY <1>6, <1>7, <1>8, <1>9 DEF Inv

LEMMA RecoverKeepsInv ==
  ASSUME Inv, NEW t \in Ticks, NEW p \in Processes, ProcessPendingMessages(t, p)
  PROVE  Inv'
<1> USE DEF replica, history
<1>1. /\ Take(t, p, Claimable) /\ rested' \subseteq rested
      /\ UNCHANGED <<stream, group, cursor, pending, boot, online, crashes, start,
                     processed>>
  BY DEF ProcessPendingMessages
<1>2. Claimable \subseteq Delivered
  BY DEF Inv, TypeOK, Claimable, Delivered
<1>3. tick \in [Ticks -> TickRecord(Delivered)]
  BY DEF Inv, TypeOK, TickRecord, Delivered
<1>4. /\ tick' \in [Ticks -> TickRecord(Delivered)]
      /\ \A u \in Ticks :
           \/ tick'[u] = tick[u]
           \/ tick'[u].at = "process" /\ tick'[u].batch # {}
  BY <1>1, <1>2, <1>3, TakeKeepsTicks
<1>5. \A u \in Ticks : tick'[u].at = "free" <=> tick'[u].batch = {}
  BY <1>4 DEF Inv, TypeOK
<1>6. TypeOK'
  BY <1>1, <1>4, <1>5 DEF Inv, TypeOK, TickRecord, Delivered
<1>7. NoGroupNoDelivery' /\ NothingLost'
  BY <1>1 DEF Inv, NoGroupNoDelivery, NothingLost
<1>8. AckIsEarned'
  BY <1>1, <1>4 DEF Inv, AckIsEarned, IsNextOf
<1> QED BY <1>6, <1>7, <1>8 DEF Inv

-----------------------------------------------------------------------------
\* An execution goes on with its batch.
LEMMA AdvanceKeepsTicks ==
  ASSUME Inv, NEW t \in Ticks, NEW m, Advance(t, m)
  PROVE  /\ tick' \in [Ticks -> TickRecord(Delivered)]
         /\ \A u \in Ticks : tick'[u].at = "free" <=> tick'[u].batch = {}
         /\ \A u \in Ticks : tick'[u] = tick[u] \/ tick'[u].at # "ack"
<1>1. tick \in [Ticks -> TickRecord(Delivered)]
  BY DEF Inv, TypeOK, TickRecord, Delivered
<1>2. tick[t].batch \ {m} \subseteq Delivered
  BY <1>1 DEF TickRecord
<1>3. Free \in TickRecord(Delivered) /\ Free.at = "free" /\ Free.batch = {}
  BY DEF Free, TickRecord
<1>4. CASE tick[t].batch \ {m} = {}
  <2>1. tick' = [tick EXCEPT ![t] = Free]
    BY <1>4 DEF Advance
  <2> QED BY <1>1, <1>3, <2>1 DEF Inv, TypeOK
<1>5. CASE tick[t].batch \ {m} # {}
  <2> DEFINE rec == [tick[t] EXCEPT !.at = "process", !.batch = tick[t].batch \ {m}]
  <2>1. tick' = [tick EXCEPT ![t] = rec]
    BY <1>5 DEF Advance
  <2>2. rec \in TickRecord(Delivered) /\ rec.at = "process" /\ rec.batch # {}
    BY <1>1, <1>2, <1>5 DEF TickRecord
  <2> HIDE DEF rec
  <2> QED BY <1>1, <2>1, <2>2 DEF Inv, TypeOK
<1> QED BY <1>4, <1>5

LEMMA ProcessKeepsInv ==
  ASSUME Inv, NEW t \in Ticks, NEW m \in tick[t].batch, Process(t, m)
  PROVE  Inv'
<1> USE DEF redis, replica, history
<1>m. m \in Delivered /\ m \in Nat
  BY DEF Inv, TypeOK, Delivered
<1>1. CASE Complete(t, m)
  <2>1. /\ tick[t].at = "process" /\ IsNextOf(m, t)
        /\ tick' = [tick EXCEPT ![t].at = "ack"] /\ processed' = processed \cup {m}
        /\ UNCHANGED <<stream, group, cursor, pending, rested, boot, online, crashes, start>>
    BY <1>1 DEF Complete
  <2>2. tick' \in [Ticks -> TickRecord(Delivered)]
    BY <2>1 DEF Inv, TypeOK, TickRecord, Delivered
  <2>3. \A u \in Ticks : /\ tick'[u].batch = tick[u].batch
                         /\ u # t => tick'[u] = tick[u]
                         /\ u = t => tick'[u].at = "ack"
    BY <2>1 DEF Inv, TypeOK
  <2>4. \A u \in Ticks : tick'[u].at = "free" <=> tick'[u].batch = {}
    BY <2>3 DEF Inv, TypeOK
  <2>5. TypeOK'
    BY <1>m, <2>1, <2>2, <2>4 DEF Inv, TypeOK, TickRecord, Delivered
  <2>6. NoGroupNoDelivery' /\ NothingLost'
    BY <2>1 DEF Inv, NoGroupNoDelivery, NothingLost
  <2>7. AckIsEarned'
    <3> SUFFICES ASSUME NEW u \in Ticks, NEW k \in Nat,
                        tick'[u].at = "ack", IsNextOf(k, u)'
                 PROVE  k \in processed'
      BY DEF AckIsEarned
    <3>1. IsNextOf(k, u)
      BY <2>3 DEF IsNextOf
    <3>2. CASE u = t
      <4>1. k <= m /\ m <= k
        BY <2>1, <3>1, <3>2 DEF IsNextOf
      <4> QED BY <4>1, <1>m, <2>1
    <3>3. CASE u # t
      BY <2>1, <2>3, <3>1, <3>3 DEF Inv, AckIsEarned
    <3> QED BY <3>2, <3>3
  <2> QED BY <2>5, <2>6, <2>7 DEF Inv
<1>2. CASE Throw(t, m) \/ AcknowledgeFails(t, m)
  <2>1. Advance(t, m) /\ UNCHANGED <<redis, replica, history>>
    BY <1>2 DEF Throw, AcknowledgeFails
  <2>2. TypeOK'
    BY <2>1, AdvanceKeepsTicks DEF Inv, TypeOK, TickRecord, Delivered
  <2>3. NoGroupNoDelivery' /\ NothingLost'
    BY <2>1 DEF Inv, NoGroupNoDelivery, NothingLost
  <2>4. AckIsEarned'
    BY <2>1, AdvanceKeepsTicks DEF Inv, AckIsEarned, IsNextOf
  <2> QED BY <2>2, <2>3, <2>4 DEF Inv
<1>3. CASE Acknowledge(t, m)
  <2>1. /\ Advance(t, m) /\ tick[t].at = "ack" /\ IsNextOf(m, t)
        /\ pending' = pending \ {m} /\ rested' = rested \ {m}
        /\ UNCHANGED <<stream, group, cursor, replica, history>>
    BY <1>3 DEF Acknowledge
  <2>2. m \in processed
    BY <1>m, <2>1 DEF Inv, AckIsEarned
  <2>3. TypeOK'
    BY <2>1, AdvanceKeepsTicks DEF Inv, TypeOK, TickRecord, Delivered
  <2>4. NoGroupNoDelivery' /\ NothingLost'
    BY <2>1, <2>2 DEF Inv, NoGroupNoDelivery, NothingLost
  <2>5. AckIsEarned'
    BY <2>1, AdvanceKeepsTicks DEF Inv, AckIsEarned, IsNextOf
  <2> QED BY <2>3, <2>4, <2>5 DEF Inv
<1> QED BY <1>1, <1>2, <1>3 DEF Process

-----------------------------------------------------------------------------
LEMMA StepKeepsInv ==
  ASSUME Inv, [Next]_vars
  PROVE  Inv'
<1> USE DEF replica, history, redis
<1>0. /\ boot \in [Processes -> BootPoints] /\ online \in [Processes -> BOOLEAN]
      /\ crashes \in Nat
  BY DEF Inv, TypeOK
<1>1. CASE UNCHANGED vars
  BY <1>1, <1>0, ReplicaKeepsInv DEF vars
<1>2. CASE \E kind \in Published : Publish(kind)
  BY <1>2, <1>0, AddKeepsInv DEF Publish, Kinds
<1>3. ASSUME NEW p \in Processes, Boot(p) \/ Crash(p) \/ Disconnect(p) \/ Reconnect(p)
      PROVE  Inv'
  <2>1. CASE AddInit(p)
    <3>1. boot' \in [Processes -> BootPoints]
      BY <2>1, <1>0 DEF AddInit, BootPoints
    <3> QED BY <2>1, <3>1, AddKeepsInv DEF AddInit, Kinds
  <2>2. CASE CreateGroup(p)
    BY <2>2, CreateGroupKeepsInv
  <2>3. CASE Connect(p) \/ BootFails(p) \/ Disconnect(p) \/ Reconnect(p)
    <3>1. /\ boot' \in [Processes -> BootPoints] /\ online' \in [Processes -> BOOLEAN]
          /\ UNCHANGED <<redis, history, crashes, tick>>
      BY <2>3, <1>0 DEF Connect, BootFails, Disconnect, Reconnect, BootPoints
    <3> QED BY <3>1, <1>0, ReplicaKeepsInv
  <2>4. CASE Crash(p)
    <3>1. /\ boot' \in [Processes -> BootPoints] /\ online' \in [Processes -> BOOLEAN]
          /\ crashes' \in Nat /\ UNCHANGED <<redis, history>>
          /\ tick' = [t \in Ticks |-> IF tick[t].by = p THEN Free ELSE tick[t]]
      BY <2>4, <1>0 DEF Crash, BootPoints
    <3> QED BY <3>1, ReplicaKeepsInv
  <2> QED BY <1>3, <2>1, <2>2, <2>3, <2>4 DEF Boot
<1>4. ASSUME NEW p \in Processes, NEW t \in Ticks,
             ConsumeEvents(t, p) \/ ProcessPendingMessages(t, p)
      PROVE  Inv'
  BY <1>4, ConsumeKeepsInv, RecoverKeepsInv
<1>5. CASE \E m \in pending : Rest(m)
  <2>1. /\ rested' \subseteq pending
        /\ UNCHANGED <<stream, group, cursor, pending, replica, tick, history>>
    BY <1>5 DEF Rest, Inv, TypeOK
  <2>2. TypeOK'
    BY <2>1 DEF Inv, TypeOK
  <2>3. NoGroupNoDelivery' /\ NothingLost' /\ AckIsEarned'
    BY <2>1 DEF Inv, NoGroupNoDelivery, NothingLost, AckIsEarned, IsNextOf
  <2> QED BY <2>2, <2>3 DEF Inv
<1>6. ASSUME NEW t \in Ticks, NEW m \in tick[t].batch, Process(t, m)
      PROVE  Inv'
  BY <1>6, ProcessKeepsInv
<1> QED BY <1>1, <1>2, <1>3, <1>4, <1>5, <1>6 DEF Next

LEMMA InvHolds == Spec => []Inv
BY InitInv, StepKeepsInv, PTL DEF Spec

\* Nothing that was delivered disappears from the pending list unprocessed: what
\* the XACK after the handler, and nowhere else, is for.
THEOREM NothingIsLost == Spec => []NothingLost
<1>1. Inv => NothingLost
  BY DEF Inv
<1> QED BY <1>1, InvHolds, PTL

\* The messages, ticks and replicas of the bus keep their types.
THEOREM TypeCorrect == Spec => []TypeOK
<1>1. Inv => TypeOK
  BY DEF Inv
<1> QED BY <1>1, InvHolds, PTL

-----------------------------------------------------------------------------
(* Refinement: each step maps to a step of Inbox or to none. *)

LEMMA SameOwed ==
  ASSUME UNCHANGED <<stream, group, cursor, pending, processed>>
  PROVE  UNCHANGED <<Owed, processed>>
BY DEF Owed

\* A new message is owed, if anything is.
LEMMA AddArrives ==
  ASSUME Inv, NEW kind, Add(kind), UNCHANGED <<group, cursor, pending, processed>>
  PROVE  [Promise!Next]_<<Owed, processed>>
<1>1. /\ Len(stream) \in Nat /\ cursor \in Nat /\ cursor <= Len(stream) /\ start \in Nat
      /\ group \in BOOLEAN
      /\ pending \subseteq Delivered /\ processed \subseteq Delivered
  BY DEF Inv, TypeOK, Delivered
<1>2. Len(stream') = Len(stream) + 1
  BY DEF Add, Inv, TypeOK
<1>3. CASE ~group
  BY <1>3 DEF Owed
<1>4. CASE group
  <2> DEFINE new == Len(stream) + 1
  <2>1. Owed = pending \cup (cursor + 1)..Len(stream)
    BY <1>4 DEF Owed
  <2>2. Owed' = pending \cup (cursor + 1)..new
    BY <1>2, <1>4 DEF Owed
  <2>3. new \notin Owed \cup processed
    BY <1>1, <2>1 DEF Delivered
  <2>4. Owed' = Owed \cup {new}
    BY <1>1, <2>1, <2>2
  <2>5. Promise!Arrive(new)
    BY <2>3, <2>4 DEF Promise!Arrive
  <2> QED BY <2>3, <2>4, <2>5 DEF Promise!Next
<1> QED BY <1>1, <1>3, <1>4

LEMMA GroupOwesNothing ==
  ASSUME Inv, NEW p \in Processes, CreateGroup(p)
  PROVE  UNCHANGED <<Owed, processed>>
<1>1. CASE group
  BY <1>1 DEF CreateGroup, Owed
<1>2. CASE ~group
  <2>1. pending = {} /\ Len(stream) \in Nat
    BY <1>2 DEF Inv, TypeOK, NoGroupNoDelivery
  <2>2. Owed = {}
    BY <1>2 DEF Owed
  <2>3. Owed' = {}
    BY <1>2, <2>1 DEF CreateGroup, Owed
  <2> QED BY <2>2, <2>3 DEF CreateGroup
<1> QED BY <1>1, <1>2

LEMMA ConsumeOwesTheSame ==
  ASSUME Inv, NEW t \in Ticks, NEW p \in Processes, ConsumeEvents(t, p)
  PROVE  UNCHANGED <<Owed, processed>>
<1> USE EventBusAssumption DEF history
<1>1. Len(stream) \in Nat /\ cursor \in Nat /\ cursor <= Len(stream) /\ Batch \in Nat
  BY DEF Inv, TypeOK
<1>2. /\ cursor' = LastRead /\ LastRead \in cursor..Len(stream)
      /\ pending' = pending \cup (cursor + 1)..LastRead
      /\ UNCHANGED <<stream, group, processed>> /\ group
  BY <1>1 DEF ConsumeEvents, LastRead, Unread, Consuming
<1>3. /\ Owed = pending \cup (cursor + 1)..Len(stream)
      /\ Owed' = pending' \cup (cursor' + 1)..Len(stream)
  BY <1>2 DEF Owed
<1>4. (cursor + 1)..Len(stream) = (cursor + 1)..LastRead \cup (LastRead + 1)..Len(stream)
  BY <1>1, <1>2
<1> QED BY <1>2, <1>3, <1>4

\* A message is finished with only after it has been processed.
LEMMA ProcessingRefines ==
  ASSUME Inv, NEW t \in Ticks, NEW m \in tick[t].batch, Process(t, m)
  PROVE  [Promise!Next]_<<Owed, processed>>
<1> USE DEF redis, history
<1>1. /\ m \in Delivered /\ m \in Nat /\ start \in Nat /\ cursor \in Nat /\ m <= cursor
      /\ Len(stream) \in Nat
  BY DEF Inv, TypeOK, Delivered
<1>2. group
  BY <1>1 DEF Inv, NoGroupNoDelivery, Delivered
<1>3. Owed = pending \cup (cursor + 1)..Len(stream)
  BY <1>2 DEF Owed
<1>4. m \in Owed \/ m \in processed
  BY <1>1, <1>3 DEF Inv, NothingLost, Delivered
<1>5. CASE Complete(t, m)
  <2>1. Owed' = Owed /\ processed' = processed \cup {m}
    BY <1>5 DEF Complete, Owed
  <2> QED BY <1>4, <2>1 DEF Promise!Next, Promise!Process
<1>6. CASE Throw(t, m) \/ AcknowledgeFails(t, m)
  <2>1. UNCHANGED <<Owed, processed>>
    BY <1>6, SameOwed DEF Throw, AcknowledgeFails
  <2> QED BY <2>1
<1>7. CASE Acknowledge(t, m)
  <2>1. m \in processed
    BY <1>1, <1>7 DEF Acknowledge, Inv, AckIsEarned
  <2>2. /\ pending' = pending \ {m}
        /\ UNCHANGED <<stream, group, cursor, processed>>
    BY <1>7 DEF Acknowledge
  <2>3. Owed' = pending' \cup (cursor + 1)..Len(stream)
    BY <1>2, <2>2 DEF Owed
  <2>4. m \notin (cursor + 1)..Len(stream)
    BY <1>1
  <2>5. Owed' = Owed \ {m}
    BY <1>3, <2>2, <2>3, <2>4
  <2> QED BY <2>1, <2>2, <2>5 DEF Promise!Next, Promise!Finish
<1> QED BY <1>5, <1>6, <1>7 DEF Process

LEMMA StepRefines ==
  ASSUME Inv, [Next]_vars
  PROVE  [Promise!Next]_<<Owed, processed>>
<1> USE DEF redis, history
<1>1. CASE UNCHANGED vars
  BY <1>1, SameOwed DEF vars
<1>2. CASE \E kind \in Published : Publish(kind)
  BY <1>2, AddArrives DEF Publish
<1>3. ASSUME NEW p \in Processes, Boot(p) \/ Crash(p) \/ Disconnect(p) \/ Reconnect(p)
      PROVE  [Promise!Next]_<<Owed, processed>>
  <2>1. CASE AddInit(p)
    BY <2>1, AddArrives DEF AddInit
  <2>2. CASE CreateGroup(p)
    BY <2>2, GroupOwesNothing
  <2>3. CASE Connect(p) \/ BootFails(p) \/ Disconnect(p) \/ Reconnect(p) \/ Crash(p)
    BY <2>3, SameOwed DEF Connect, BootFails, Disconnect, Reconnect, Crash
  <2> QED BY <1>3, <2>1, <2>2, <2>3 DEF Boot
<1>4. ASSUME NEW p \in Processes, NEW t \in Ticks,
             ConsumeEvents(t, p) \/ ProcessPendingMessages(t, p)
      PROVE  [Promise!Next]_<<Owed, processed>>
  <2>1. CASE ConsumeEvents(t, p)
    BY <2>1, ConsumeOwesTheSame
  <2>2. CASE ProcessPendingMessages(t, p)
    BY <2>2, SameOwed DEF ProcessPendingMessages
  <2> QED BY <1>4, <2>1, <2>2
<1>5. CASE \E m \in pending : Rest(m)
  BY <1>5, SameOwed DEF Rest
<1>6. ASSUME NEW t \in Ticks, NEW m \in tick[t].batch, Process(t, m)
      PROVE  [Promise!Next]_<<Owed, processed>>
  BY <1>6, ProcessingRefines
<1> QED BY <1>1, <1>2, <1>3, <1>4, <1>5, <1>6 DEF Next

\* The replicas, the group and its pending list together behave like one inbox
\* that processes what it owes at least once.
THEOREM BusIsAnInbox == Spec => KeepsPromise
<1>1. Init => Promise!Init
  BY DEF Init, Promise!Init, Owed
<1>2. Inv /\ [Next]_vars => [Promise!Next]_<<Owed, processed>>
  BY StepRefines
<1> QED BY <1>1, <1>2, InvHolds, PTL DEF Spec, KeepsPromise, Promise!Spec
=============================================================================
