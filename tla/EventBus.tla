-------------------------------- MODULE EventBus --------------------------------
(***************************************************************************)
(* The consuming side of event-bus.service.ts: one Redis stream, the       *)
(* consumer group of the trips service on it, and the replicas that read   *)
(* from the group, recover what was not acknowledged, and acknowledge.     *)
(* The two streams the service reads are treated alike, so one stands for  *)
(* both.  Messages are numbered by their place in the stream.              *)
(*                                                                         *)
(* A tick of consumeEvents or of processPendingMessages is an execution of *)
(* its own: setInterval does not wait for the one before, so ticks of one  *)
(* replica overlap as freely as ticks of two.                              *)
(***************************************************************************)
EXTENDS Naturals, Sequences, FiniteSets

CONSTANTS
  Processes,   \* replicas of the service
  Ticks,       \* bound: ticks under way at the same time
  Batch,       \* COUNT of a read and of a recovery
  MaxEvents,   \* bound: messages other services publish
  MaxCrashes,  \* bound: replicas that stop
  Faults,      \* subset of FaultKinds that may occur
  None

FaultKinds == {"connection", "reply", "handler", "ack"}

ASSUME EventBusAssumption ==
  /\ Batch \in Nat \ {0}
  /\ MaxEvents \in Nat
  /\ MaxCrashes \in Nat
  /\ Faults \subseteq FaultKinds
  /\ None \notin Processes

VARIABLES
  stream,    \* what was added, by kind
  group,     \* whether the consumer group exists
  cursor,    \* its last delivered message
  pending,   \* its pending entries: delivered and not acknowledged
  rested,    \* those that have been pending for PEL_IDLE_TIME_MS
  boot,      \* how far the start of a replica got
  online,    \* isConnected of a replica
  tick,      \* the executions
  crashes,
  start,     \* history: where the group was created
  processed  \* history: messages whose processing reached the acknowledgement

redis   == <<stream, group, cursor, pending, rested>>
replica == <<boot, online, crashes>>
history == <<start, processed>>
vars    == <<redis, replica, tick, history>>

\* "event" has a handler, "other" has none or has no event field, and the
\* processing of "poison" always throws: it is not JSON, or not the event its
\* handler expects.
Published == {"event", "other", "poison"}
Kinds     == Published \cup {"init"}

BootPoints == {"down", "addInit", "createGroup", "up"}

Free == [at |-> "free", by |-> None, batch |-> {}]

TypeOK ==
  /\ stream \in Seq(Kinds)
  /\ group \in BOOLEAN
  /\ cursor \in 0..Len(stream) /\ start \in 0..cursor
  /\ pending \subseteq (start + 1)..cursor
  /\ rested \subseteq pending
  /\ processed \subseteq (start + 1)..cursor
  /\ boot \in [Processes -> BootPoints]
  /\ online \in [Processes -> BOOLEAN]
  /\ crashes \in Nat
  /\ tick \in [Ticks -> [at : {"free", "process", "ack"}, by : Processes \cup {None},
                         batch : SUBSET ((start + 1)..cursor)]]
  /\ \A t \in Ticks : tick[t].at = "free" <=> tick[t].batch = {}

Init ==
  /\ stream = <<>>
  /\ group = FALSE
  /\ cursor = 0 /\ start = 0
  /\ pending = {} /\ rested = {}
  /\ boot = [p \in Processes |-> "down"]
  /\ online = [p \in Processes |-> FALSE]
  /\ tick = [t \in Ticks |-> Free]
  /\ crashes = 0
  /\ processed = {}

-----------------------------------------------------------------------------
Add(kind) == stream' = Append(stream, kind)

Others == Cardinality({m \in 1..Len(stream) : stream[m] # "init"})

\* Another service publishes; that the consumer group does not exist yet, or
\* that nobody listens, is nothing it would notice.
Publish(kind) ==
  /\ Others < MaxEvents
  /\ Add(kind)
  /\ UNCHANGED <<group, cursor, pending, rested, replica, tick, history>>

-----------------------------------------------------------------------------
(* Start of a replica: onModuleInit, ensureConsumerGroups.  The consumer   *)
(* starts afterwards, whether or not this succeeded, since the module of   *)
(* the handlers is initialised after the one of the bus.                   *)

Connect(p) ==
  /\ boot[p] = "down"
  /\ \/ /\ online' = [online EXCEPT ![p] = TRUE]
        /\ boot' = [boot EXCEPT ![p] = "addInit"]
     \/ /\ "connection" \in Faults
        /\ boot' = [boot EXCEPT ![p] = "up"]
        /\ UNCHANGED online
  /\ UNCHANGED <<redis, crashes, tick, history>>

\* The dummy message that makes the stream exist.
AddInit(p) ==
  /\ boot[p] = "addInit"
  /\ Add("init")
  /\ boot' = [boot EXCEPT ![p] = "createGroup"]
  /\ UNCHANGED <<group, cursor, pending, rested, online, crashes, tick, history>>

\* The group starts at '$', behind everything that is in the stream; one that
\* exists (BUSYGROUP) stays as it is.
CreateGroup(p) ==
  /\ boot[p] = "createGroup"
  /\ group' = TRUE
  /\ cursor' = IF group THEN cursor ELSE Len(stream)
  /\ start' = IF group THEN start ELSE Len(stream)
  /\ boot' = [boot EXCEPT ![p] = "up"]
  /\ UNCHANGED <<stream, pending, rested, online, crashes, tick, processed>>

\* XADD or XGROUP fails; the error is logged.
BootFails(p) ==
  /\ "connection" \in Faults
  /\ boot[p] \in {"addInit", "createGroup"}
  /\ boot' = [boot EXCEPT ![p] = "up"]
  /\ UNCHANGED <<redis, online, crashes, tick, history>>

Crash(p) ==
  /\ boot[p] # "down"
  /\ crashes < MaxCrashes
  /\ crashes' = crashes + 1
  /\ boot' = [boot EXCEPT ![p] = "down"]
  /\ online' = [online EXCEPT ![p] = FALSE]
  /\ tick' = [t \in Ticks |-> IF tick[t].by = p THEN Free ELSE tick[t]]
  /\ UNCHANGED <<redis, history>>

Disconnect(p) ==
  /\ "connection" \in Faults
  /\ online[p]
  /\ online' = [online EXCEPT ![p] = FALSE]
  /\ UNCHANGED <<redis, boot, crashes, tick, history>>

\* Gives up once the start is over.
ReconnectDuringBoot(p) ==
  /\ boot[p] \in {"addInit", "createGroup"} /\ ~online[p]
  /\ online' = [online EXCEPT ![p] = TRUE]
  /\ UNCHANGED <<redis, boot, crashes, tick, history>>

\* retryStrategy never gives up.
Reconnect(p) ==
  /\ boot[p] # "down" /\ ~online[p]
  /\ online' = [online EXCEPT ![p] = TRUE]
  /\ UNCHANGED <<redis, boot, crashes, tick, history>>

-----------------------------------------------------------------------------
(* Reading: without a group (NOGROUP) nothing happens. *)

Consuming(p) == boot[p] = "up" /\ online[p] /\ group

\* Execution t of p has the messages new to process, one after the other in
\* their order, unless Redis's answer is lost.
Take(t, p, new) ==
  /\ tick[t].at = "free" /\ new # {}
  /\ \/ tick' = [tick EXCEPT ![t] = [at |-> "process", by |-> p, batch |-> new]]
     \/ "reply" \in Faults /\ UNCHANGED tick

LastRead == IF cursor + Batch <= Len(stream) THEN cursor + Batch ELSE Len(stream)

Unread == (cursor + 1)..LastRead

\* As if the group were read with NOACK.
ConsumeUntracked(t, p) ==
  /\ Consuming(p)
  /\ Take(t, p, Unread)
  /\ cursor' = LastRead
  /\ UNCHANGED <<stream, group, pending, rested, replica, history>>

ConsumeEvents(t, p) ==
  /\ Consuming(p)
  /\ Take(t, p, Unread)
  /\ cursor' = LastRead
  /\ pending' = pending \cup Unread
  /\ UNCHANGED <<stream, group, rested, replica, history>>

\* A pending entry has been idle for long enough to be claimed, perhaps because
\* its handler is slow.
Rest(m) ==
  /\ m \in pending \ rested
  /\ rested' = rested \cup {m}
  /\ UNCHANGED <<stream, group, cursor, pending, replica, tick, history>>

\* XAUTOCLAIM begins at 0-0 every time: the first entries that are idle.
Claimable == {m \in rested : Cardinality({k \in rested : k < m}) < Batch}

ProcessPendingMessages(t, p) ==
  /\ Consuming(p)
  /\ Take(t, p, Claimable)
  /\ rested' = rested \ Claimable
  /\ UNCHANGED <<stream, group, cursor, pending, replica, history>>

-----------------------------------------------------------------------------
(* processMessage, for the messages of a batch in their order. *)

IsNextOf(m, t) == m \in tick[t].batch /\ \A k \in tick[t].batch : m <= k

MayThrow(m) == stream[m] = "poison" \/ (stream[m] = "event" /\ "handler" \in Faults)

\* Goes on after the last message.
AdvanceForever(t, m) ==
  tick' = [tick EXCEPT ![t] = [@ EXCEPT !.at = "process", !.batch = @ \ {m}]]

\* Execution t is done with m.
Advance(t, m) ==
  LET rest == tick[t].batch \ {m}
  IN  tick' = [tick EXCEPT ![t] =
                 IF rest = {} THEN Free
                              ELSE [@ EXCEPT !.at = "process", !.batch = rest]]

\* The handler, when the message has one, returned.
Complete(t, m) ==
  /\ tick[t].at = "process" /\ IsNextOf(m, t)
  /\ stream[m] # "poison"
  /\ tick' = [tick EXCEPT ![t].at = "ack"]
  /\ processed' = processed \cup {m}
  /\ UNCHANGED <<redis, replica, start>>

\* Acknowledges a message whose processing threw.
ThrowIntoAck(t, m) ==
  /\ tick[t].at = "process" /\ IsNextOf(m, t)
  /\ MayThrow(m)
  /\ tick' = [tick EXCEPT ![t].at = "ack"]
  /\ UNCHANGED <<redis, replica, history>>

\* Something in it threw: the message stays pending and the batch goes on.
Throw(t, m) ==
  /\ tick[t].at = "process" /\ IsNextOf(m, t)
  /\ MayThrow(m)
  /\ Advance(t, m)
  /\ UNCHANGED <<redis, replica, history>>

Acknowledge(t, m) ==
  /\ tick[t].at = "ack" /\ IsNextOf(m, t)
  /\ pending' = pending \ {m}
  /\ rested' = rested \ {m}
  /\ Advance(t, m)
  /\ UNCHANGED <<stream, group, cursor, replica, history>>

\* The error is swallowed.
AcknowledgeFails(t, m) ==
  /\ "ack" \in Faults
  /\ tick[t].at = "ack" /\ IsNextOf(m, t)
  /\ Advance(t, m)
  /\ UNCHANGED <<redis, replica, history>>

Process(t, m) ==
  Complete(t, m) \/ Throw(t, m) \/ Acknowledge(t, m) \/ AcknowledgeFails(t, m)

-----------------------------------------------------------------------------
Boot(p) == Connect(p) \/ AddInit(p) \/ CreateGroup(p) \/ BootFails(p)

Next ==
  \/ \E kind \in Published : Publish(kind)
  \/ \E p \in Processes :
       \/ Boot(p) \/ Crash(p) \/ Disconnect(p) \/ Reconnect(p)
       \/ \E t \in Ticks : ConsumeEvents(t, p) \/ ProcessPendingMessages(t, p)
  \/ \E m \in pending : Rest(m)
  \/ \E t \in Ticks : \E m \in tick[t].batch : Process(t, m)

Spec == Init /\ [][Next]_vars

-----------------------------------------------------------------------------
\* bound: the length the stream can reach
Messages == 1..(MaxEvents + MaxCrashes + Cardinality(Processes))

\* A replica that stopped is started again, a client that lost Redis reconnects,
\* and the two intervals fire for ever.  Executions go on.  What fails again and
\* again (an answer is lost, a handler throws, Redis is away) succeeds for each
\* message in the end, unless it cannot.
Fairness ==
  /\ \A p \in Processes : WF_vars(Boot(p)) /\ WF_vars(Reconnect(p))
  /\ SF_vars(\E p \in Processes, t \in Ticks : ConsumeEvents(t, p))
  /\ \A t \in Ticks : WF_vars(\E m \in tick[t].batch : Process(t, m))
  /\ \A m \in Messages :
       /\ WF_vars(Rest(m))
       /\ SF_vars(\E p \in Processes, t \in Ticks :
                    ProcessPendingMessages(t, p) /\ m \in tick'[t].batch)
       /\ SF_vars(\E t \in Ticks : m \in tick[t].batch /\ Complete(t, m))
       /\ SF_vars(\E t \in Ticks : m \in tick[t].batch /\ Acknowledge(t, m))

FairSpec == Spec /\ Fairness

-----------------------------------------------------------------------------
Owed == IF group THEN pending \cup (cursor + 1)..Len(stream) ELSE {}

Poison == {m \in Owed : stream[m] = "poison"}

\* Whatever crashes, fails or is handled twice at once: a message that was
\* published since the consumer group exists is unread, or pending, or has been
\* through its handler.
NothingLost ==
  \A m \in (start + 1)..cursor : m \in pending \/ m \in processed

\* The bus keeps the promise of Inbox.
Promise == INSTANCE Inbox WITH owed <- Owed
KeepsPromise == Promise!Spec

\* Every message the service owes processing is processed and acknowledged in
\* the end, as long as fewer messages than a batch are poison: a recovery claims
\* the first idle entries, so as many could keep the others from being claimed.
FinallyDone ==
  \A m \in Messages :
    (m \in Owed \ Poison) ~>
      (m \notin Owed \/ Cardinality(Poison) >= Batch)
=============================================================================
