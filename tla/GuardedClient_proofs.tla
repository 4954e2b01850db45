--------------------------- MODULE GuardedClient_proofs ---------------------------
(***************************************************************************)
(* The circuit breaker, for any number of calls, thresholds, windows and   *)
(* waiting times.                                                          *)
(***************************************************************************)
EXTENDS GuardedClient, SequenceTheorems, TLAPS

\* An open breaker has not waited longer than the time since it opened, and one
\* that is not open has not opened lately.
Waiting ==
  /\ state = "OPEN" => wait + openedAgo >= timeout
  /\ state # "OPEN" => openedAgo = timeout

\* Every success that HALF_OPEN counted came after the last failure.
ProbesAreRecent == state = "HALF_OPEN" => successes <= goodInARow

Inv == TypeOK /\ ClosedMeansFewFailures /\ Waiting /\ ProbesAreRecent

CallRecord == [at : {"idle", "asleep", "granted", "sent"}, left : 0..Unit]

LEMMA InitInv == Init => Inv
<1> SUFFICES ASSUME Init PROVE Inv
  OBVIOUS
<1> USE GuardedClientAssumption
<1>1. call \in [Calls -> CallRecord]
  BY DEF Init, Idle, CallRecord
<1>2. failedAgo \in Seq(0..(rollingWindow + 1)) /\ Len(failedAgo) = 0
  BY DEF Init
<1>3. Capacity * Unit \in Nat
  OBVIOUS
<1>4. TypeOK
  BY <1>1, <1>2, <1>3 DEF Init, TypeOK, CircuitState, CallRecord
<1>5. ClosedMeansFewFailures /\ Waiting /\ ProbesAreRecent
  BY <1>2 DEF Init, ClosedMeansFewFailures, Waiting, ProbesAreRecent
<1> QED BY <1>4, <1>5 DEF Inv

-----------------------------------------------------------------------------
LEMMA Bounded ==
  ASSUME NEW bound \in Nat, NEW n \in Nat, NEW k \in Nat
  PROVE  /\ AtMost(bound, n) \in 0..bound
         /\ n <= bound => AtMost(bound, n) = n
         /\ n >= bound => AtMost(bound, n) = bound
         /\ Less(n, k) \in 0..n
         /\ n >= k => Less(n, k) = n - k
BY DEF AtMost, Less

LEMMA GotoKeepsCalls ==
  ASSUME Inv, NEW c \in Calls, NEW point \in {"idle", "asleep", "granted", "sent"},
         Goto(c, point)
  PROVE  call' \in [Calls -> CallRecord]
BY GuardedClientAssumption DEF Inv, TypeOK, Goto, CallRecord

\* The ages in the window are ages.
LEMMA FailuresRecorded ==
  ASSUME failedAgo \in Seq(0..(rollingWindow + 1)), RecordFailure
  PROVE  failedAgo' \in Seq(0..(rollingWindow + 1))
<1> DEFINE all == Append(failedAgo, 0)
<1>1. all \in Seq(0..(rollingWindow + 1))
  BY GuardedClientAssumption
<1>2. PICK first \in 1..Len(all) : failedAgo' = SubSeq(all, first, Len(all))
  BY DEF RecordFailure
<1> HIDE DEF all
<1>3. Len(all) \in Int /\ first \in Int
  BY <1>1
<1>4. \A i \in first..Len(all) : all[i] \in 0..(rollingWindow + 1)
  <2>1. \A i \in 1..Len(all) : all[i] \in 0..(rollingWindow + 1)
    BY <1>1, ElementOfSeq
  <2>2. \A i \in first..Len(all) : i \in 1..Len(all)
    BY <1>2, <1>3
  <2> QED BY <2>1, <2>2
<1>5. SubSeq(all, first, Len(all)) \in Seq(0..(rollingWindow + 1))
  BY <1>3, <1>4, SubSeqProperties
<1> QED BY <1>2, <1>5

-----------------------------------------------------------------------------
\* The bucket, its sleepers and the health of the other service are no business
\* of the breaker.
LEMMA BucketKeepsInv ==
  ASSUME Inv, tokens' \in 0..(Capacity * Unit), call' \in [Calls -> CallRecord],
         healthy' \in BOOLEAN, UNCHANGED <<breaker, history>>
  PROVE  Inv'
<1> USE DEF breaker, history
<1>1. TypeOK'
  BY DEF Inv, TypeOK, CallRecord
<1> QED BY <1>1 DEF Inv, ClosedMeansFewFailures, Waiting, ProbesAreRecent

LEMMA AcquireKeepsInv ==
  ASSUME Inv, NEW c \in Calls, Acquire(c) \/ Wake(c)
  PROVE  Inv'
<1> USE GuardedClientAssumption
<1>1. tokens \in 0..(Capacity * Unit) /\ Capacity * Unit \in Nat /\ healthy \in BOOLEAN
      /\ call \in [Calls -> CallRecord]
  BY DEF Inv, TypeOK, CallRecord
<1>2. healthy' = healthy /\ UNCHANGED <<breaker, history>>
  BY DEF Acquire, Wake
<1>3. CASE Wake(c)
  <2>1. Unit \in Nat /\ tokens \in Nat /\ Less(tokens, Unit) \in 0..tokens
    BY <1>1, Bounded
  <2>2. Less(tokens, Unit) \in 0..(Capacity * Unit)
    BY <1>1, <2>1
  <2> QED BY <1>1, <1>2, <1>3, <2>2, GotoKeepsCalls, BucketKeepsInv DEF Wake
<1>4. CASE Acquire(c) /\ tokens >= Unit
  <2>1. tokens' = tokens - Unit /\ Goto(c, "granted")
    BY <1>4 DEF Acquire
  <2> QED BY <1>1, <1>2, <1>4, <2>1, GotoKeepsCalls, BucketKeepsInv
<1>5. CASE Acquire(c) /\ ~(tokens >= Unit)
  <2>1. /\ tokens' = tokens
        /\ call' = [call EXCEPT ![c] = [at |-> "asleep", left |-> Unit - tokens]]
    BY <1>5 DEF Acquire
  <2>2. [at |-> "asleep", left |-> Unit - tokens] \in CallRecord
    BY <1>1, <1>5 DEF CallRecord
  <2>3. call' \in [Calls -> CallRecord]
    BY <1>1, <2>1, <2>2
  <2> QED BY <1>1, <1>2, <2>1, <2>3, BucketKeepsInv
<1> QED BY <1>3, <1>4, <1>5

LEMMA ExecuteKeepsInv ==
  ASSUME Inv, NEW c \in Calls, Execute(c)
  PROVE  Inv'
<1> USE GuardedClientAssumption DEF history
<1>1. call' \in [Calls -> CallRecord]
  BY GotoKeepsCalls DEF Execute
<1>2. UNCHANGED <<tokens, failedAgo, wait, healthy, openedAgo, goodInARow>>
  BY DEF Execute
<1>3. \/ UNCHANGED <<state, successes>>
      \/ state = "OPEN" /\ ~(wait > 0) /\ state' = "HALF_OPEN" /\ successes' = 0
  BY DEF Execute
<1>4. wait \in Nat /\ openedAgo \in 0..timeout /\ timeout \in Nat /\ goodInARow \in Nat
  BY DEF Inv, TypeOK
<1>5. TypeOK'
  BY <1>1, <1>2, <1>3 DEF Inv, TypeOK, CircuitState, CallRecord
<1>6. ClosedMeansFewFailures'
  BY <1>2, <1>3 DEF Inv, ClosedMeansFewFailures
<1>7. Waiting'
  BY <1>2, <1>3, <1>4 DEF Inv, Waiting
<1>8. ProbesAreRecent'
  BY <1>2, <1>3, <1>4 DEF Inv, ProbesAreRecent
<1> QED BY <1>5, <1>6, <1>7, <1>8 DEF Inv

LEMMA SuccessKeepsInv ==
  ASSUME Inv, NEW c \in Calls, OnSuccess(c)
  PROVE  /\ Inv'
         /\ state # "CLOSED" /\ state' = "CLOSED" => goodInARow' = successThreshold
<1> USE GuardedClientAssumption
<1>1. call' \in [Calls -> CallRecord]
  BY GotoKeepsCalls DEF OnSuccess
<1>2. /\ goodInARow' = AtMost(successThreshold, goodInARow + 1)
      /\ UNCHANGED <<tokens, wait, healthy, openedAgo>>
  BY DEF OnSuccess
<1>3. /\ goodInARow \in 0..successThreshold /\ successes \in 0..(successThreshold - 1)
      /\ successThreshold \in Nat
  BY DEF Inv, TypeOK
<1>4. /\ goodInARow' \in 0..successThreshold
      /\ goodInARow' = goodInARow + 1 \/ goodInARow' = successThreshold
  BY <1>2, <1>3, Bounded
<1>5. CASE state # "HALF_OPEN"
  <2>1. UNCHANGED <<state, successes, failedAgo>>
    BY <1>5 DEF OnSuccess
  <2>2. TypeOK'
    BY <1>1, <1>2, <1>4, <2>1 DEF Inv, TypeOK, CallRecord
  <2> QED BY <1>2, <1>5, <2>1, <2>2
         DEF Inv, ClosedMeansFewFailures, Waiting, ProbesAreRecent
<1>6. CASE state = "HALF_OPEN" /\ successes + 1 >= successThreshold
  <2>1. state' = "CLOSED" /\ successes' = 0 /\ failedAgo' = <<>>
    BY <1>6 DEF OnSuccess
  <2>2. goodInARow' = successThreshold
    BY <1>2, <1>3, <1>6, Bounded DEF Inv, ProbesAreRecent
  <2>3. TypeOK'
    BY <1>1, <1>2, <1>3, <1>4, <2>1 DEF Inv, TypeOK, CircuitState, CallRecord
  <2>4. ClosedMeansFewFailures' /\ Waiting' /\ ProbesAreRecent'
    BY <1>2, <1>6, <2>1 DEF Inv, ClosedMeansFewFailures, Waiting, ProbesAreRecent
  <2> QED BY <2>2, <2>3, <2>4 DEF Inv
<1>7. CASE state = "HALF_OPEN" /\ ~(successes + 1 >= successThreshold)
  <2>1. state' = state /\ successes' = successes + 1 /\ failedAgo' = failedAgo
    BY <1>7 DEF OnSuccess
  <2>2. TypeOK'
    BY <1>1, <1>2, <1>3, <1>4, <1>7, <2>1 DEF Inv, TypeOK, CallRecord
  <2>3. successes' <= goodInARow'
    BY <1>3, <1>4, <1>7, <2>1 DEF Inv, ProbesAreRecent
  <2>4. ClosedMeansFewFailures' /\ Waiting' /\ ProbesAreRecent'
    BY <1>2, <1>7, <2>1, <2>3 DEF Inv, ClosedMeansFewFailures, Waiting, ProbesAreRecent
  <2> QED BY <1>7, <2>1, <2>2, <2>4 DEF Inv
<1> QED BY <1>5, <1>6, <1>7

LEMMA FailureKeepsInv ==
  ASSUME Inv, NEW c \in Calls, OnFailure(c)
  PROVE  Inv' /\ (state' = "CLOSED" => state = "CLOSED")
<1> USE GuardedClientAssumption
<1>1. call' \in [Calls -> CallRecord]
  BY GotoKeepsCalls DEF OnFailure
<1>2. failedAgo' \in Seq(0..(rollingWindow + 1))
  BY FailuresRecorded DEF OnFailure, Inv, TypeOK
<1>3. goodInARow' = 0 /\ UNCHANGED <<tokens, healthy>>
  BY DEF OnFailure
<1>4. CASE state = "HALF_OPEN" \/ Len(failedAgo') >= failureThreshold
  <2>1. state' = "OPEN" /\ successes' = 0 /\ wait' = timeout /\ openedAgo' = 0
    BY <1>4 DEF OnFailure
  <2>2. TypeOK'
    BY <1>1, <1>2, <1>3, <2>1 DEF Inv, TypeOK, CircuitState, CallRecord
  <2> QED BY <2>1, <2>2 DEF Inv, ClosedMeansFewFailures, Waiting, ProbesAreRecent
<1>5. CASE ~(state = "HALF_OPEN" \/ Len(failedAgo') >= failureThreshold)
  <2>1. UNCHANGED <<state, successes, wait, openedAgo>>
    BY <1>5 DEF OnFailure
  <2>2. TypeOK'
    BY <1>1, <1>2, <1>3, <2>1 DEF Inv, TypeOK, CallRecord
  <2>3. Len(failedAgo') < failureThreshold
    BY <1>2, <1>5
  <2> QED BY <1>5, <2>1, <2>2, <2>3
         DEF Inv, ClosedMeansFewFailures, Waiting, ProbesAreRecent
<1> QED BY <1>4, <1>5

LEMMA TickKeepsInv ==
  ASSUME Inv, Tick
  PROVE  Inv'
<1> USE GuardedClientAssumption
<1>1. /\ tokens \in Nat /\ wait \in 0..timeout /\ openedAgo \in 0..timeout
      /\ timeout \in Nat /\ Capacity * Unit \in Nat
      /\ failedAgo \in Seq(0..(rollingWindow + 1))
  BY DEF Inv, TypeOK
<1>2. tokens' \in 0..(Capacity * Unit)
  <2>1. tokens + 1 \in Nat
    BY <1>1
  <2>2. AtMost(Capacity * Unit, tokens + 1) \in 0..(Capacity * Unit)
    BY <1>1, <2>1, Bounded
  <2> QED BY <2>2 DEF Tick
<1>3. call' \in [Calls -> CallRecord]
  <2>1. \A c \in Calls : call[c] \in CallRecord
    BY DEF Inv, TypeOK, CallRecord
  <2>2. ASSUME NEW c \in Calls PROVE Less(call[c].left, 1) \in 0..Unit
    <3>1. call[c].left \in 0..Unit
      BY <2>1 DEF CallRecord
    <3> QED BY <3>1 DEF Less
  <2>3. \A c \in Calls : [call[c] EXCEPT !.left = Less(call[c].left, 1)] \in CallRecord
    BY <2>1, <2>2 DEF CallRecord
  <2> QED BY <2>3 DEF Tick
<1>4. failedAgo' \in Seq(0..(rollingWindow + 1)) /\ Len(failedAgo') = Len(failedAgo)
  <2>1. \A i \in 1..Len(failedAgo) :
          AtMost(rollingWindow + 1, failedAgo[i] + 1) \in 0..(rollingWindow + 1)
    BY <1>1 DEF AtMost
  <2>2. failedAgo' = [i \in 1..Len(failedAgo) |->
                        AtMost(rollingWindow + 1, failedAgo[i] + 1)]
    BY DEF Tick
  <2>3. Len(failedAgo) \in Nat
    BY <1>1
  <2> QED BY <2>1, <2>2, <2>3
<1>5. /\ wait' \in 0..timeout /\ openedAgo' \in 0..timeout
      /\ wait' = wait - 1 \/ (wait = 0 /\ wait' = 0)
      /\ openedAgo' = openedAgo + 1 \/ openedAgo' = timeout
      /\ openedAgo = timeout => openedAgo' = timeout
  <2>1. wait' = Less(wait, 1) /\ openedAgo' = AtMost(timeout, openedAgo + 1)
    BY DEF Tick
  <2> QED BY <1>1, <2>1 DEF Less, AtMost
<1>6. UNCHANGED <<state, successes, healthy, goodInARow>>
  BY DEF Tick
<1>7. TypeOK'
  BY <1>2, <1>3, <1>4, <1>5, <1>6 DEF Inv, TypeOK, CallRecord
<1>8. ClosedMeansFewFailures' /\ ProbesAreRecent'
  BY <1>4, <1>6 DEF Inv, ClosedMeansFewFailures, ProbesAreRecent
<1>9. Waiting'
  <2>1. CASE state = "OPEN"
    <3>1. wait + openedAgo >= timeout
      BY <2>1 DEF Inv, Waiting
    <3>2. wait' + openedAgo' >= timeout
      <4>1. CASE openedAgo' = timeout
        <5>1. timeout \in Nat /\ wait' \in Nat /\ openedAgo' = timeout
          BY <1>1, <1>5, <4>1
        <5>2. \A a, b \in Nat : a + b >= b
          OBVIOUS
        <5> QED BY <5>1, <5>2
      <4>2. CASE openedAgo' # timeout
        <5>1. openedAgo # timeout /\ openedAgo' = openedAgo + 1
          BY <1>5, <4>2
        <5>2. wait' = wait - 1
          BY <1>1, <1>5, <3>1, <5>1
        <5> QED BY <1>1, <3>1, <5>1, <5>2
      <4> QED BY <4>1, <4>2
    <3> QED BY <1>6, <2>1, <3>2 DEF Waiting
  <2>2. CASE state # "OPEN"
    BY <1>5, <1>6, <2>2 DEF Inv, Waiting
  <2> QED BY <2>1, <2>2
<1> QED BY <1>7, <1>8, <1>9 DEF Inv

-----------------------------------------------------------------------------
LEMMA StepKeepsInv ==
  ASSUME Inv, [Next]_vars
  PROVE  Inv'
<1>0. /\ tokens \in 0..(Capacity * Unit) /\ call \in [Calls -> CallRecord]
      /\ healthy \in BOOLEAN
  BY DEF Inv, TypeOK, CallRecord
<1>1. CASE UNCHANGED vars
  BY <1>0, <1>1, BucketKeepsInv DEF vars
<1>2. ASSUME NEW c \in Calls, Acquire(c) \/ Wake(c) \/ Execute(c) \/ Return(c)
      PROVE  Inv'
  BY <1>2, AcquireKeepsInv, ExecuteKeepsInv, SuccessKeepsInv, FailureKeepsInv DEF Return
<1>3. CASE Tick
  BY <1>3, TickKeepsInv
<1>4. CASE ChangeHealth
  <2>1. healthy' \in BOOLEAN /\ UNCHANGED <<tokens, breaker, call, history>>
    BY <1>4 DEF ChangeHealth
  <2> QED BY <1>0, <2>1, BucketKeepsInv
<1> QED BY <1>1, <1>2, <1>3, <1>4 DEF Next, Call

LEMMA InvHolds == Spec => []Inv
BY InitInv, StepKeepsInv, PTL DEF Spec

\* Bucket, breaker and calls keep their types: the bucket never holds more than
\* its capacity and never less than nothing.
THEOREM TypeCorrect == Spec => []TypeOK
<1>1. Inv => TypeOK
  BY DEF Inv
<1> QED BY <1>1, InvHolds, PTL

\* However calls overlap, a closed breaker is below its threshold.
THEOREM ClosedCorrect == Spec => []ClosedMeansFewFailures
<1>1. Inv => ClosedMeansFewFailures
  BY DEF Inv
<1> QED BY <1>1, InvHolds, PTL

\* No call is sent within timeout of the failure that opened the breaker.
THEOREM QuietCorrect == Spec => QuietAfterOpening
<1>1. ASSUME Inv, [Next]_vars, NEW c \in Calls, At(c, "granted"), At(c, "sent")'
      PROVE  openedAgo = timeout
  <2> USE GuardedClientAssumption
  <2>t. /\ call \in [Calls -> CallRecord] /\ wait \in Nat /\ timeout \in Nat
        /\ openedAgo \in 0..timeout
    BY <1>1 DEF Inv, TypeOK, CallRecord
  <2>1. CASE UNCHANGED vars \/ ChangeHealth
    BY <1>1, <2>1 DEF vars, ChangeHealth, At
  <2>2. CASE Tick
    <3>1. call'[c].at = call[c].at
      BY <2>2, <2>t DEF Tick, CallRecord
    <3> QED BY <1>1, <3>1 DEF At
  <2>3. ASSUME NEW d \in Calls, Acquire(d) \/ Wake(d) \/ Return(d)
        PROVE  FALSE
    <3>1. \A e \in Calls : call'[e] = call[e] \/ call'[e].at # "sent"
      BY <2>3, <2>t DEF Acquire, Wake, Return, OnSuccess, OnFailure, Goto
    <3> QED BY <1>1, <3>1 DEF At
  <2>4. ASSUME NEW d \in Calls, Execute(d)
        PROVE  openedAgo = timeout
    <3>1. CASE state = "OPEN" /\ wait > 0
      <4>1. call' = [call EXCEPT ![d] = [at |-> "idle", left |-> 0]]
        BY <2>4, <3>1 DEF Execute, Goto
      <4> QED BY <1>1, <2>t, <4>1 DEF At
    <3>2. CASE ~(state = "OPEN" /\ wait > 0)
      BY <1>1, <2>t, <3>2 DEF Inv, Waiting
    <3> QED BY <3>1, <3>2
  <2> QED BY <1>1, <2>1, <2>2, <2>3, <2>4 DEF Next, Call
<1>2. Inv /\ [Next]_vars =>
        [\A c \in Calls : At(c, "granted") /\ At(c, "sent")' => openedAgo = timeout]_vars
  BY <1>1
<1> QED BY <1>2, InvHolds, PTL DEF Spec, QuietAfterOpening

\* Only successThreshold successes in a row close a breaker that opened.
THEOREM ClosingCorrect == Spec => ClosedByProof
<1>1. ASSUME Inv, [Next]_vars, state # "CLOSED", state' = "CLOSED"
      PROVE  goodInARow' = successThreshold
  <2>1. ASSUME NEW c \in Calls, Acquire(c) \/ Wake(c)
        PROVE  state' = state
    BY <2>1 DEF Acquire, Wake, breaker
  <2>2. ASSUME NEW c \in Calls, Execute(c)
        PROVE  state' \in {state, "HALF_OPEN"}
    BY <2>2 DEF Execute
  <2>3. Tick \/ ChangeHealth \/ UNCHANGED vars => state' = state
    BY DEF Tick, ChangeHealth, breaker, vars
  <2> QED BY <1>1, <2>1, <2>2, <2>3, SuccessKeepsInv, FailureKeepsInv DEF Next, Call, Return
<1>2. Inv /\ [Next]_vars =>
        [state # "CLOSED" /\ state' = "CLOSED" => goodInARow' = successThreshold]_vars
  BY <1>1
<1> QED BY <1>2, InvHolds, PTL DEF Spec, ClosedByProof
=============================================================================
