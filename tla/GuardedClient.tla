----------------------------- MODULE GuardedClient -----------------------------
(***************************************************************************)
(* A client of another service as the geo, pricing, driver-session and     *)
(* profile clients all build it: a call takes a token from the bucket      *)
(* (token-bucket.rate-limiter.ts) and is then executed behind a circuit    *)
(* breaker (circuit-breaker.ts).  Bucket and breaker are shared by all     *)
(* calls of one endpoint, which overlap at every await.                    *)
(*                                                                         *)
(* Time is kept relative to now: how long a sleeper still sleeps, how old  *)
(* a failure is, how long the breaker still rejects.  What the code        *)
(* refills when it looks at the bucket, Tick refills as time passes.       *)
(***************************************************************************)
EXTENDS Naturals, Sequences

CONSTANTS
  Calls,      \* bound: calls under way at the same time
  Capacity,   \* of the bucket, in tokens
  Unit,       \* ticks that refill a token
  failureThreshold, successThreshold,
  timeout, rollingWindow   \* in ticks

ASSUME GuardedClientAssumption ==
  /\ Capacity \in Nat \ {0} /\ Unit \in Nat \ {0}
  /\ failureThreshold \in Nat \ {0} /\ successThreshold \in Nat \ {0}
  /\ timeout \in Nat /\ rollingWindow \in Nat

VARIABLES
  tokens,     \* level of the bucket, a token being Unit
  state,
  successes,
  failedAgo,  \* failureTimestamps, as ages
  wait,       \* until nextAttemptTime, 0 when it has passed
  call,
  healthy,    \* whether the other service answers
  openedAgo,  \* history: since nextAttemptTime was set, at most timeout
  goodInARow  \* history: successes since the last failure, at most successThreshold

breaker == <<state, successes, failedAgo, wait>>
history == <<openedAgo, goodInARow>>
vars    == <<tokens, breaker, call, healthy, history>>

CircuitState == {"CLOSED", "OPEN", "HALF_OPEN"}

Idle == [at |-> "idle", left |-> 0]

TypeOK ==
  /\ tokens \in 0..(Capacity * Unit)
  /\ state \in CircuitState
  /\ successes \in 0..(successThreshold - 1)
  /\ failedAgo \in Seq(0..(rollingWindow + 1))
  /\ wait \in 0..timeout
  /\ call \in [Calls -> [at : {"idle", "asleep", "granted", "sent"}, left : 0..Unit]]
  /\ healthy \in BOOLEAN
  /\ openedAgo \in 0..timeout
  /\ goodInARow \in 0..successThreshold

Init ==
  /\ tokens = Capacity * Unit
  /\ state = "CLOSED"
  /\ successes = 0
  /\ failedAgo = <<>>
  /\ wait = 0
  /\ call = [c \in Calls |-> Idle]
  /\ healthy = TRUE
  /\ openedAgo = timeout
  /\ goodInARow = 0

-----------------------------------------------------------------------------
AtMost(bound, n) == IF n <= bound THEN n ELSE bound
Less(n, k)       == IF n >= k THEN n - k ELSE 0

At(c, point)   == call[c].at = point
Goto(c, point) == call' = [call EXCEPT ![c] = [at |-> point, left |-> 0]]

(* acquire, for one token. *)

Acquire(c) ==
  /\ At(c, "idle")
  /\ IF tokens >= Unit
       THEN tokens' = tokens - Unit /\ Goto(c, "granted")
       ELSE /\ call' = [call EXCEPT ![c] = [at |-> "asleep", left |-> Unit - tokens]]
            /\ UNCHANGED tokens
  /\ UNCHANGED <<breaker, healthy, history>>

\* The sleep is over, and the call goes on whatever is in the bucket by now.
Wake(c) ==
  /\ At(c, "asleep") /\ call[c].left = 0
  /\ tokens' = Less(tokens, Unit)
  /\ Goto(c, "granted")
  /\ UNCHANGED <<breaker, healthy, history>>

-----------------------------------------------------------------------------
(* execute *)

\* Starts over with every probe.
ExecuteResettingProbes(c) ==
  /\ At(c, "granted")
  /\ IF state = "OPEN" /\ wait > 0
       THEN Goto(c, "idle") /\ UNCHANGED <<state, successes>>
       ELSE /\ Goto(c, "sent")
            /\ state' = IF state = "OPEN" THEN "HALF_OPEN" ELSE state
            /\ successes' = 0
  /\ UNCHANGED <<tokens, failedAgo, wait, healthy, history>>

\* In HALF_OPEN every call is a probe.
Execute(c) ==
  /\ At(c, "granted")
  /\ IF state = "OPEN" /\ wait > 0
       THEN Goto(c, "idle") /\ UNCHANGED <<state, successes>>
       ELSE /\ Goto(c, "sent")
            /\ state' = IF state = "OPEN" THEN "HALF_OPEN" ELSE state
            /\ successes' = IF state = "OPEN" THEN 0 ELSE successes
  /\ UNCHANGED <<tokens, failedAgo, wait, healthy, history>>

\* One success closes the breaker.
OnSuccessAtOnce(c) ==
  /\ At(c, "sent")
  /\ Goto(c, "idle")
  /\ IF state = "HALF_OPEN"
       THEN state' = "CLOSED" /\ successes' = 0 /\ failedAgo' = <<>>
       ELSE UNCHANGED <<state, successes, failedAgo>>
  /\ goodInARow' = AtMost(successThreshold, goodInARow + 1)
  /\ UNCHANGED <<tokens, wait, healthy, openedAgo>>

\* Closes, and keeps the failures it opened for.
OnSuccessKeepingFailures(c) ==
  /\ At(c, "sent")
  /\ Goto(c, "idle")
  /\ IF state = "HALF_OPEN"
       THEN IF successes + 1 >= successThreshold
              THEN state' = "CLOSED" /\ successes' = 0
              ELSE successes' = successes + 1 /\ UNCHANGED state
       ELSE UNCHANGED <<state, successes>>
  /\ goodInARow' = AtMost(successThreshold, goodInARow + 1)
  /\ UNCHANGED <<tokens, failedAgo, wait, healthy, openedAgo>>

\* A late success counts as a probe of the HALF_OPEN state it arrives in.
OnSuccess(c) ==
  /\ At(c, "sent")
  /\ Goto(c, "idle")
  /\ IF state = "HALF_OPEN"
       THEN IF successes + 1 >= successThreshold
              THEN state' = "CLOSED" /\ successes' = 0 /\ failedAgo' = <<>>
              ELSE successes' = successes + 1 /\ UNCHANGED <<state, failedAgo>>
       ELSE UNCHANGED <<state, successes, failedAgo>>
  /\ goodInARow' = AtMost(successThreshold, goodInARow + 1)
  /\ UNCHANGED <<tokens, wait, healthy, openedAgo>>

\* Appends a failure of now, and drops the oldest ones while they are outside
\* the window.
RecordFailure ==
  LET all == Append(failedAgo, 0)
  IN  \E first \in 1..Len(all) :
        /\ \A i \in 1..(first - 1) : all[i] > rollingWindow
        /\ all[first] <= rollingWindow
        /\ failedAgo' = SubSeq(all, first, Len(all))

\* Opens again after a failed probe without a new waiting time.
OnFailureForgetfully(c) ==
  /\ At(c, "sent") /\ ~healthy
  /\ Goto(c, "idle")
  /\ RecordFailure
  /\ IF state = "HALF_OPEN" \/ Len(failedAgo') >= failureThreshold
       THEN /\ state' = "OPEN" /\ successes' = 0 /\ openedAgo' = 0
            /\ wait' = IF state = "HALF_OPEN" THEN wait ELSE timeout
       ELSE UNCHANGED <<state, successes, wait, openedAgo>>
  /\ goodInARow' = 0
  /\ UNCHANGED <<tokens, healthy>>

\* A late failure counts in whatever state it arrives: in OPEN it can prolong
\* the waiting time.
OnFailure(c) ==
  /\ At(c, "sent") /\ ~healthy
  /\ Goto(c, "idle")
  /\ RecordFailure
  /\ IF state = "HALF_OPEN" \/ Len(failedAgo') >= failureThreshold
       THEN /\ state' = "OPEN" /\ successes' = 0
            /\ wait' = timeout /\ openedAgo' = 0
       ELSE UNCHANGED <<state, successes, wait, openedAgo>>
  /\ goodInARow' = 0
  /\ UNCHANGED <<tokens, healthy>>

-----------------------------------------------------------------------------
\* Refills beyond the capacity.
TickOverflowing ==
  /\ tokens' = tokens + 1
  /\ call' = [c \in Calls |-> [call[c] EXCEPT !.left = Less(@, 1)]]
  /\ wait' = Less(wait, 1)
  /\ failedAgo' = [i \in 1..Len(failedAgo) |-> AtMost(rollingWindow + 1, failedAgo[i] + 1)]
  /\ openedAgo' = AtMost(timeout, openedAgo + 1)
  /\ UNCHANGED <<state, successes, healthy, goodInARow>>

Tick ==
  /\ tokens' = AtMost(Capacity * Unit, tokens + 1)
  /\ call' = [c \in Calls |-> [call[c] EXCEPT !.left = Less(@, 1)]]
  /\ wait' = Less(wait, 1)
  /\ failedAgo' = [i \in 1..Len(failedAgo) |-> AtMost(rollingWindow + 1, failedAgo[i] + 1)]
  /\ openedAgo' = AtMost(timeout, openedAgo + 1)
  /\ UNCHANGED <<state, successes, healthy, goodInARow>>

\* The other service fails, or answers again.
ChangeHealth ==
  /\ healthy' = ~healthy
  /\ UNCHANGED <<tokens, breaker, call, history>>

\* The answer comes, or an error or the timeout of the request.
Return(c) == OnSuccess(c) \/ OnFailure(c)

\* A method of a client: a token, then the request behind the breaker.
Call(c) == Acquire(c) \/ Wake(c) \/ Execute(c) \/ Return(c)

Next ==
  \/ \E c \in Calls : Call(c)
  \/ Tick
  \/ ChangeHealth

Spec == Init /\ [][Next]_vars

\* Time passes, timers fire, HTTP requests end (they have a timeout), and the
\* use cases go on making calls.
Fairness ==
  /\ WF_vars(Tick)
  /\ \A c \in Calls :
       WF_vars(Acquire(c)) /\ WF_vars(Wake(c)) /\ WF_vars(Execute(c)) /\ WF_vars(Return(c))

FairSpec == Spec /\ Fairness

-----------------------------------------------------------------------------
\* A closed breaker has recorded fewer failures than open it, also after it was
\* closed by calls that overlapped failing ones.
ClosedMeansFewFailures == state = "CLOSED" => Len(failedAgo) < failureThreshold

\* From the failure that opens the breaker on, whichever states it went through
\* since, no call is sent before timeout has passed.
QuietAfterOpening ==
  [][ \A c \in Calls :
        At(c, "granted") /\ At(c, "sent")' => openedAgo = timeout ]_vars

\* A breaker that opened closes only after successThreshold calls in a row have
\* succeeded, late answers and overlapping probes included.
ClosedByProof ==
  [][ state # "CLOSED" /\ state' = "CLOSED" => goodInARow' = successThreshold ]_vars

\* When the other service has recovered for good, the breaker closes for good,
\* as long as calls keep coming.
Recovers == <>[]healthy => <>[](state = "CLOSED")

\* token-bucket.rate-limiter.ts:55, "Waits until a token is available if the
\* bucket is empty": no call passes a bucket without a token.
WaitsForToken ==
  [][ \A c \in Calls : ~At(c, "granted") /\ At(c, "granted")' => tokens >= Unit ]_vars
=============================================================================
