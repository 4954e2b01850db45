# Verification of argo-trips

TLA+ models of argo-trips (MS04), the NestJS service that takes a trip from request to
payment, model-checked with TLC and proved about with TLAPS. Source paths below are
relative to the repository root (`src/src/trips/...` in the manifest is
`src/trips/...` here).

## 1. The system

One Node process per replica, an event loop, PostgreSQL through Prisma, Redis for
short-lived keys, Redis Streams as the event bus, and HTTP to the services for geography,
prices, driver sessions, profiles and payments. An HTTP request becomes one execution of
a use case. All of them have the same form:

    read the row -> check it -> call other services -> update the row
      -> set or delete Redis keys -> write the audit entry -> publish an event

Every arrow is an `await` at which other executions run. The update writes its patch by
primary key alone, whatever the status of the row is by then. No lock is taken, no
transaction spans two arrows, and nothing undoes an earlier step when a later one fails.

| component | state it keeps | operations | interacts with | what makes it correct |
|---|---|---|---|---|
| trip state machine (`trips/domain/state-machine`) | none, a pure function of a trip | eight commands | nothing calls it | handlers agree with the table (REQUEST does not); driver locked; timestamps tell a possible life |
| use cases (`trips/application`) | `trips`, `trip_audits`, `trip_cancellations` rows | create, accept, verify PIN, start, complete, cancel | everything below | they implement the state machine; charged once and only for a ride; records are true |
| PIN cache (`pin-cache.service.ts`) | four keys per trip: hash, display, attempts, blocked | set, validate, clear | accept, verify, cancel | one PIN per assignment; the block cannot be passed by |
| timers (`timer.service.ts`) | rider and driver no-show keys, offer key | set, check, clear | accept, verify, start, cancel | cleared when the reason is gone |
| events handler (`trip-events.handler.ts`) | none | payment.captured, payment.failed, driver.offline | bus, rows, audit | a captured payment ends as PAID |
| event bus (`event-bus.service.ts`) | consumer groups, pending entries, connection flag | publish, consume, recover, acknowledge | handler, use cases | at least once; nothing acknowledged that was not handled |
| payments client, HTTP service | none | createIntent with two retries | Payments service | one intent per completion |
| circuit breaker | state, failure times, probe count | execute, reset | HTTP clients | opens on the threshold, closes after enough successes |
| token bucket | tokens, time of the last refill | acquire, tryAcquire | HTTP clients | never passes more than capacity and rate allow |
| LRU and H3 caches | entries in order of use | get, set | geo client | the keys used last are kept, and no others |
| service token | cached token, renewal timer | ensure, fetch, schedule | HTTP clients | a valid token is used; renewal goes on |
| geo client | none of its own, the cache and the token | h3Encode | create | each operation gets its own result |
| pricing, session, profile clients; mappers; health; stub jobs and handlers | none | HTTP calls | use cases | outside the trip's own state |
| trip lock; idempotency | one key with a TTL; stored responses | acquire, release; intercept | nothing calls them | never run |

Hard behaviours: requests about one trip that overlap; crashes and throws between two
awaits; a POST that is sent again after its answer was lost; keys that expire while a
request is under way; a payment event that overtakes the completion it belongs to;
at-least-once delivery to a handler of two writes; a cache and a token that calls share and
read at other times than they write them. `PROJECT.json` lists them under
`hazards`, each at its line, with the properties that would notice.

## 2. Modules

| module | lines up with | role |
|---|---|---|
| `TripStateMachine` | `trip.state-machine.ts` | abstract specification of one trip |
| `TripUseCases` | `*.use-case.ts`, repositories, PIN cache, timers, `payment.captured` | the service as interleaving executions |
| `TripLifecycle` | the two beside each other | refinement mapping, and the properties about the state machine's table |
| `PinCache` | `pin-cache.service.ts` | one trip's PIN, attempt counter and block under overlapping validations |
| `Inbox` | | abstract specification of the event bus: at least once |
| `EventBus` | `event-bus.service.ts` | consumer group, pending entries, recovery, replicas |
| `GuardedClient` | `circuit-breaker.ts`, `token-bucket.rate-limiter.ts`, the HTTP clients | one endpoint behind its rate limiter and its breaker |
| `ServiceToken` | `service-token.service.ts` | the token of every request: overlapping logins, renewal |
| `LruCache` | `lru-cache.ts` | operators on the cache, a sequence of entries |
| `H3Encode` | `geo.client.ts` (`h3Encode`), `h3-cache.service.ts` | batches answered from cache and service; extends the two above |
| `MCTripStateMachine`, `MCTripLifecycle`, `MCPinCache`, `MCEventBus`, `MCGuardedClient`, `MCH3Encode` | | instances for TLC |
| `TripStateMachine_proofs` | | TLAPS proofs about the state machine |
| `TripUseCases_proofs` | | TLAPS proof of type correctness of the use cases |
| `TripSafety_proofs` | | TLAPS proofs of the invariants of every interleaving |
| `TripLifecycle_proofs` | | TLAPS proofs that writes follow the table, and that requests which do not overlap implement the state machine and keep captured payments |
| `PinCache_proofs`, `EventBus_proofs`, `GuardedClient_proofs`, `H3Encode_proofs` | | TLAPS proofs about these modules |

Operators that no action uses, such as `OnSuccessAtOnce` or `AdvanceForever`, are the
mutants listed in `PROJECT.json`: plausible mistakes in the code that a property of the
same module notices.

### TripStateMachine

`trip` is a trip record with status, driver, payment intent and `stamps`, the set of the
statuses whose timestamp (`requestedAt`, ..., `cancelAt`) is not null. One action per
`handle...` method, in the method's terms: accepted statuses, driver checks, actor
authorization (a context without an actor passes, as in the code), PIN given, distance up
to 80 m, offer not expired. A command that throws, or whose target status is already
reached, leaves the trip as it was and is a stuttering step. Data that is required and
then only stored (metrics, pricing snapshot, reason) is left out.

`handleRequest` looks at no status. Its comment (`trip.state-machine.ts:93`) calls it
"null -> REQUESTED", but the code takes a trip that is PAID or CANCELED to REQUESTED just as
well, with its driver, intent and other timestamps left in place, and the table has no such
entry. The module does what the code does, and the properties are what is true with it:
`HandlersFollowTable` excepts REQUEST (and says what it leaves alone), `StampsTellTheLife`
does not claim that a terminal status is the last one.

The repository never calls the class: its use cases check the status by themselves. The
module is therefore what the service *promises*, and `TripLifecycle!Lifecycle` states that
the service keeps the promise.

### TripUseCases

| variable | code |
|---|---|
| `row` | a row of `trips`: status, `driverId`, `paymentIntentId`, whether `originH3Res7` is set, the set of non-null timestamps |
| `pinKey`, `displayKey` | `trip:{id}:pin` (the PIN its hash verifies, and the driver it was set for), `trip:{id}:pin:display` |
| `noShow` | which of the two no-show keys exist |
| `audit`, `cancellation`, `published` | status changes in `trip_audits`, trips in `trip_cancellations`, events the stream took |
| `intent`, `inbox` | intents of the Payments service, unacknowledged `payment.captured` events |
| `task` | the executions: the next await that changes state, the trip, the status read, the actor, and the local PIN or intent |

The actor of a task is who sent the request: a driver, an admin or, for a cancellation, the
rider. After the update of a completion or a cancellation it is the driver that the updated row
names, which is what the event will say.

A `Begin...` action is everything up to the first await that changes state: the read,
the checks on the row and the actor, and the calls whose result changes nothing here. A
step named after an await (`AcceptUpdate`, `VerifyClearPin`, ...) is one write of the
program, in program order. So between a read and the write that relies on it any other
execution can run, which is what the event loop does. `Promise.all` of several deletions
is one step whose outcome is any subset of them (`kept`).

Faults, each enabled by the constant `Faults`:

| fault | in the code |
|---|---|
| `abort` | an await throws, a check on an answer fails, or the process stops: what was written stays |
| `expiry` | Redis drops a key whose TTL is over |
| `deletion` | a DEL fails: `clearPin` throws, `clearNoShow` swallows it |
| `publish` | `publish` returns null since Redis is away, and the use case goes on |
| `payments` | the POST to Payments times out after the intent was issued, and is retried |

Verifying a PIN has one step for a match. Every other outcome of `isBlocked` and
`validatePin` ends the request without a change to what is modelled and is an `Abort`.

### TripLifecycle

`SM(t)` instantiates the state machine for the row of trip `t`. `Lifecycle` says that
every change of that row is a step of the state machine or leaves it alone, with the
machine's guards on driver, intent and timestamps. Context that the machine takes from
its caller is existentially quantified there (`Next` quantifies over actors, PIN and
distance). REQUEST is the one step of the machine that is restricted: a row is REQUESTED only
if there was none (`TripStep`), since the refinement should not inherit the gap of
`handleRequest`. Each row is created once, and that is what the use cases do. In particular
the machine wants a verified distance of at most 80 m at pickup,
which `verify-pin.use-case.ts` never checks, and the refinement does not notice that.

### PinCache

| variable | code |
|---|---|
| `pin` | `trip:{id}:pin`, abstracted to the PIN whose hash it is |
| `attempts`, `blocked` | `trip:{id}:pin:attempts` (0 without a key), `trip:{id}:pin:blocked` |
| `first` | which of these two expires first; both live 15 minutes from their last SET |
| `call` | the executions: the next Redis call, the PIN given, the counter read |
| `counted`, `recent`, `apart` | history, read by the properties only |

One action per Redis call. A verification asks `isBlocked` twice (the use case and
`validatePin`), and where Redis fails there the answer is "not blocked", as in the code.
A wrong PIN is GET, SET of the value read plus one, GET again, and perhaps SET of the
block. `Fail` is a call that throws, or the process stopping, at any of these points.

### EventBus and Inbox

| variable | code |
|---|---|
| `stream` | the stream, by kind of message |
| `group`, `cursor`, `pending` | the consumer group in Redis, its last delivered id, its pending entries |
| `rested` | pending entries that have been idle for `PEL_IDLE_TIME_MS` |
| `boot`, `online` | progress of `onModuleInit`, `isConnected`, per replica |
| `tick` | ticks of `consumeEvents` and `processPendingMessages` under way: replica and what is left of the batch |

The service reads two streams with the same code, and one stands for both. `setInterval`
does not wait for the tick before, so any number of ticks of a replica overlap. The
module of the handlers imports that of the bus, hence the consumer starts after the bus
has started, successfully or not. A message is an `event` with a handler, an `other`
without one, or `poison`, whose processing always throws. Faults: the connection is lost,
the answer to a read is lost after Redis made the messages pending, a handler throws,
XACK fails; besides these, replicas stop and start.

`Inbox` says what the rest of the service may rely on: an event is owed from its
publication (once the group exists) until it has been through processing and is
acknowledged. `EventBus!KeepsPromise` maps the messages that are unread or pending to
`owed`. `TripUseCases` takes from this that `payment.captured` stays in `inbox` until
`CapturedAck`.

### GuardedClient

A client method (`Call`) takes a token (`Acquire`, and `Wake` after its sleep), asks the
breaker (`Execute`) and ends with `OnSuccess` or `OnFailure`, which apply to whatever state
the breaker has by then. `tokens`, `state`, `successes` and `failedAgo` are the fields of the
two classes; `healthy` is the other service.

Clock values are kept relative to now: ages of failures, rest of a sleep, rest of
`timeout`. `Tick` moves all of them at once, which is what makes the state space finite, and
ages beyond the window are alike. The bucket is refilled by `Tick`, in the code by the
next look at it; a level in `Unit`s per token is the same number either way. Everything
between two awaits is one action.

### ServiceToken, LruCache and H3Encode

| variable | code |
|---|---|
| `token` | `cachedToken`: whether there is one (`held`), its life as the service counts it (`left`, from the arrival of the answer) and as the Auth service does (`valid`, from the moment of issue) |
| `timer` | `tokenRenewalTimer`, ticks until it fires |
| `fetch` | per execution, how long its login has been under way |
| `failed` | history: a login has failed since the last answer |
| `cache` | the `Map` of the LRU cache: entries in insertion order, the first one is evicted next |
| `call` | the executions of `h3Encode`: where they are, the batch, `results` with `None` for what the cache lacks, and `uncached`, the places of the operations that are posted (`uncachedIndexMap`) |
| `recent` | history: the `MaxSize` keys found or stored last |

Times are relative to now, as in `GuardedClient`. The Auth service is as slow as its timeout
allows, and any part of the time may have passed after it issued the token (`latency`).
Executions in `Background` belong to `onModuleInit` and to the timer, the others are calls of
`h3Encode`; each of them logs in by itself when the token is not `Fresh`. The service begins
with the login of `onModuleInit` and takes requests when it has ended, well or not (`Booted`).

A coordinate stands for latitude, longitude and resolution, and its cell has the same name.
`buildKey` rounds to six decimals, so `KeyOf` may give two coordinates one key although their
cells differ. The loop over the cache contains no await and is one action (`Encode`), but its rounds
cannot be taken at once, because each hit reorders the cache before the next lookup: `LookUps`
is the function from the number of rounds to what the loop has then. So is `Stores` for the loop
over the answer (`Respond`), which stores results one by one and throws in the middle when one
is missing. Rate limiter and breaker appear only as `Reject`; `GuardedClient` has their insides.

## 3. Runs

| run | instance | distinct states | shows |
|---|---|---|---|
| `state_machine` | 3 drivers, 2 intents | 709 | type, timestamps, driver locking, agreement of all handlers but REQUEST with the table |
| `serial` | 1 trip, 2 drivers, 1 admin, 2 PINs, 2 intents, 1 task, all faults, trip created by a request | about 121 000 | the use cases implement the state machine when requests do not overlap; one PIN per assignment; paid by the row's intent; the event of a captured payment waits until the trip is PAID; a driver verifies, starts, completes and cancels only the trip that names him, and accepts only one that names nobody |
| `concurrent` | 1 trip, 2 drivers, 1 PIN, 2 intents, 2 tasks | about 198 000 | what is true under every interleaving of two requests |
| `payment` | 1 task, 1 driver, 2 intents, aborts and lost answers, fairness | about 13 000 | a captured payment is eventually PAID |
| `pin_cache` | 2 calls, 2 PINs, MAX_ATTEMPTS 3, 5 wrong PINs, failures and expiry | about 74 000 | a block is always earned; the counter is exact while executions keep apart |
| `event_bus` | 2 replicas, 2 ticks, batches of 2, 1 message besides the dummies of each start, 1 crash, all faults | about 652 000 | nothing delivered is lost or acknowledged unprocessed; the bus implements `Inbox` |
| `delivery` | 1 replica, 1 tick, 2 messages, all faults, fairness | about 3 000 | what is owed is processed and acknowledged in the end |
| `guarded_client` | 3 calls, capacity 1, thresholds 2, timeout and window 2 ticks, fairness | about 94 000 | the breaker opens, stays quiet, closes on proof, and recovers |
| `h3_encode` | 2 calls and 1 background login, 3 batches over 4 coordinates with 3 keys, a cache of 2, lives of 4 ticks, fairness | about 332 000 | results belong to their operations; the cache keeps the keys used last; a trusted token is valid; renewal recovers |
| `races` | as `concurrent` | | counterexample: cancel overtaken by accept |
| `paid` | 2 tasks, no faults, fairness | | counterexample: capture before completion |
| `rate_limit` | 2 calls, otherwise as `guarded_client` | | counterexample: two calls on one token |

Bounds. One trip is enough because no action reads or writes another trip's state.
Two drivers, PINs and intents are enough to tell "the same" from "another", three drivers
in the small machine. Two tasks give every pair of racing requests, and after a task has
returned it runs the next request, so sequences of any length occur. `Existing` starts a
concurrent instance with a requested trip, since the only execution that can precede it is
its own creation, which the serial run covers. `Operations` and `Faults` are the only
bounds in the guards; everything else in the model is finite by itself, intents because
each is issued once. Drivers, PINs, intents and tasks are interchangeable in the
specification and in the invariants and step properties, hence the symmetry sets; the two
runs of a liveness property use none. The proofs below cover all values of the constants.

`PinCache`: two calls are enough for every race between a GET and a SET, three wrong PINs
for a block, five for a block that is passed or set again. `EventBus`: `Batch` 2 with up to
four messages (two dummies, one more after a crash, one event) gives full and partial batches,
claims of entries whose handler is still at work, and a group created before, between and
after messages; two ticks serve for one replica's overlap and for two replicas'.
`GuardedClient`: three calls are a late failure beside two probes, or a late success
among them; with thresholds of two "one is not enough" occurs on both sides. `MaxTries`,
`MaxEvents` and `MaxCrashes` are the bounds in guards there.

`H3Encode`: two calls and one background execution give three logins at once, in any order of
their answers. One batch has two keys, one mixes a `kRing` with an encode, one has two
coordinates that share a key, so that its second store replaces its first; with three keys and
two places in the cache a call finds its entry evicted, reordered or replaced while it waits. Ticks keep the order of the
program's times: the threshold (300 s, 3 ticks) is longer than two timeouts of the Auth
service (5 s, 1 tick each) and than the longest request, three tries of 5 s (2 ticks);
`ServiceTokenAssumption` asks for no more than that a login and a request fit into the threshold.
A life of 4 ticks is fresh for one tick, so renewals, failures and fallbacks to an old token
follow each other all the time. `Executions` bounds the logins under way; there is no other
bound, and the state space is finite because nothing outlives its time.

Deadlock is checked in `state_machine`, where REQUEST is always possible, `guarded_client`,
`rate_limit` and `h3_encode`, where time always passes. Elsewhere it is not: the service rests when
no client asks for anything, and in a bounded instance a trip that is paid or canceled has nothing left to do.

Fairness (`delivery`). Replicas start and reconnect, and a tick under way goes on (weak):
ioredis retries for ever and so does the platform. The two intervals fire for ever, and
for each message a claim, a handler and an acknowledgement that are possible again and again
succeed at some time (strong): faults may repeat any number of times, but not for ever.
A poison message has no such assumption, since it never completes.

Fairness (`guarded_client`). Time passes, a sleep ends, a request ends by its answer or its
HTTP timeout, and use cases keep calling the endpoint. Whether the other service is
healthy is left open; `Recovers` is about runs in which it becomes so for good.

Fairness (`h3_encode`). Time passes, the timer fires, and every await ends: limiter and breaker
decide, a login and a request have a timeout. This is said by weak fairness of the error that
ends each of them, which a success before it disables, so no await need ever succeed.
`StaysValid` is about runs in which logins fail no more and requests are sent now and then: the
second premise is needed since after a failed renewal only a request logs in again.

Fairness (`payment`, `paid`). Weak fairness of `Step(k)`: the event loop resumes every
execution whose await has resolved. Weak fairness of delivery, per event: the consumer
polls every second, and recovery of pending entries every 30 seconds claims what was read
and not acknowledged. Strong fairness of the handler's update: executions may be cut off
again and again, and the claim is about a database that does not fail for ever. Nothing is
assumed of clients, of the Payments service, or of faults.

### What the counterexamples say

* `races`. An acceptance that read REQUESTED writes ASSIGNED over a cancellation that came in
  between. CANCELED is terminal in the table. The same step lets two acceptances succeed: both
  read the row, both pass the checks, and the second driver replaces the first, the opposite of
  what the state machine calls its driver locking invariant.
* `paid`. `complete` creates the intent, then writes COMPLETED. A capture that is
  delivered in between finds IN_PROGRESS, logs a warning and returns; the bus acknowledges
  the event and the trip stays COMPLETED. README line 124 promises the update to PAID.

* `rate_limit`. `acquire` computes its delay from the bucket and sleeps without having
  reserved anything. Two callers that find it empty sleep equally long; the first takes the token,
  and the second goes on too, with `Math.max(0, tokens - 1)`. The comment of the method says that
  it waits until a token is available. With many waiters the rate is exceeded by as many.

What the modules say and the comments do not, without a run of its own: `handleRequest` takes
any trip back to REQUESTED, terminal ones included, although its comment says that it creates
a trip and `validTransitions` has no way out of PAID and CANCELED; as nothing calls the class
this has no effect today, and would have one as soon as use cases dispatched commands through
it. A message that
always throws is claimed and retried for ever, and a batch of such messages keeps later
pending ones from being claimed, although the class comment of the bus promises dead-letter
handling (line 23) and `FinallyDone` has to except that case. A handler may run more than once
per event (line 28 says once). A consumer group that could not be created at start-up is not
tried again until a restart, and what was published before it exists is never delivered. In
HALF_OPEN any number of calls are probes (line 8 of the breaker: limited). `driver.offline`
cancels nothing, although README line 126 says it does: the handler writes an audit entry.

What survives all of the races between requests is the `concurrent` run: each row still has a
consistent history, nobody is charged without a ride, and records never claim what did not happen.

## 4. Proofs

Everything below is proved for every value of the constants: any number of trips, drivers,
PINs, intents and concurrent executions, and with all faults. Where a theorem supposes more,
this is said.

* `TripStateMachine_proofs`: `TypeCorrect`, `StampsCorrect`, `DriverAssigned`, `TableFollowed`,
  `DriverStaysLocked`. `StampsCorrect` and `TableFollowed` include a REQUEST at any point of a
  trip's life: each timestamp has the one before it, and a change of status is in the table or a
  REQUEST that keeps driver and intent. Every handler is first reduced to an entry of a small
  relation
  (`HandlersAreTransitions`), and the inductive invariant is checked on that.
* `TripUseCases_proofs`: `TypeCorrect`. `TypeOK` is not inductive, because the step of a
  task uses the field that its point says is set (a driver at `accept:update`, an intent
  at `complete:update`). `TypeInv` adds that per point.
* `TripSafety_proofs`: `TimestampsCorrect`, `DriverCorrect`, `ChargesCorrect`,
  `MoneyCorrect`, `RecordsCorrect`, `HistoryGrows`. A task acts on a copy of the row
  that may be stale, so no invariant can say that the copy is still true. The argument is
  that history only grows: timestamps are never cleared, audit entries never removed, an
  issued intent never moved to another trip and a captured one never uncaptured
  (`HistoryGrows`). Hence a *historical* fact that a task established when it read the row
  (`Facts`: "this trip has been IN_PROGRESS", "this intent is of this trip") is still true
  when it writes. `SafetyInv` joins these facts of all tasks with the invariants of the
  tables. TLC has checked it on the serial and the concurrent instance.

* `TripLifecycle_proofs`: `WritesFollow`. `SeenAt` says which statuses a task may have read that
  is on its way to an update; as the update writes a constant status, the pair is in the table.
  The other theorems suppose `[]NoOverlap`: no two executions are about the same trip at the
  same time. Any number of trips may be worked on at once, and crashes, expiring keys, lost
  events and lost answers stay. This is what `trip-lock.service.ts` would give if the use cases
  called it and no lock expired under its holder; a process that serves one request at a time
  gives it too, and that is the instance of the `serial` run. Then the use cases implement the
  state machine (`LifecycleCorrect`, the refinement). A driver's verification, start, completion
  or cancellation changes only a row that names this driver, and its acceptance only one that
  names nobody (`DriverOfTheRowCorrect`); this one supposes that no driver is an admin or the
  trip's rider, who may change it for that reason. There is one PIN per assignment
  (`OnePinCorrect`), and a paid trip was paid with its own intent (`PaidByItsOwnCorrect`).
  The invariant is `SafetyInv` and `SeenInv` with two more parts: `KnowsAt`, that the row still
  has the status the task read, the actor, of a cancellation too, still its right to
  act, and the keys are this
  acceptance's; and `TripFacts`, that a trip that waits for a driver has none and announced none.
  A step of one task is `Quiet` for every trip of another, and keeps both. The `races` run shows
  that `NoOverlap` cannot be dropped.

  `CapturedIsKeptCorrect` is the safety half of `CapturedIsPaid`: the event of a completed trip
  whose intent is captured stays in the inbox. A delivery that the handler drops is not a task, so
  the theorem also supposes `[][DroppedAlone]_vars`: such a delivery does not happen while a task
  is about its trip. Without that it is false, which is the `paid` run. The invariant
  `KeptInv` starts earlier than the property: a task that is about to write COMPLETED has an intent
  whose event, if it was captured, is still in the inbox (`TaskKept`); the capture may come
  between the two awaits, and is then not lost. And it follows the handler to its end: between
  its update and its acknowledgement the trip is PAID, so what it acknowledges is owed no more.
  TLC has checked `KeptInv` on the serial instance.

  `OneAtATime`: with a single task `NoOverlap` and `DroppedAlone` hold, so everything above holds
  of `Spec` itself, for any number of trips, drivers, PINs and intents. It is what
  the `serial` run checks on one trip, and it shows that the hypotheses can be met.

* `PinCache_proofs`: `TypeCorrect`, `BlockIsEarned` and `CountingIsExact`. For the block: the
  counter in Redis, a counter that a call read, and the one it is about to write never exceed the wrong PINs
  counted, because a lost update only loses; and a call is at the block only when the
  counter it reread had reached the limit. For the exact counter: while executions keep apart only
  one of them is not free, where it stands bounds the counter (`Exact`), and of a full counter
  and its block the counter expires first, so that the block cannot end before it.
* `EventBus_proofs`: `TypeCorrect`, `NothingIsLost`, `BusIsAnInbox`. Beside `NothingLost` the
  invariant needs that without a group nothing was delivered (`NoGroupNoDelivery`) and
  that a tick which is about to acknowledge has processed that message (`AckIsEarned`). The
  last theorem is the refinement: every step is `Arrive`, `Process` or `Finish` of one message,
  or a stutter, also where two ticks handle the same message.
* `GuardedClient_proofs`: `TypeCorrect`, `ClosedCorrect`, `QuietCorrect`, `ClosingCorrect`.
  `Waiting` relates the rest of `timeout` to the time since the breaker opened, and
  `ProbesAreRecent` says that the successes counted in HALF_OPEN all came after the last
  failure, whichever calls they belong to.

* `H3Encode_proofs`, the token: `TokenInvariant`, `TrustIsJustified`, `RenewalContinues`, for any
  number of logins and any lifetimes, through the composed specification. `Overestimate` says that the
  service takes a token for at most AUTH_TIMEOUT younger than it is, also when the answer of an
  older login replaces a newer one's; `TimerAligned` that a timer that is armed fires exactly
  when the token stops being fresh. `UsesTheToken`: the calls do nothing to the token but
  what `ServiceToken` allows, so `H3Encode` implements it.

  The batches: `TypeCorrect`, `AnswersStayInPlace`, `LeastRecentGoes`, for any number of calls, any
  batches, any rounding of keys and any cache size. The invariant is `IInv`. `CacheInv` says of the
  cache that its keys are `recent`, no key is twice in it, it is not longer than `MaxSize`, and each
  entry holds the cell of a coordinate with that key (`Sound`). `CallInv` says of a call under way
  that every place of its batch is in `uncached` or has a result that belongs there (`Noted`); it
  mentions no cache, which is why other calls may do what they like to the cache meanwhile.
  The batch `<<aNear, a>>` is in the run because the invariant has to survive
  two stores of one key in one answer.

  An action contains a whole loop, so that one step needs an induction over its rounds. The
  library's induction theorems take an operator as a parameter, which the provers cannot
  instantiate. `Induction` is stated for a *set* of numbers instead (it follows from
  `NatLessThanWellFounded`), and sets can be instantiated. From it follow `Recursion`, that the
  recursive functions `LookUps` and `Stores` exist and satisfy their equations for batches of
  every length, and `LookUpsProperties` and `StoresProperties`, what holds after each round, given
  what one round does (`LookUpStep`, `StoreStep`). Below them are facts about `RemoveAt`,
  `RemoveFirst`, `Get` and `Set` on sequences.

Assumptions: `PinCacheAssumption`, `EventBusAssumption`, `GuardedClientAssumption`,
`LruCacheAssumption` (bounds and thresholds are natural numbers, positive where zero would
mean nothing), `ServiceTokenAssumption` (AUTH_TIMEOUT + REQUEST_TIME is at most THRESHOLD),
`H3EncodeAssumption` (batches are sequences of operations, every coordinate has a key);
`NoneAssumption` and `UseCasesAssumption`, which say that the value standing
for "absent" is none of the real values and that the bounds are subsets of what exists.

Only model-checked: `CapturedIsPaid`, `FinallyDone`, `Recovers` and `StaysValid`, since liveness
under fairness is out of the prover's reach. Every invariant and every step property of the
passing runs is a theorem; the refinements are `LifecycleCorrect`, `BusIsAnInbox` and
`UsesTheToken`.

## 5. Not modelled

See `components` in `PROJECT.json`. In short:

* Never run: the trip lock, the idempotency interceptor, the trip state cache, trip points,
  `MarkPaidUseCase`, the offer timer and the deadline checks, the stub handlers and the job
  processor, `reset`, `tryExecute` and `tryAcquire`, and the cache's `has`, `delete` and
  `cleanup`, which has nothing to do because no entry is given a TTL. OFFERED is in the table
  and no use case writes it.
* Only written, never read: `payment.failed` and `driver.offline` add audit entries
  and change no trip.
* Without state: HTTP parsing and validation, the JWT middleware, mappers, the contents of
  quotes, routes and prices, logging and health.
* Abstracted: the three tries of an HTTP request that is not a payment, which only make a
  request last longer (REQUEST_TIME), and the errors of other services, each of which ends an
  execution early or leaves a column empty.

## 6. Plan

Done: `TripStateMachine`, `TripUseCases`, `TripLifecycle`, `PinCache`, `EventBus` with
`Inbox`, `GuardedClient`, `H3Encode` with `ServiceToken` and `LruCache`, their runs and proofs.

What would be worth adding next, in this order:

1. `EventBus` composed with the handlers of all three events, once `payment.failed` or
   `driver.offline` change a trip.
2. Lives shorter than the renewal threshold in `ServiceToken`, for which the service logs in
   again and again without a pause; a bound on the rate of logins is what the code lacks.
