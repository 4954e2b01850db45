-------------------------------- MODULE H3Encode --------------------------------
(***************************************************************************)
(* GeoClient.h3Encode: a batch of operations is answered from the H3 cache *)
(* as far as it goes, the rest is posted to the geo service with the       *)
(* service token, and its answers are put back among those from the cache. *)
(* Calls overlap at every await; cache and token are shared by all.        *)
(*                                                                         *)
(* A coordinate stands for its latitude, longitude and resolution.  Each   *)
(* has a cell of its own, which is named like it; coordinates that the key *)
(* rounds to the same six decimals may lie in different cells.             *)
(***************************************************************************)
EXTENDS ServiceToken, LruCache

CONSTANTS
  Coords,   \* arguments of encode operations
  Rings,    \* kRing operations, which are not cached
  Batches,  \* requests, non-empty sequences of operations
  KeyOf     \* what buildKey rounds them to

Calls == Executions \ Background

ASSUME H3EncodeAssumption ==
  /\ Coords \cap Rings = {}
  /\ Batches \subseteq Seq(Coords \cup Rings) \ {<<>>}
  /\ DOMAIN KeyOf = Coords
  /\ {"hole", "error", None} \cap (Coords \cup Rings) = {}

VARIABLES
  cache,
  call,
  recent   \* history: the MaxSize keys found or stored last, the latest one last

vars == <<tokenVars, cache, call, recent>>

Results == Coords \cup Rings \cup {"hole", "error", None}

Idle == [at |-> "idle", ops |-> <<>>, results |-> <<>>, uncached |-> <<>>]

TypeOK ==
  /\ TokenTypeOK
  /\ cache \in Seq([key : Range(KeyOf), value : Coords])
  /\ call \in [Calls -> [at       : {"idle", "asked", "fetching", "posted", "done"},
                         ops      : Batches \cup {<<>>},
                         results  : Seq(Results),
                         uncached : Seq(Nat)]]
  /\ \A c \in Calls :
       /\ Len(call[c].results) = Len(call[c].ops)
       /\ call[c].at = "fetching" <=> fetch[c] # None

Init ==
  /\ TokenInit
  /\ cache = <<>>
  /\ call = [c \in Calls |-> Idle]
  /\ recent = <<>>

-----------------------------------------------------------------------------
At(c, point)   == call[c].at = point
Goto(c, point) == call' = [call EXCEPT ![c].at = point]

\* An exception: the caller gets no result.
Throw(c) == call' = [call EXCEPT ![c] = Idle]

IsEncode(op) == op \in Coords

buildKey(x) == KeyOf[x]

Used(keys, key) ==
  LET all == Append(RemoveFirst(keys, key), key)
  IN  IF Len(all) > MaxSize THEN Tail(all) ELSE all

\* One round of the loop over the cache.  uncachedIndexMap is the sequence of the places
\* of the operations that are to be posted.
LookUp(found, op) ==
  IF IsEncode(op) /\ Has(found.cache, buildKey(op))
    THEN [cache    |-> Get(found.cache, buildKey(op)),
          recent   |-> Used(found.recent, buildKey(op)),
          results  |-> Append(found.results, ValueAt(found.cache, buildKey(op))),
          uncached |-> found.uncached]
    ELSE [cache    |-> found.cache,
          recent   |-> found.recent,
          results  |-> Append(found.results, None),
          uncached |-> Append(found.uncached, Len(found.results) + 1)]

\* The loop, after each of its rounds.
LookUps(ops) ==
  LET found[i \in 0..Len(ops)] ==
        IF i = 0
          THEN [cache |-> cache, recent |-> recent, results |-> <<>>, uncached |-> <<>>]
          ELSE LookUp(found[i - 1], ops[i])
  IN  found

\* h3Encode until its first await, or until it returns.
Encode(c, ops) ==
  LET found == LookUps(ops)[Len(ops)]
  IN  /\ Booted
      /\ call[c].at \in {"idle", "done"}
      /\ cache' = found.cache
      /\ recent' = found.recent
      /\ call' = [call EXCEPT ![c] =
                    [at       |-> IF found.uncached = <<>> THEN "done" ELSE "asked",
                     ops      |-> ops,
                     results  |-> found.results,
                     uncached |-> found.uncached]]
      /\ UNCHANGED tokenVars

\* The rate limiter throws, or the breaker rejects.
Reject(c) ==
  /\ At(c, "asked")
  /\ Throw(c)
  /\ UNCHANGED <<tokenVars, cache, recent>>

(* getServiceHeaders, behind rate limiter and breaker. *)

TakeToken(c) ==
  /\ At(c, "asked")
  /\ Fresh
  /\ Goto(c, "posted")
  /\ UNCHANGED <<tokenVars, cache, recent>>

AskForToken(c) ==
  /\ At(c, "asked")
  /\ BeginFetch(c)
  /\ Goto(c, "fetching")
  /\ UNCHANGED <<cache, recent>>

TokenComes(c) ==
  /\ AnswerSome(c)
  /\ Goto(c, "posted")
  /\ UNCHANGED <<cache, recent>>

\* The token at hand is used, however old it is.
TokenFails(c) ==
  /\ Fail(c)
  /\ IF token.held THEN Goto(c, "posted") ELSE Throw(c)
  /\ UNCHANGED <<cache, recent>>

-----------------------------------------------------------------------------
\* What the geo service returns for op, the j-th operation posted: an answer has n
\* results, of which those in bad are errors.
Reply(op, j, n, bad) == IF j > n THEN "hole" ELSE IF j \in bad THEN "error" ELSE op

\* The j-th operation posted.
Posted(c, j) == call[c].ops[call[c].uncached[j]]

\* The j-th result is put in the j-th place.
PlacedAsTheyCome(c, n, bad) ==
  [j \in DOMAIN call[c].ops |->
     IF j \in DOMAIN call[c].uncached
       THEN Reply(Posted(c, j), j, n, bad)
       ELSE call[c].results[j]]

\* The results that were posted for, without those from the cache.
PlacedAlone(c, n, bad) ==
  [j \in DOMAIN call[c].uncached |-> Reply(Posted(c, j), j, n, bad)]

\* results, the answer included.
Placed(c, n, bad) ==
  [i \in DOMAIN call[c].ops |->
     IF i \in Range(call[c].uncached)
       THEN LET j == CHOOSE j \in DOMAIN call[c].uncached : call[c].uncached[j] = i
            IN  Reply(call[c].ops[i], j, n, bad)
       ELSE call[c].results[i]]

\* One round of the loop over the answer: the result of an encode operation is stored.
Store(stored, op) ==
  [cache  |-> Set(stored.cache, buildKey(op), op),
   recent |-> Used(stored.recent, buildKey(op))]

\* The loop, after each of the rounds that have a result.
Stores(c, n, bad) ==
  LET stored[j \in 0..n] ==
        IF j = 0
          THEN [cache |-> cache, recent |-> recent]
          ELSE IF IsEncode(Posted(c, j)) /\ j \notin bad
                 THEN Store(stored[j - 1], Posted(c, j))
                 ELSE stored[j - 1]
  IN  stored

\* The answer.  A result that is missing for an encode operation throws, and what
\* was stored before stays in the cache.
Respond(c, n, bad) ==
  LET stored == Stores(c, n, bad)[n]
  IN  /\ At(c, "posted")
      /\ cache' = stored.cache
      /\ recent' = stored.recent
      /\ IF \E j \in (n + 1)..Len(call[c].uncached) : IsEncode(Posted(c, j))
           THEN Throw(c)
           ELSE call' = [call EXCEPT ![c] = [at       |-> "done",
                                             ops      |-> call[c].ops,
                                             results  |-> Placed(c, n, bad),
                                             uncached |-> <<>>]]
      /\ UNCHANGED tokenVars

Answered(c) ==
  \E n \in 0..Len(call[c].uncached) : \E bad \in SUBSET (1..n) : Respond(c, n, bad)

\* No answer, an error status, or one that is not an answer.
RequestFails(c) ==
  /\ At(c, "posted")
  /\ Throw(c)
  /\ UNCHANGED <<tokenVars, cache, recent>>

-----------------------------------------------------------------------------
\* The first login and those of the timer.
Renewal(b) ==
  /\ b \in Background
  /\ TimerFires(b) \/ AnswerSome(b) \/ Fail(b)
  /\ UNCHANGED <<cache, call, recent>>

TimePasses ==
  /\ Tick
  /\ UNCHANGED <<cache, call, recent>>

Call(c) ==
  \/ \E ops \in Batches : Encode(c, ops)
  \/ Reject(c) \/ TakeToken(c) \/ AskForToken(c) \/ TokenComes(c) \/ TokenFails(c)
  \/ Answered(c) \/ RequestFails(c)

Next ==
  \/ \E c \in Calls : Call(c)
  \/ \E b \in Background : Renewal(b)
  \/ TimePasses

Spec == Init /\ [][Next]_vars

\* Time passes, the timer fires, and every await ends: the limiter and the breaker
\* decide, logins and requests have a timeout.  That an await does not last is said by
\* its error, which its success disables.
Fairness ==
  /\ WF_vars(TimePasses)
  /\ \A b \in Background : WF_vars(Renewal(b))
  /\ \A c \in Calls :
       WF_vars(Reject(c)) /\ WF_vars(TokenFails(c)) /\ WF_vars(RequestFails(c))

FairSpec == Spec /\ Fairness

-----------------------------------------------------------------------------
\* The results of h3Encode are those of the operations, in their order, whichever of
\* them came from the cache and whatever other calls did to it meanwhile.  The cell
\* may be that of another coordinate with the same key.
AnswersBelong ==
  \A c \in Calls : At(c, "done") =>
    \A i \in DOMAIN call[c].ops :
      LET op == call[c].ops[i]
          result == call[c].results[i]
      IN  IF IsEncode(op)
            THEN result \in {"error"} \cup {x \in Coords : buildKey(x) = buildKey(op)}
            ELSE result \in {op, "error", "hole"}

\* The H3 cache holds the MaxSize keys found or stored last, in that order, however
\* the lookups and the answers of several calls interleave.
KeepsTheRecent == KeysOf(cache) = recent

\* When no login fails any more and requests are sent now and then, the token is valid
\* for good, however many renewals failed before and none was scheduled after them.
StaysValid ==
  /\ <>[][\A e \in Executions : ~Fail(e)]_vars
  /\ []<>(\E c \in Calls : At(c, "posted"))
  => <>[](token.valid > 0)
=============================================================================
