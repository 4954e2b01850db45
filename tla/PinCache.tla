-------------------------------- MODULE PinCache --------------------------------
(***************************************************************************)
(* The PIN of one trip in Redis, as pin-cache.service.ts keeps it: the     *)
(* hash (abstracted to the PIN it verifies), the counter of wrong attempts *)
(* and the block, each a key of its own with its own time to live.         *)
(*                                                                         *)
(* Redis offers no transaction here: a validation is a sequence of GET and *)
(* SET calls, and two validations of the same trip interleave between      *)
(* them.  The display key, which no validation reads, is in TripUseCases.  *)
(***************************************************************************)
EXTENDS Naturals

CONSTANTS
  Calls,        \* executions that use the cache at the same time
  Pins,
  MAX_ATTEMPTS,
  MaxTries,     \* bound: wrong PINs tried in an instance
  Faults,       \* bound: whether Redis may fail in an instance
  None

ASSUME PinCacheAssumption ==
  /\ MAX_ATTEMPTS \in Nat \ {0}
  /\ MaxTries \in Nat
  /\ Faults \in BOOLEAN
  /\ None \notin Pins \cup {"pin", "attempts", "blocked"}

VARIABLES
  pin,        \* trip:{id}:pin
  attempts,   \* trip:{id}:pin:attempts, 0 when there is no key
  blocked,    \* trip:{id}:pin:blocked
  first,      \* which of the last two keys expires first, None if neither exists
  call,       \* the executions
  counted,    \* history: the wrong PINs the counter has taken note of
  recent,     \* history: those since the counter last started from nothing
  apart       \* history: no execution has met another, an expiry or a failure

keys    == <<pin, attempts, blocked, first>>
history == <<counted, recent, apart>>
vars    == <<keys, call, history>>

Free == [at |-> "free", pin |-> None, read |-> 0]

CallPoints ==
  {"free", "store", "clear", "isBlocked", "blocked", "pin", "read", "write",
   "reread", "block"}

CounterKeys == {"attempts", "blocked"}

Exists(key) == IF key = "attempts" THEN attempts > 0 ELSE blocked

\* Besides the types: the key that expires first exists, and there is one when a key
\* exists.
TypeOK ==
  /\ pin \in Pins \cup {None}
  /\ attempts \in Nat
  /\ blocked \in BOOLEAN
  /\ first \in CounterKeys \cup {None}
  /\ IF first = None THEN \A key \in CounterKeys : ~Exists(key) ELSE Exists(first)
  /\ call \in [Calls -> [at : CallPoints, pin : Pins \cup {None}, read : Nat]]
  /\ counted \in Nat /\ recent \in Nat /\ apart \in BOOLEAN

Init ==
  /\ pin = None
  /\ attempts = 0
  /\ blocked = FALSE
  /\ first = None
  /\ call = [c \in Calls |-> Free]
  /\ counted = 0
  /\ recent = 0
  /\ apart = TRUE

-----------------------------------------------------------------------------
At(c, point)   == call[c].at = point
Goto(c, point) == call' = [call EXCEPT ![c].at = point]
Return(c)      == call' = [call EXCEPT ![c] = Free]

AllFree == \A c \in Calls : At(c, "free")

\* Something happens to the keys that no execution expects.
Disturb == apart' = (apart /\ AllFree)

Other(key) == CHOOSE k \in CounterKeys : k # key

\* Which key expires first after key was set: both live BLOCK_TTL seconds, so the
\* other one if it exists.
FirstAfter(key) == IF Exists(Other(key)) THEN Other(key) ELSE key

\* Of the attempts and blocked keys, only kept stay.
KeepCounters(kept) ==
  /\ attempts' = IF "attempts" \in kept THEN attempts ELSE 0
  /\ recent' = IF "attempts" \in kept THEN recent ELSE 0
  /\ blocked' = (blocked /\ "blocked" \in kept)
  /\ first' = IF first \in kept THEN first
              ELSE IF Other(first) \in kept /\ Exists(Other(first)) THEN Other(first)
              ELSE None

-----------------------------------------------------------------------------
(* setPin and clearPin. *)

BeginSetPin(c, p) ==
  /\ At(c, "free")
  /\ call' = [call EXCEPT ![c] = [Free EXCEPT !.at = "store", !.pin = p]]
  /\ Disturb
  /\ UNCHANGED <<keys, counted, recent>>

StorePin(c) ==
  /\ At(c, "store")
  /\ pin' = call[c].pin
  /\ Goto(c, "clear")
  /\ UNCHANGED <<attempts, blocked, first, history>>

\* clearAttempts, the end of setPin and of a validation that succeeded: the two
\* keys are deleted at once, and kept are those whose deletion fails.
ClearAttempts(c, kept) ==
  /\ At(c, "clear")
  /\ kept # {} => Faults
  /\ KeepCounters(kept)
  /\ Return(c)
  /\ apart' = (apart /\ kept = {})
  /\ UNCHANGED <<pin, counted>>

\* By verify, after a validation that succeeded, or by cancel.
ClearPin(kept) ==
  /\ kept # {} => Faults
  /\ pin' = IF "pin" \in kept THEN pin ELSE None
  /\ KeepCounters(kept)
  /\ apart' = (apart /\ AllFree /\ kept = {})
  /\ UNCHANGED <<call, counted>>

-----------------------------------------------------------------------------
(* Verification of p: isBlocked by the use case, and then validatePin. *)

BeginValidate(c, p) ==
  /\ At(c, "free")
  /\ counted < MaxTries
  /\ call' = [call EXCEPT ![c] = [Free EXCEPT !.at = "isBlocked", !.pin = p]]
  /\ Disturb
  /\ UNCHANGED <<keys, counted, recent>>

\* An error of Redis counts as "not blocked".
IsBlocked(c, point, next) ==
  /\ At(c, point)
  /\ \/ blocked /\ Return(c) /\ UNCHANGED apart
     \/ ~blocked /\ Goto(c, next) /\ UNCHANGED apart
     \/ Faults /\ Goto(c, next) /\ apart' = FALSE
  /\ UNCHANGED <<keys, counted, recent>>

GetPin(c) ==
  /\ At(c, "pin")
  /\ \/ pin = None /\ Return(c)
     \/ pin # None /\ pin = call[c].pin /\ Goto(c, "clear")
     \/ pin # None /\ pin # call[c].pin /\ Goto(c, "read")
  /\ UNCHANGED <<keys, history>>

\* A counter that does not exist is not read as zero.
ReadAttemptsAsStored(c) ==
  /\ At(c, "read")
  /\ call' = [call EXCEPT ![c].at = "write",
                          ![c].read = IF attempts = 0 THEN None ELSE attempts]
  /\ UNCHANGED <<keys, history>>

\* incrementAttempts ...
ReadAttempts(c) ==
  /\ At(c, "read")
  /\ call' = [call EXCEPT ![c].at = "write", ![c].read = attempts]
  /\ UNCHANGED <<keys, history>>

WriteAttempts(c) ==
  /\ At(c, "write")
  /\ attempts' = call[c].read + 1
  /\ first' = FirstAfter("attempts")
  /\ counted' = counted + 1
  /\ recent' = recent + 1
  /\ Goto(c, "reread")
  /\ UNCHANGED <<pin, blocked, apart>>

\* Blocks one wrong PIN too early.
RereadAttemptsOffByOne(c) ==
  /\ At(c, "reread")
  /\ IF attempts + 1 >= MAX_ATTEMPTS THEN Goto(c, "block") ELSE Return(c)
  /\ UNCHANGED <<keys, history>>

\* Blocks only after one wrong PIN more.
RereadAttemptsTooLate(c) ==
  /\ At(c, "reread")
  /\ IF attempts > MAX_ATTEMPTS THEN Goto(c, "block") ELSE Return(c)
  /\ UNCHANGED <<keys, history>>

\* ... and getAttempts once more.
RereadAttempts(c) ==
  /\ At(c, "reread")
  /\ IF attempts >= MAX_ATTEMPTS THEN Goto(c, "block") ELSE Return(c)
  /\ UNCHANGED <<keys, history>>

BlockTrip(c) ==
  /\ At(c, "block")
  /\ blocked' = TRUE
  /\ first' = FirstAfter("blocked")
  /\ Return(c)
  /\ UNCHANGED <<pin, attempts, history>>

\* A call to Redis throws, or the process stops.
Fail(c) ==
  /\ Faults
  /\ ~At(c, "free")
  /\ Return(c)
  /\ apart' = FALSE
  /\ UNCHANGED <<keys, counted, recent>>

-----------------------------------------------------------------------------
(* Redis drops a key whose time is over. *)

ExpirePin ==
  /\ pin # None
  /\ pin' = None
  /\ Disturb
  /\ UNCHANGED <<attempts, blocked, first, call, counted, recent>>

ExpireCounter ==
  /\ first # None
  /\ KeepCounters({Other(first)})
  /\ Disturb
  /\ UNCHANGED <<pin, call, counted>>

Next ==
  \/ \E c \in Calls :
       \/ \E p \in Pins : BeginSetPin(c, p) \/ BeginValidate(c, p)
       \/ StorePin(c)
       \/ \E kept \in SUBSET CounterKeys : ClearAttempts(c, kept)
       \/ IsBlocked(c, "isBlocked", "blocked")
       \/ IsBlocked(c, "blocked", "pin")
       \/ GetPin(c)
       \/ ReadAttempts(c)
       \/ WriteAttempts(c)
       \/ RereadAttempts(c)
       \/ BlockTrip(c)
       \/ Fail(c)
  \/ \E kept \in SUBSET (CounterKeys \cup {"pin"}) : ClearPin(kept)
  \/ ExpirePin
  \/ ExpireCounter

Spec == Init /\ [][Next]_vars

-----------------------------------------------------------------------------
\* However validations interleave and whatever fails, a trip is never blocked
\* before MAX_ATTEMPTS wrong PINs have been tried and counted.
NeverBlockedEarly == blocked => counted >= MAX_ATTEMPTS

\* While executions keep apart, the counter is exact: between them it is the
\* number of wrong PINs since it started, no more than MAX_ATTEMPTS wrong PINs
\* are ever compared on one counter, and the last of them blocks the trip.  Nor
\* does the block end before the counter it came from.
CountsEveryWrongPin ==
  apart =>
    /\ recent <= MAX_ATTEMPTS
    /\ AllFree => attempts = recent
    /\ AllFree /\ attempts >= MAX_ATTEMPTS => blocked
=============================================================================
