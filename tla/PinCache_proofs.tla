----------------------------- MODULE PinCache_proofs -----------------------------
(***************************************************************************)
(* No interleaving of validations blocks a trip before MAX_ATTEMPTS wrong  *)
(* PINs, and while executions keep apart the counter is exact.             *)
(***************************************************************************)
EXTENDS PinCache, TLAPS

\* The part of TypeOK the first argument needs: what is counted is a number.
Counting ==
  /\ pin \in Pins \cup {None}
  /\ attempts \in Nat
  /\ blocked \in BOOLEAN
  /\ call \in [Calls -> [at : CallPoints, pin : Pins \cup {None}, read : Nat]]
  /\ counted \in Nat

\* No number in Redis or in an execution is ahead of what has been counted; an
\* increment that is lost to another one only makes them fall behind.
NotAhead ==
  /\ attempts <= counted
  /\ \A c \in Calls :
       /\ At(c, "write") => call[c].read <= counted
       /\ At(c, "block") => counted >= MAX_ATTEMPTS

Inv == Counting /\ NotAhead /\ NeverBlockedEarly

LEMMA InitInv == Init => Inv
<1> SUFFICES ASSUME Init PROVE Inv
  OBVIOUS
<1>1. Counting
  BY DEF Init, Counting, Free, CallPoints
<1>2. NotAhead
  BY DEF Init, NotAhead, At, Free
<1>3. NeverBlockedEarly
  BY DEF Init, NeverBlockedEarly
<1> QED BY <1>1, <1>2, <1>3 DEF Inv

\* What follows when an execution moves and the counters are left alone.
LEMMA MoveKeepsInv ==
  ASSUME Inv, UNCHANGED <<attempts, blocked, counted>>,
         pin' \in Pins \cup {None},
         NEW c \in Calls, NEW x \in [at : CallPoints, pin : Pins \cup {None}, read : Nat],
         call' = [call EXCEPT ![c] = x],
         x.at = "write" => x.read <= counted,
         x.at = "block" => counted >= MAX_ATTEMPTS
  PROVE  Inv'
  BY DEF Inv, Counting, NotAhead, NeverBlockedEarly, At

\* ... and when keys are deleted and the executions stay or return.
LEMMA DeletionKeepsInv ==
  ASSUME Inv, counted' = counted, pin' \in Pins \cup {None},
         attempts' \in {0, attempts}, blocked' \in BOOLEAN, blocked' => blocked,
         call' = call \/ \E c \in Calls : Return(c)
  PROVE  Inv'
  BY DEF Inv, Counting, NotAhead, NeverBlockedEarly, At, Return, Free, CallPoints

LEMMA StepKeepsInv ==
  ASSUME Inv, [Next]_vars
  PROVE  Inv'
<1> USE DEF keys, history, vars
<1> DEFINE Records == [at : CallPoints, pin : Pins \cup {None}, read : Nat]
<1>r. Inv /\ pin \in Pins \cup {None} /\ \A c \in Calls : call[c] \in Records
  BY DEF Inv, Counting
<1>f. Free \in Records
  BY DEF Free, CallPoints
<1>1. ASSUME NEW c \in Calls, NEW p \in Pins, BeginSetPin(c, p) \/ BeginValidate(c, p)
      PROVE  Inv'
  <2> DEFINE x == [Free EXCEPT !.at = IF BeginSetPin(c, p) THEN "store" ELSE "isBlocked",
                               !.pin = p]
  <2>1. x \in Records /\ x.at \notin {"write", "block"}
    BY DEF Free, CallPoints
  <2>2. CASE BeginSetPin(c, p)
    <3>1. call' = [call EXCEPT ![c] = x]
      BY <2>2 DEF BeginSetPin
    <3> QED BY <1>r, <2>1, <2>2, <3>1, MoveKeepsInv DEF BeginSetPin
  <2>3. CASE BeginValidate(c, p) /\ ~BeginSetPin(c, p)
    <3>1. call' = [call EXCEPT ![c] = x]
      BY <2>3 DEF BeginValidate
    <3> QED BY <1>r, <2>1, <2>3, <3>1, MoveKeepsInv DEF BeginValidate
  <2> QED BY <1>1, <2>2, <2>3
<1>2. ASSUME NEW c \in Calls, StorePin(c)
      PROVE  Inv'
  <2> DEFINE x == [call[c] EXCEPT !.at = "clear"]
  <2>1. x \in Records /\ x.at = "clear" /\ call' = [call EXCEPT ![c] = x]
    BY <1>2, <1>r DEF StorePin, Goto, CallPoints, Inv, Counting
  <2> QED BY <1>2, <1>r, <2>1, MoveKeepsInv DEF StorePin
<1>3. ASSUME NEW c \in Calls, NEW kept \in SUBSET CounterKeys, ClearAttempts(c, kept)
      PROVE  Inv'
  BY <1>3, <1>r, DeletionKeepsInv DEF ClearAttempts, KeepCounters, Inv, Counting
<1>4. ASSUME NEW c \in Calls, NEW point \in {"isBlocked", "blocked"},
             NEW next \in {"blocked", "pin"}, IsBlocked(c, point, next)
      PROVE  Inv'
  <2> DEFINE x == [call[c] EXCEPT !.at = next]
  <2>1. x \in Records /\ x.at = next
    BY <1>r DEF CallPoints
  <2>2. call' = [call EXCEPT ![c] = x] \/ call' = [call EXCEPT ![c] = Free]
    BY <1>4, <1>r DEF IsBlocked, Goto, Return, Inv, Counting
  <2>3. UNCHANGED <<pin, attempts, blocked, counted>> /\ Free.at = "free"
    BY <1>4 DEF IsBlocked, Free
  <2> QED BY <1>r, <1>f, <2>1, <2>2, <2>3, MoveKeepsInv
<1>5. ASSUME NEW c \in Calls, GetPin(c)
      PROVE  Inv'
  <2> DEFINE x(at) == [call[c] EXCEPT !.at = at]
  <2>1. \A at \in {"clear", "read"} : x(at) \in Records /\ x(at).at = at
    BY <1>r DEF CallPoints
  <2>2. \/ call' = [call EXCEPT ![c] = x("clear")]
        \/ call' = [call EXCEPT ![c] = x("read")]
        \/ call' = [call EXCEPT ![c] = Free]
    BY <1>5, <1>r DEF GetPin, Goto, Return, Inv, Counting
  <2>3. UNCHANGED <<pin, attempts, blocked, counted>> /\ Free.at = "free"
    BY <1>5 DEF GetPin, Free
  <2> HIDE DEF x
  <2> QED BY <1>r, <1>f, <2>1, <2>2, <2>3, MoveKeepsInv
<1>6. ASSUME NEW c \in Calls, ReadAttempts(c)
      PROVE  Inv'
  <2> DEFINE x == [call[c] EXCEPT !.at = "write", !.read = attempts]
  <2>1. x \in Records /\ x.at = "write" /\ x.read <= counted
    BY <1>r DEF CallPoints, Inv, Counting, NotAhead
  <2>2. call' = [call EXCEPT ![c] = x]
    BY <1>6, <1>r DEF ReadAttempts, Inv, Counting
  <2> QED BY <1>r, <1>6, <2>1, <2>2, MoveKeepsInv DEF ReadAttempts
<1>7. ASSUME NEW c \in Calls, WriteAttempts(c)
      PROVE  Inv'
  <2>1. call[c].read \in Nat /\ call[c].read <= counted
    BY <1>7, <1>r DEF WriteAttempts, Inv, NotAhead
  <2>2. attempts' \in Nat /\ counted' \in Nat /\ attempts' <= counted'
    BY <1>7, <2>1 DEF WriteAttempts, Inv, Counting
  <2>3. call' \in [Calls -> Records]
    BY <1>7, <1>r DEF WriteAttempts, Goto, CallPoints, Inv, Counting
  <2>4. ASSUME NEW e \in Calls
        PROVE  /\ At(e, "write")' => call'[e].read <= counted'
               /\ At(e, "block")' => counted' >= MAX_ATTEMPTS
    BY <1>7, <1>r, PinCacheAssumption
       DEF WriteAttempts, Goto, At, Inv, Counting, NotAhead
  <2>5. NeverBlockedEarly'
    BY <1>7, PinCacheAssumption
       DEF WriteAttempts, NeverBlockedEarly, Inv, Counting
  <2> QED
    BY <1>7, <2>2, <2>3, <2>4, <2>5 DEF WriteAttempts, Inv, Counting, NotAhead
<1>8. ASSUME NEW c \in Calls, RereadAttempts(c)
      PROVE  Inv'
  <2> DEFINE x == IF attempts >= MAX_ATTEMPTS THEN [call[c] EXCEPT !.at = "block"] ELSE Free
  <2>1. /\ x \in Records /\ x.at # "write"
        /\ x.at = "block" => counted >= MAX_ATTEMPTS
    BY <1>r, <1>f, PinCacheAssumption DEF Free, CallPoints, Inv, Counting, NotAhead
  <2>2. call' = [call EXCEPT ![c] = x]
    BY <1>8, <1>r DEF RereadAttempts, Goto, Return, Inv, Counting
  <2> HIDE DEF x
  <2> QED BY <1>r, <1>8, <2>1, <2>2, MoveKeepsInv DEF RereadAttempts
<1>9. ASSUME NEW c \in Calls, BlockTrip(c)
      PROVE  Inv'
  BY <1>9, <1>f, <1>r
     DEF BlockTrip, Return, Inv, Counting, NotAhead, NeverBlockedEarly, At, Free
<1>10. ASSUME NEW c \in Calls, Fail(c)
       PROVE  Inv'
  <2>1. call' = [call EXCEPT ![c] = Free] /\ Free.at = "free"
    BY <1>10 DEF Fail, Return, Free
  <2> QED BY <1>10, <1>r, <1>f, <2>1, MoveKeepsInv DEF Fail
<1>11. ASSUME NEW kept \in SUBSET (CounterKeys \cup {"pin"}), ClearPin(kept)
       PROVE  Inv'
  BY <1>11, <1>r, DeletionKeepsInv DEF ClearPin, KeepCounters, Inv, Counting
<1>12. CASE ExpirePin
  BY <1>12, <1>r, DeletionKeepsInv DEF ExpirePin, Inv, Counting
<1>13. CASE ExpireCounter
  BY <1>13, <1>r, DeletionKeepsInv DEF ExpireCounter, KeepCounters, Inv, Counting
<1>14. CASE UNCHANGED vars
  BY <1>14, <1>r DEF Inv, Counting, NotAhead, NeverBlockedEarly, At
<1> QED
  BY <1>1, <1>2, <1>3, <1>4, <1>5, <1>6, <1>7, <1>8, <1>9, <1>10, <1>11, <1>12, <1>13,
     <1>14 DEF Next

\* However validations interleave, keys expire and Redis fails: blockTrip is only
\* reached after MAX_ATTEMPTS wrong PINs were counted by incrementAttempts.
THEOREM BlockIsEarned == Spec => []NeverBlockedEarly
<1>1. Spec => []Inv
  BY InitInv, StepKeepsInv, PTL DEF Spec
<1>2. Inv => NeverBlockedEarly
  BY DEF Inv
<1> QED BY <1>1, <1>2, PTL

-----------------------------------------------------------------------------
(* Types, and the order in which the two counters expire. *)

Records == [at : CallPoints, pin : Pins \cup {None}, read : Nat]

\* first names a key that exists, and is None only if there is none.
FirstOK ==
  /\ first \in CounterKeys \cup {None}
  /\ IF first = None THEN \A key \in CounterKeys : ~Exists(key) ELSE Exists(first)

LEMMA OtherIs == Other("attempts") = "blocked" /\ Other("blocked") = "attempts"
  BY DEF Other, CounterKeys

\* To set a key, to delete keys and to leave both alone keeps it so.
LEMMA FirstStaysOK ==
  ASSUME FirstOK, attempts \in Nat, blocked \in BOOLEAN,
         attempts' \in Nat, blocked' \in BOOLEAN,
         \/ attempts' > 0 /\ blocked' = blocked /\ first' = FirstAfter("attempts")
         \/ blocked' /\ attempts' = attempts /\ first' = FirstAfter("blocked")
         \/ \E kept \in SUBSET (CounterKeys \cup {"pin"}) : KeepCounters(kept)
         \/ UNCHANGED <<attempts, blocked, first>>
  PROVE  FirstOK'
<1> USE DEF FirstOK, Exists, CounterKeys
<1>1. CASE attempts' > 0 /\ blocked' = blocked /\ first' = FirstAfter("attempts")
  BY <1>1, OtherIs, PinCacheAssumption DEF FirstAfter
<1>2. CASE blocked' /\ attempts' = attempts /\ first' = FirstAfter("blocked")
  BY <1>2, OtherIs, PinCacheAssumption DEF FirstAfter
<1>3. ASSUME NEW kept \in SUBSET (CounterKeys \cup {"pin"}), KeepCounters(kept)
      PROVE  FirstOK'
  <2>1. CASE first = "attempts"
    <3>1. attempts > 0
      BY <2>1, PinCacheAssumption
    <3>2. Other(first) = "blocked" /\ (Exists(Other(first)) <=> blocked)
      BY <2>1, OtherIs
    <3>3. CASE "attempts" \in kept
      BY <1>3, <2>1, <3>1, <3>3, PinCacheAssumption DEF KeepCounters
    <3>4. CASE "attempts" \notin kept /\ "blocked" \in kept /\ blocked
      <4>1. first' = "blocked" /\ attempts' = 0 /\ (blocked' <=> blocked)
        BY <1>3, <2>1, <3>2, <3>4 DEF KeepCounters
      <4> QED BY <3>4, <4>1, PinCacheAssumption
    <3>5. CASE "attempts" \notin kept /\ ~("blocked" \in kept /\ blocked)
      <4>1. first' = None /\ attempts' = 0 /\ ~blocked'
        BY <1>3, <2>1, <3>2, <3>5 DEF KeepCounters
      <4> QED BY <4>1, PinCacheAssumption
    <3> QED BY <3>3, <3>4, <3>5
  <2>2. CASE first = "blocked"
    <3>1. blocked
      BY <2>2, PinCacheAssumption
    <3>2. Other(first) = "attempts" /\ (Exists(Other(first)) <=> attempts > 0)
      BY <2>2, OtherIs
    <3>3. CASE "blocked" \in kept
      BY <1>3, <2>2, <3>1, <3>3, PinCacheAssumption DEF KeepCounters
    <3>4. CASE "blocked" \notin kept /\ "attempts" \in kept /\ attempts > 0
      <4>1. first' = "attempts" /\ attempts' = attempts /\ (blocked' <=> FALSE)
        BY <1>3, <2>2, <3>2, <3>4 DEF KeepCounters
      <4> QED BY <3>4, <4>1, PinCacheAssumption
    <3>5. CASE "blocked" \notin kept /\ ~("attempts" \in kept /\ attempts > 0)
      <4>1. first' = None /\ ~blocked'
        BY <1>3, <2>2, <3>2, <3>5 DEF KeepCounters
      <4>2. attempts' = 0
        <5>1. attempts = 0 \/ attempts > 0
          OBVIOUS
        <5> QED BY <1>3, <3>5, <5>1 DEF KeepCounters
      <4> QED BY <4>1, <4>2, PinCacheAssumption
    <3> QED BY <3>3, <3>4, <3>5
  <2>3. CASE first = None
    <3>1. Other(None) \in CounterKeys
      <4>1. \E k \in CounterKeys : k # None
        OBVIOUS
      <4> QED BY <4>1 DEF Other
    <3>2. attempts = 0 /\ blocked = FALSE /\ ~Exists(Other(None))
      BY <2>3, <3>1
    <3>3. first' = None /\ attempts' = 0 /\ blocked' = FALSE
      BY <1>3, <2>3, <3>2, PinCacheAssumption DEF KeepCounters
    <3> QED BY <3>3, PinCacheAssumption
  <2> QED BY <2>1, <2>2, <2>3
<1>4. CASE UNCHANGED <<attempts, blocked, first>>
  BY <1>4
<1> QED BY <1>1, <1>2, <1>3, <1>4

\* TypeOK in these terms.
Typed ==
  /\ pin \in Pins \cup {None} /\ attempts \in Nat /\ blocked \in BOOLEAN
  /\ call \in [Calls -> Records]
  /\ counted \in Nat /\ recent \in Nat /\ apart \in BOOLEAN

LEMMA TypeParts == TypeOK <=> Typed /\ FirstOK
  BY DEF TypeOK, Typed, FirstOK, Records

LEMMA InitType == Init => TypeOK
<1> SUFFICES ASSUME Init PROVE TypeOK
  OBVIOUS
<1>1. FirstOK
  BY DEF Init, FirstOK, CounterKeys, Exists
<1>2. Typed
  BY DEF Init, Typed, Free, Records, CallPoints
<1> QED BY <1>1, <1>2, TypeParts

\* What an execution may become.
LEMMA CallStaysTyped ==
  ASSUME call \in [Calls -> Records], NEW c \in Calls,
         \/ \E point \in CallPoints : Goto(c, point)
         \/ Return(c)
         \/ \E x \in Records : call' = [call EXCEPT ![c] = x]
  PROVE  call' \in [Calls -> Records]
<1>1. Free \in Records
  BY DEF Free, Records, CallPoints
<1>2. ASSUME NEW point \in CallPoints, Goto(c, point)
      PROVE  call' \in [Calls -> Records]
  BY <1>2 DEF Goto, Records
<1> QED BY <1>1, <1>2 DEF Return

LEMMA StepKeepsType ==
  ASSUME TypeOK, [Next]_vars
  PROVE  TypeOK'
<1> USE DEF keys, history, vars
<1>t. Typed /\ FirstOK
  BY TypeParts
<1>g. \A point \in {"store", "clear", "isBlocked", "blocked", "pin", "read", "write",
                    "reread", "block"} : point \in CallPoints
  BY DEF CallPoints
<1>1. ASSUME NEW c \in Calls, NEW p \in Pins, BeginSetPin(c, p) \/ BeginValidate(c, p)
      PROVE  Typed' /\ FirstOK'
  <2>1. \A at \in CallPoints : [Free EXCEPT !.at = at, !.pin = p] \in Records
    BY DEF Free, Records
  <2>2. call' \in [Calls -> Records]
    BY <1>1, <1>t, <1>g, <2>1, CallStaysTyped DEF BeginSetPin, BeginValidate, Typed
  <2>3. UNCHANGED <<pin, attempts, blocked, first, counted, recent>> /\ apart' \in BOOLEAN
    BY <1>1 DEF BeginSetPin, BeginValidate, Disturb
  <2> QED BY <1>t, <2>2, <2>3, FirstStaysOK DEF Typed
<1>2. ASSUME NEW c \in Calls, StorePin(c)
      PROVE  Typed' /\ FirstOK'
  <2>1. call' \in [Calls -> Records] /\ pin' \in Pins \cup {None}
    BY <1>2, <1>t, <1>g, CallStaysTyped DEF StorePin, Typed, Records
  <2> QED BY <1>2, <1>t, <2>1, FirstStaysOK DEF StorePin, Typed
<1>3. ASSUME NEW c \in Calls, NEW kept \in SUBSET CounterKeys, ClearAttempts(c, kept)
      PROVE  Typed' /\ FirstOK'
  <2>1. call' \in [Calls -> Records]
    BY <1>3, <1>t, CallStaysTyped DEF ClearAttempts, Typed
  <2>2. Typed'
    BY <1>3, <1>t, <2>1 DEF ClearAttempts, KeepCounters, Typed
  <2> QED BY <1>3, <1>t, <2>2, FirstStaysOK DEF ClearAttempts, Typed
<1>4. ASSUME NEW c \in Calls, NEW point \in {"isBlocked", "blocked"},
             NEW next \in {"blocked", "pin"}, IsBlocked(c, point, next)
      PROVE  Typed' /\ FirstOK'
  <2>1. call' \in [Calls -> Records]
    BY <1>4, <1>t, <1>g, CallStaysTyped DEF IsBlocked, Typed
  <2>2. UNCHANGED <<keys, counted, recent>> /\ apart' \in BOOLEAN
    BY <1>4, <1>t DEF IsBlocked, Typed
  <2> QED BY <1>t, <2>1, <2>2, FirstStaysOK DEF Typed
<1>5. ASSUME NEW c \in Calls, GetPin(c) \/ RereadAttempts(c)
      PROVE  Typed' /\ FirstOK'
  <2>1. call' \in [Calls -> Records]
    BY <1>5, <1>t, <1>g, CallStaysTyped DEF GetPin, RereadAttempts, Typed
  <2>2. UNCHANGED <<keys, history>>
    BY <1>5 DEF GetPin, RereadAttempts
  <2> QED BY <1>t, <2>1, <2>2, FirstStaysOK DEF Typed
<1>6. ASSUME NEW c \in Calls, ReadAttempts(c)
      PROVE  Typed' /\ FirstOK'
  <2>1. call' \in [Calls -> Records]
    BY <1>6, <1>t, <1>g DEF ReadAttempts, Typed, Records
  <2> QED BY <1>6, <1>t, <2>1, FirstStaysOK DEF ReadAttempts, Typed
<1>7. ASSUME NEW c \in Calls, WriteAttempts(c)
      PROVE  Typed' /\ FirstOK'
  <2>1. call' \in [Calls -> Records]
    BY <1>7, <1>t, <1>g, CallStaysTyped DEF WriteAttempts, Typed
  <2>2. call[c].read \in Nat
    BY <1>t DEF Typed, Records
  <2>3. attempts' \in Nat /\ attempts' > 0 /\ counted' \in Nat /\ recent' \in Nat
    BY <1>7, <1>t, <2>2 DEF WriteAttempts, Typed
  <2> QED BY <1>7, <1>t, <2>1, <2>3, FirstStaysOK DEF WriteAttempts, Typed
<1>8. ASSUME NEW c \in Calls, BlockTrip(c)
      PROVE  Typed' /\ FirstOK'
  <2>1. call' \in [Calls -> Records]
    BY <1>8, <1>t, CallStaysTyped DEF BlockTrip, Typed
  <2> QED BY <1>8, <1>t, <2>1, FirstStaysOK DEF BlockTrip, Typed
<1>9. ASSUME NEW c \in Calls, Fail(c)
      PROVE  Typed' /\ FirstOK'
  <2>1. call' \in [Calls -> Records]
    BY <1>9, <1>t, CallStaysTyped DEF Fail, Typed
  <2> QED BY <1>9, <1>t, <2>1, FirstStaysOK DEF Fail, Typed
<1>10. ASSUME NEW kept \in SUBSET (CounterKeys \cup {"pin"}), ClearPin(kept)
       PROVE  Typed' /\ FirstOK'
  <2>1. Typed'
    BY <1>10, <1>t DEF ClearPin, KeepCounters, Typed
  <2> QED BY <1>10, <1>t, <2>1, FirstStaysOK DEF ClearPin, Typed
<1>11. ASSUME ExpirePin
       PROVE  Typed' /\ FirstOK'
  <2>1. Typed'
    BY <1>11, <1>t DEF ExpirePin, Disturb, Typed
  <2> QED BY <1>11, <1>t, <2>1, FirstStaysOK DEF ExpirePin, Typed
<1>12. ASSUME ExpireCounter
       PROVE  Typed' /\ FirstOK'
  <2>1. {Other(first)} \in SUBSET (CounterKeys \cup {"pin"})
    BY <1>12, <1>t, OtherIs DEF ExpireCounter, FirstOK, CounterKeys
  <2>2. Typed'
    BY <1>12, <1>t DEF ExpireCounter, KeepCounters, Disturb, Typed
  <2> QED BY <1>12, <1>t, <2>1, <2>2, FirstStaysOK DEF ExpireCounter, Typed
<1>13. ASSUME UNCHANGED vars
       PROVE  Typed' /\ FirstOK'
  <2>1. Typed'
    BY <1>13, <1>t DEF Typed
  <2> QED BY <1>13, <1>t, <2>1, FirstStaysOK DEF Typed
<1>14. (Typed' /\ FirstOK') => TypeOK'
  BY DEF TypeOK, Typed, FirstOK, Records
<1> QED
  BY <1>1, <1>2, <1>3, <1>4, <1>5, <1>6, <1>7, <1>8, <1>9, <1>10, <1>11, <1>12, <1>13,
     <1>14 DEF Next

\* The keys of one trip's PIN keep their types and the order of their expiry, however
\* the calls to Redis interleave and fail.
THEOREM TypeCorrect == Spec => []TypeOK
  BY InitType, StepKeepsType, PTL DEF Spec

-----------------------------------------------------------------------------
(* The counter while executions keep apart. *)

\* isBlocked has answered "not blocked".
Passed(c) == call[c].at \in {"blocked", "pin", "read", "write"}

\* The counter has been written, and the block that may follow has not.
Deciding(c) == call[c].at \in {"reread", "block"}

\* Where each execution stands tells how far the counter can be.  Of a full counter and
\* the block that came of it, the counter expires first.
Exact ==
  /\ attempts = recent /\ attempts <= MAX_ATTEMPTS
  /\ \A c, d \in Calls : ~At(c, "free") /\ ~At(d, "free") => c = d
  /\ \A c \in Calls :
       /\ Passed(c) => ~blocked /\ attempts < MAX_ATTEMPTS
       /\ Deciding(c) => ~blocked
       /\ At(c, "write") => call[c].read = attempts
       /\ At(c, "block") => attempts = MAX_ATTEMPTS
  /\ (\A c \in Calls : ~Deciding(c)) /\ attempts = MAX_ATTEMPTS
       => blocked /\ first = "attempts"

ExactInv == TypeOK /\ (apart => Exact)

LEMMA InitExact == Init => ExactInv
<1> SUFFICES ASSUME Init PROVE ExactInv
  OBVIOUS
<1>1. Exact
  BY PinCacheAssumption DEF Init, Exact, Passed, Deciding, At, Free
<1> QED BY <1>1, InitType DEF ExactInv

\* The execution that is under way moves and leaves the counters alone.
LEMMA MoveKeepsExact ==
  ASSUME Typed, Exact, UNCHANGED <<attempts, blocked, first, recent>>,
         NEW c \in Calls, NEW x \in Records, call' = [call EXCEPT ![c] = x],
         AllFree \/ ~At(c, "free"),
         x.at \in {"blocked", "pin", "read", "write"} => ~blocked /\ attempts < MAX_ATTEMPTS,
         x.at = "write" => x.read = attempts,
         x.at # "reread",
         x.at = "block" => ~blocked /\ attempts = MAX_ATTEMPTS,
         Deciding(c) => x.at = "block" \/ attempts < MAX_ATTEMPTS
  PROVE  Exact'
<1> USE DEF Exact
<1>1. \A d \in Calls : call'[d] = IF d = c THEN x ELSE call[d]
  BY DEF Typed
<1>2. \A d \in Calls \ {c} : At(d, "free")
  BY DEF AllFree
<1>3. \A d, e \in Calls : ~At(d, "free")' /\ ~At(e, "free")' => d = e
  BY <1>1, <1>2 DEF At
<1>4. ASSUME NEW d \in Calls
      PROVE  /\ Passed(d)' => ~blocked /\ attempts < MAX_ATTEMPTS
             /\ Deciding(d)' => ~blocked
             /\ At(d, "write")' => call'[d].read = attempts
             /\ At(d, "block")' => attempts = MAX_ATTEMPTS
  <2>1. CASE d = c
    BY <1>1, <2>1 DEF At, Passed, Deciding
  <2>2. CASE d # c
    BY <1>1, <2>2 DEF At, Passed, Deciding
  <2> QED BY <2>1, <2>2
<1>5. ASSUME \A d \in Calls : ~Deciding(d)', attempts = MAX_ATTEMPTS
      PROVE  blocked /\ first = "attempts"
  <2>1. x.at # "block"
    BY <1>1, <1>5 DEF Deciding
  <2>2. attempts \in Nat /\ MAX_ATTEMPTS \in Nat
    BY PinCacheAssumption DEF Typed
  <2>3. ~Deciding(c)
    BY <1>5, <2>1, <2>2
  <2>4. \A d \in Calls : ~Deciding(d)
    BY <1>2, <2>3 DEF At, Deciding
  <2> QED BY <1>5, <2>4
<1> QED BY <1>3, <1>4, <1>5

\* The execution under way returns.
LEMMA ReturnFreesAll ==
  ASSUME Typed, Exact, NEW c \in Calls, ~At(c, "free"), Return(c)
  PROVE  AllFree'
<1>1. \A d \in Calls \ {c} : At(d, "free")
  BY DEF Exact
<1>2. \A d \in Calls : call'[d] = IF d = c THEN Free ELSE call[d]
  BY DEF Return, Typed
<1> QED BY <1>1, <1>2 DEF AllFree, At, Free

LEMMA FreeIsExact ==
  ASSUME AllFree', attempts' = recent', attempts' <= MAX_ATTEMPTS,
         attempts' = MAX_ATTEMPTS => blocked' /\ first' = "attempts"
  PROVE  Exact'
<1>1. \A c \in Calls : call'[c].at = "free"
  BY DEF AllFree, At
<1>2. \A c \in Calls : ~Passed(c)' /\ ~Deciding(c)' /\ ~At(c, "write")' /\ ~At(c, "block")'
  BY <1>1 DEF Passed, Deciding, At
<1>3. \A c \in Calls : At(c, "free")'
  BY <1>1 DEF At
<1> QED BY <1>2, <1>3 DEF Exact

LEMMA ClearIsExact ==
  ASSUME KeepCounters({}), AllFree'
  PROVE  Exact'
<1>1. attempts' = 0 /\ recent' = 0
  BY DEF KeepCounters
<1> QED BY <1>1, FreeIsExact, PinCacheAssumption

LEMMA StepKeepsExact ==
  ASSUME ExactInv, [Next]_vars
  PROVE  ExactInv'
<1> USE DEF keys, history, vars
<1>t. TypeOK'
  BY StepKeepsType DEF ExactInv
<1> SUFFICES ASSUME apart' PROVE Exact'
  BY <1>t DEF ExactInv
<1>n. Typed /\ MAX_ATTEMPTS \in Nat \ {0}
  BY TypeParts, PinCacheAssumption DEF ExactInv
<1>r. \A c \in Calls : call[c] \in Records
  BY <1>n DEF Typed
<1>f. Free \in Records /\ Free.at = "free"
  BY DEF Free, Records, CallPoints
<1>g. \A point \in {"store", "clear", "isBlocked", "blocked", "pin", "read", "write",
                    "reread", "block"} : point \in CallPoints
  BY DEF CallPoints
\* Where an execution goes on, it does so to such a record.
<1>m. \A c \in Calls, point \in CallPoints :
        /\ [call[c] EXCEPT !.at = point] \in Records
        /\ [call[c] EXCEPT !.at = point].at = point
        /\ [call[c] EXCEPT !.at = point].read = call[c].read
        /\ Goto(c, point) => call' = [call EXCEPT ![c] = [call[c] EXCEPT !.at = point]]
  BY <1>r, <1>n DEF Records, Goto, Typed
<1>1. ASSUME NEW c \in Calls, NEW p \in Pins, BeginSetPin(c, p) \/ BeginValidate(c, p)
      PROVE  Exact'
  <2>1. PICK at \in {"store", "isBlocked"} :
          call' = [call EXCEPT ![c] = [Free EXCEPT !.at = at, !.pin = p]]
    BY <1>1 DEF BeginSetPin, BeginValidate
  <2> DEFINE x == [Free EXCEPT !.at = at, !.pin = p]
  <2>2. x \in Records /\ x.at = at
    BY <1>g DEF Free, Records
  <2>3. apart /\ AllFree /\ UNCHANGED <<attempts, blocked, first, recent>>
    BY <1>1 DEF BeginSetPin, BeginValidate, Disturb
  <2>4. ~Deciding(c)
    BY <2>3 DEF AllFree, At, Deciding
  <2> HIDE DEF x
  <2> QED BY <1>n, <2>1, <2>2, <2>3, <2>4, MoveKeepsExact DEF x, ExactInv
<1>2. ASSUME NEW c \in Calls, StorePin(c)
      PROVE  Exact'
  <2> DEFINE x == [call[c] EXCEPT !.at = "clear"]
  <2>1. x \in Records /\ x.at = "clear" /\ call' = [call EXCEPT ![c] = x]
    BY <1>2, <1>g, <1>m DEF StorePin
  <2>2. /\ apart /\ ~At(c, "free") /\ ~Deciding(c)
        /\ UNCHANGED <<attempts, blocked, first, recent>>
    BY <1>2 DEF StorePin, At, Deciding
  <2> HIDE DEF x
  <2> QED BY <1>n, <2>1, <2>2, MoveKeepsExact DEF ExactInv
<1>3. ASSUME NEW c \in Calls, NEW kept \in SUBSET CounterKeys, ClearAttempts(c, kept)
      PROVE  Exact'
  <2>1. apart /\ kept = {} /\ ~At(c, "free") /\ Return(c) /\ KeepCounters({})
    BY <1>3 DEF ClearAttempts, At
  <2>2. AllFree'
    BY <1>n, <2>1, ReturnFreesAll DEF ExactInv
  <2> QED BY <2>1, <2>2, ClearIsExact
<1>4. ASSUME NEW c \in Calls,
             NEW point \in {"isBlocked", "blocked"}, NEW next \in {"blocked", "pin"},
             IsBlocked(c, point, next)
      PROVE  Exact'
  <2>1. /\ apart /\ ~At(c, "free") /\ ~Deciding(c)
        /\ UNCHANGED <<attempts, blocked, first, recent>>
        /\ (blocked /\ Return(c)) \/ (~blocked /\ Goto(c, next))
    BY <1>4 DEF IsBlocked, At, Deciding
  <2>2. CASE blocked /\ Return(c)
    BY <1>n, <1>f, <2>1, <2>2, MoveKeepsExact DEF Return, ExactInv
  <2>3. CASE ~blocked /\ Goto(c, next)
    <3> DEFINE x == [call[c] EXCEPT !.at = next]
    <3>1. x \in Records /\ x.at = next /\ call' = [call EXCEPT ![c] = x]
      BY <2>3, <1>g, <1>m
    <3>2. attempts < MAX_ATTEMPTS
      <4>1. \A d \in Calls : ~Deciding(d)
        BY <2>1 DEF ExactInv, Exact, At, Deciding
      <4> QED BY <1>n, <2>1, <2>3, <4>1 DEF ExactInv, Exact, Typed
    <3> HIDE DEF x
    <3> QED BY <1>n, <2>1, <2>3, <3>1, <3>2, MoveKeepsExact DEF ExactInv
  <2> QED BY <2>1, <2>2, <2>3
<1>5. ASSUME NEW c \in Calls, GetPin(c)
      PROVE  Exact'
  <2>1. /\ apart /\ ~At(c, "free") /\ Passed(c) /\ ~Deciding(c)
        /\ UNCHANGED <<attempts, blocked, first, recent>>
        /\ Return(c) \/ Goto(c, "clear") \/ Goto(c, "read")
    BY <1>5 DEF GetPin, At, Passed, Deciding
  <2>2. ~blocked /\ attempts < MAX_ATTEMPTS
    BY <2>1 DEF ExactInv, Exact
  <2>3. CASE Return(c)
    BY <1>n, <1>f, <2>1, <2>3, MoveKeepsExact DEF Return, ExactInv
  <2>4. ASSUME NEW next \in {"clear", "read"}, Goto(c, next)
        PROVE  Exact'
    <3> DEFINE x == [call[c] EXCEPT !.at = next]
    <3>1. x \in Records /\ x.at = next /\ call' = [call EXCEPT ![c] = x]
      BY <2>4, <1>g, <1>m
    <3> HIDE DEF x
    <3> QED BY <1>n, <2>1, <2>2, <3>1, MoveKeepsExact DEF ExactInv
  <2> QED BY <2>1, <2>3, <2>4
<1>6. ASSUME NEW c \in Calls, ReadAttempts(c)
      PROVE  Exact'
  <2> DEFINE x == [call[c] EXCEPT !.at = "write", !.read = attempts]
  <2>1. x \in Records /\ x.at = "write" /\ x.read = attempts
    BY <1>n, <1>r, <1>g DEF Records, Typed
  <2>2. call' = [call EXCEPT ![c] = x]
    BY <1>6, <1>r, <1>n DEF ReadAttempts, Records, Typed
  <2>3. /\ apart /\ ~At(c, "free") /\ Passed(c) /\ ~Deciding(c)
        /\ UNCHANGED <<attempts, blocked, first, recent>>
    BY <1>6 DEF ReadAttempts, At, Passed, Deciding
  <2>4. ~blocked /\ attempts < MAX_ATTEMPTS
    BY <2>3 DEF ExactInv, Exact
  <2> HIDE DEF x
  <2> QED BY <1>n, <2>1, <2>2, <2>3, <2>4, MoveKeepsExact DEF ExactInv
<1>7. ASSUME NEW c \in Calls, WriteAttempts(c)
      PROVE  Exact'
  <2>1. apart /\ ~At(c, "free") /\ Passed(c) /\ At(c, "write")
    BY <1>7 DEF WriteAttempts, At, Passed
  <2>2. attempts' = attempts + 1 /\ recent' = recent + 1 /\ blocked' = blocked
    BY <1>7, <2>1 DEF WriteAttempts, ExactInv, Exact
  <2>3. attempts' = recent' /\ attempts' <= MAX_ATTEMPTS /\ ~blocked'
    BY <1>n, <2>1, <2>2 DEF ExactInv, Exact, Typed
  <2>4. \A d \in Calls : IF d = c THEN call'[d].at = "reread" ELSE call'[d].at = "free"
    BY <1>7, <1>n, <1>r, <2>1 DEF WriteAttempts, Goto, At, ExactInv, Exact, Typed, Records
  <2>5. \A d, e \in Calls : ~At(d, "free")' /\ ~At(e, "free")' => d = e
    BY <2>4 DEF At
  <2>6. \A d \in Calls : ~Passed(d)' /\ ~At(d, "write")' /\ ~At(d, "block")'
    BY <2>4 DEF At, Passed
  <2>7. Deciding(c)'
    BY <2>4 DEF Deciding
  <2> QED BY <2>3, <2>5, <2>6, <2>7 DEF Exact
<1>8. ASSUME NEW c \in Calls, RereadAttempts(c)
      PROVE  Exact'
  <2>1. /\ apart /\ ~At(c, "free") /\ Deciding(c)
        /\ UNCHANGED <<attempts, blocked, first, recent>>
    BY <1>8 DEF RereadAttempts, At, Deciding
  <2>2. ~blocked /\ attempts <= MAX_ATTEMPTS
    BY <2>1 DEF ExactInv, Exact
  <2>3. CASE attempts >= MAX_ATTEMPTS
    <3> DEFINE x == [call[c] EXCEPT !.at = "block"]
    <3>1. x \in Records /\ x.at = "block" /\ call' = [call EXCEPT ![c] = x]
      BY <1>8, <2>3, <1>g, <1>m DEF RereadAttempts
    <3>2. attempts = MAX_ATTEMPTS
      BY <1>n, <2>2, <2>3 DEF Typed
    <3> HIDE DEF x
    <3> QED BY <1>n, <2>1, <2>2, <3>1, <3>2, MoveKeepsExact DEF ExactInv
  <2>4. CASE ~(attempts >= MAX_ATTEMPTS)
    <3>1. attempts < MAX_ATTEMPTS /\ call' = [call EXCEPT ![c] = Free]
      BY <1>8, <1>n, <2>4 DEF RereadAttempts, Return, Typed
    <3> QED BY <1>n, <1>f, <2>1, <3>1, MoveKeepsExact DEF ExactInv
  <2> QED BY <2>3, <2>4
<1>9. ASSUME NEW c \in Calls, BlockTrip(c)
      PROVE  Exact'
  <2>1. apart /\ ~At(c, "free") /\ At(c, "block") /\ Return(c) /\ blocked'
    BY <1>9 DEF BlockTrip, At
  <2>2. AllFree'
    BY <1>n, <2>1, ReturnFreesAll DEF ExactInv
  <2>3. attempts = MAX_ATTEMPTS /\ attempts = recent /\ UNCHANGED <<attempts, recent>>
    BY <1>9, <2>1 DEF BlockTrip, ExactInv, Exact
  <2>4. Exists("attempts")
    BY <1>n, <2>3 DEF Exists
  <2>5. first' = "attempts"
    BY <1>9, <2>4, OtherIs DEF BlockTrip, FirstAfter
  <2> QED BY <1>n, <2>1, <2>2, <2>3, <2>5, FreeIsExact
<1>10. ASSUME NEW c \in Calls, Fail(c)
       PROVE  Exact'
  BY <1>10 DEF Fail
<1>11. ASSUME NEW kept \in SUBSET (CounterKeys \cup {"pin"}), ClearPin(kept)
       PROVE  Exact'
  <2>1. AllFree /\ kept = {} /\ KeepCounters({}) /\ UNCHANGED call
    BY <1>11 DEF ClearPin
  <2>2. AllFree'
    BY <2>1 DEF AllFree, At
  <2> QED BY <2>1, <2>2, ClearIsExact
<1>12. ASSUME ExpirePin \/ ExpireCounter
       PROVE  Exact'
  <2>1. apart /\ AllFree /\ AllFree'
    BY <1>12 DEF ExpirePin, ExpireCounter, Disturb, AllFree, At
  <2>2. \A c \in Calls : ~Deciding(c)
    BY <2>1 DEF AllFree, At, Deciding
  <2>3. /\ attempts = recent /\ attempts <= MAX_ATTEMPTS
        /\ attempts = MAX_ATTEMPTS => blocked /\ first = "attempts"
    BY <2>1, <2>2 DEF ExactInv, Exact
  <2>4. CASE ExpirePin
    BY <2>1, <2>3, <2>4, FreeIsExact DEF ExpirePin
  <2>5. CASE ExpireCounter /\ first = "attempts"
    <3>1. attempts' = 0 /\ recent' = 0
      BY <2>5, OtherIs DEF ExpireCounter, KeepCounters
    <3> QED BY <1>n, <2>1, <3>1, FreeIsExact
  <2>6. CASE ExpireCounter /\ first = "blocked"
    <3>1. attempts' = attempts /\ recent' = recent
      BY <2>6, OtherIs DEF ExpireCounter, KeepCounters
    <3> QED BY <2>1, <2>3, <2>6, <3>1, FreeIsExact
  <2>7. first \in {"attempts", "blocked", None}
    BY TypeParts DEF ExactInv, FirstOK, CounterKeys
  <2> QED BY <1>12, <2>4, <2>5, <2>6, <2>7 DEF ExpireCounter
<1>13. ASSUME UNCHANGED vars
       PROVE  Exact'
  BY <1>13 DEF ExactInv, Exact, Passed, Deciding, At
<1> QED
  BY <1>1, <1>2, <1>3, <1>4, <1>5, <1>6, <1>7, <1>8, <1>9, <1>10, <1>11, <1>12, <1>13
     DEF Next

\* While executions on the PIN of a trip keep apart and Redis answers, the counter counts
\* every wrong PIN: validatePin never compares more than MAX_ATTEMPTS of them on one
\* counter, and the last one blocks the trip.
THEOREM CountingIsExact == Spec => []CountsEveryWrongPin
<1>1. Spec => []ExactInv
  BY InitExact, StepKeepsExact, PTL DEF Spec
<1>2. ExactInv => CountsEveryWrongPin
  <2> SUFFICES ASSUME ExactInv, apart PROVE CountsEveryWrongPin
    BY DEF CountsEveryWrongPin
  <2>1. attempts = recent /\ attempts <= MAX_ATTEMPTS /\ attempts \in Nat
    BY TypeParts DEF ExactInv, Exact, Typed
  <2>2. ASSUME AllFree, attempts >= MAX_ATTEMPTS
        PROVE  blocked
    <3>1. \A c \in Calls : ~Deciding(c)
      BY <2>2 DEF AllFree, At, Deciding
    <3>2. attempts = MAX_ATTEMPTS
      BY <2>1, <2>2, PinCacheAssumption
    <3> QED BY <3>1, <3>2 DEF ExactInv, Exact
  <2> QED BY <2>1, <2>2 DEF CountsEveryWrongPin
<1> QED BY <1>1, <1>2, PTL
=============================================================================
