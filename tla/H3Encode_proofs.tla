----------------------------- MODULE H3Encode_proofs -----------------------------
(***************************************************************************)
(* Proofs for any number of overlapping calls and renewals, any times,     *)
(* batches of any length and caches of any size.  Those about the service  *)
(* token are about the steps of ServiceToken, to which every step of       *)
(* H3Encode belongs.  Those about h3Encode rest on what the LRU cache's    *)
(* methods do to a sound cache, and on the two loops, which are recursive  *)
(* functions over the numbers of their rounds.                             *)
(***************************************************************************)
EXTENDS H3Encode, WellFoundedInduction, SequenceTheorems, TLAPS

\* The token side of every step is a step of ServiceToken, or leaves it alone.
LEMMA StepsOfToken == [Next]_vars => [TokenNext]_tokenVars
<1> SUFFICES ASSUME [Next]_vars PROVE TokenNext \/ UNCHANGED tokenVars
  BY DEF tokenVars
<1>0. \A c \in Calls : c \in Executions
  BY DEF Calls
<1>1. ASSUME NEW c \in Calls, Call(c) PROVE TokenNext \/ UNCHANGED tokenVars
  <2>1. CASE \E ops \in Batches : Encode(c, ops)
    BY <2>1 DEF Encode
  <2>2. CASE Reject(c) \/ TakeToken(c) \/ RequestFails(c)
    BY <2>2 DEF Reject, TakeToken, RequestFails
  <2>3. CASE AskForToken(c)
    BY <1>0, <2>3 DEF AskForToken, TokenNext
  <2>4. CASE TokenComes(c)
    BY <1>0, <2>4 DEF TokenComes, TokenNext
  <2>5. CASE TokenFails(c)
    BY <1>0, <2>5 DEF TokenFails, TokenNext
  <2>6. CASE Answered(c)
    <3>1. PICK n \in 0..Len(call[c].uncached) : \E bad \in SUBSET (1..n) : Respond(c, n, bad)
      BY <2>6 DEF Answered
    <3>2. PICK bad \in SUBSET (1..n) : Respond(c, n, bad)
      BY <3>1
    <3>3. UNCHANGED tokenVars
      BY <3>2 DEF Respond
    <3> QED BY <3>3
  <2> QED
    BY <1>1, <2>1, <2>2, <2>3, <2>4, <2>5, <2>6 DEF Call
<1>2. ASSUME NEW b \in Background, Renewal(b) PROVE TokenNext
  BY <1>2, ServiceTokenAssumption DEF Renewal, TokenNext
<1>3. CASE TimePasses
  BY <1>3 DEF TimePasses, TokenNext
<1>4. CASE UNCHANGED vars
  BY <1>4 DEF vars
<1> QED
  BY <1>1, <1>2, <1>3, <1>4 DEF Next

-----------------------------------------------------------------------------
\* What the service believes of a token's life exceeds the truth by no more than
\* an answer may take.
Overestimate == token.left <= token.valid + AUTH_TIMEOUT

\* A timer that is set is set for the moment at which the token stops being fresh.
TimerAligned == timer # None => token.held /\ timer = Minus(token.left, THRESHOLD)

TokenInv == TokenTypeOK /\ Overestimate /\ TimerAligned /\ RenewalGoesOn

LEMMA InitInv == Init => TokenInv
<1> SUFFICES ASSUME Init PROVE TokenInv
  OBVIOUS
<1> USE ServiceTokenAssumption
<1>1. TokenInit
  BY DEF Init
<1>2. TokenTypeOK
  <2>1. 0 \in 0..AUTH_TIMEOUT
    OBVIOUS
  <2>2. fetch \in [Executions -> 0..AUTH_TIMEOUT \cup {None}]
    BY <1>1, <2>1 DEF TokenInit
  <2> QED BY <1>1, <2>2 DEF TokenInit, TokenTypeOK
<1>3. Overestimate /\ TimerAligned /\ RenewalGoesOn
  BY <1>1 DEF TokenInit, Overestimate, TimerAligned, RenewalGoesOn
<1> QED
  BY <1>2, <1>3 DEF TokenInv

LEMMA MinusType == \A n, k \in Nat : Minus(n, k) \in Nat
BY DEF Minus

LEMMA BeginFetchInv ==
  ASSUME TokenInv, NEW e \in Executions, BeginFetch(e) PROVE TokenInv'
<1> USE ServiceTokenAssumption DEF TokenInv, BeginFetch
<1>1. TokenTypeOK'
  BY DEF TokenTypeOK
<1>2. Overestimate' /\ TimerAligned'
  BY DEF Overestimate, TimerAligned, Minus
<1>3. RenewalGoesOn'
  <2>1. fetch'[e] # None
    BY DEF TokenTypeOK
  <2> QED BY <2>1 DEF RenewalGoesOn, InFlight
<1> QED BY <1>1, <1>2, <1>3

LEMMA AnswerInv ==
  ASSUME TokenInv, NEW e \in Executions, AnswerSome(e) PROVE TokenInv'
<1> USE ServiceTokenAssumption DEF TokenInv
<1>0. PICK life \in Lifetimes, latency \in 0..AUTH_TIMEOUT : Answer(e, life, latency)
  BY DEF AnswerSome
<1>1. life \in Nat /\ latency \in Nat /\ latency <= AUTH_TIMEOUT
  OBVIOUS
<1>2. TokenTypeOK'
  <2>1. Minus(life, latency) \in Nat /\ Minus(life, THRESHOLD) \in Nat
    BY <1>1, MinusType
  <2> QED BY <1>0, <1>1, <2>1 DEF TokenTypeOK, Answer
<1>3. Overestimate'
  BY <1>0, <1>1 DEF Overestimate, Answer, Minus
<1>4. TimerAligned' /\ RenewalGoesOn'
  <2>1. timer' \in Nat
    BY <1>0, <1>1, MinusType DEF Answer
  <2>2. timer' # None /\ token'.held /\ timer' = Minus(token'.left, THRESHOLD)
    BY <1>0, <2>1 DEF Answer
  <2> QED BY <2>2 DEF TimerAligned, RenewalGoesOn, Minus
<1> QED BY <1>2, <1>3, <1>4

LEMMA FailInv ==
  ASSUME TokenInv, NEW e \in Executions, Fail(e) PROVE TokenInv'
<1> USE ServiceTokenAssumption DEF TokenInv, Fail
<1>1. TokenTypeOK'
  BY DEF TokenTypeOK
<1>2. Overestimate' /\ TimerAligned' /\ RenewalGoesOn'
  BY DEF Overestimate, TimerAligned, RenewalGoesOn, Minus
<1> QED BY <1>1, <1>2

LEMMA TimerFiresInv ==
  ASSUME TokenInv, NEW e \in Executions, TimerFires(e) PROVE TokenInv'
<1> USE ServiceTokenAssumption DEF TokenInv, TimerFires
<1>1. TokenTypeOK'
  BY DEF TokenTypeOK
<1>2. Overestimate' /\ TimerAligned'
  BY DEF Overestimate, TimerAligned
<1>3. ~Fresh
  BY DEF Fresh, TimerAligned, Minus, TokenTypeOK
<1>4. RenewalGoesOn'
  <2>1. fetch'[e] # None
    BY <1>3 DEF TokenTypeOK
  <2> QED BY <2>1 DEF RenewalGoesOn, InFlight
<1> QED BY <1>1, <1>2, <1>4

LEMMA TickInv ==
  ASSUME TokenInv, Tick PROVE TokenInv'
<1> USE ServiceTokenAssumption DEF TokenInv, Tick
<1>0. /\ token.left \in Nat /\ token.valid \in Nat
      /\ token' = [held |-> token.held, left |-> Minus(token.left, 1),
                   valid |-> Minus(token.valid, 1)]
  BY DEF TokenTypeOK
<1>1. TokenTypeOK'
  <2>1. token' \in [held : BOOLEAN, left : Nat, valid : Nat]
    BY <1>0, MinusType DEF TokenTypeOK
  <2>2. timer' \in Nat \cup {None}
    BY DEF TokenTypeOK
  <2>3. fetch' \in [Executions -> 0..AUTH_TIMEOUT \cup {None}]
    <3>1. \A e \in Executions : fetch[e] # None => fetch[e] + 1 \in 0..AUTH_TIMEOUT
      BY DEF InFlight, TokenTypeOK
    <3> QED BY <3>1
  <2> QED BY <2>1, <2>2, <2>3 DEF TokenTypeOK
<1>2. Overestimate'
  BY <1>0 DEF Overestimate, Minus
<1>3. TimerAligned'
  BY <1>0 DEF TimerAligned, Minus, TokenTypeOK
<1>4. RenewalGoesOn'
  <2>1. \A e \in Executions : fetch[e] # None => fetch'[e] # None
    BY DEF TokenTypeOK
  <2>2. InFlight # {} => InFlight' # {}
    BY <2>1 DEF InFlight
  <2>3. timer' = None => timer = None
    BY DEF TokenTypeOK
  <2> QED BY <1>0, <2>2, <2>3 DEF RenewalGoesOn
<1> QED BY <1>1, <1>2, <1>3, <1>4

LEMMA StepInv == TokenInv /\ [Next]_vars => TokenInv'
<1> SUFFICES ASSUME TokenInv, [Next]_vars PROVE TokenInv'
  OBVIOUS
<1>1. TokenNext \/ UNCHANGED tokenVars
  BY StepsOfToken
<1>2. CASE UNCHANGED tokenVars
  BY <1>2 DEF tokenVars, TokenInv, TokenTypeOK, Overestimate, TimerAligned, RenewalGoesOn,
              InFlight
<1>3. CASE TokenNext
  BY <1>3, BeginFetchInv, AnswerInv, FailInv, TimerFiresInv, TickInv DEF TokenNext
<1> QED BY <1>1, <1>2, <1>3

THEOREM TokenInvariant == Spec => []TokenInv
BY InitInv, StepInv, PTL DEF Spec

\* However logins overlap and in whatever order their answers come, a token that is given
\* out without a login outlives the request it is given out for.
THEOREM TrustIsJustified == Spec => []TrustedTokensAreValid
<1>1. TokenInv => TrustedTokensAreValid
  BY ServiceTokenAssumption
  DEF TokenInv, TokenTypeOK, Overestimate, TrustedTokensAreValid, Fresh
<1> QED
  BY TokenInvariant, <1>1, PTL

\* The chain of renewals breaks only at a login that fails.
THEOREM RenewalContinues == Spec => []RenewalGoesOn
<1>1. TokenInv => RenewalGoesOn
  BY DEF TokenInv
<1> QED
  BY TokenInvariant, <1>1, PTL

-----------------------------------------------------------------------------
LEMMA Induction ==
  ASSUME NEW T, 0 \in T, \A n \in Nat : n \in T => n + 1 \in T
  PROVE  Nat \subseteq T
<1> DEFINE U == Nat \ T
<1> SUFFICES ASSUME U # {} PROVE FALSE
  OBVIOUS
<1>1. IsWellFoundedOn(OpToRel(<, Nat), Nat)
  BY NatLessThanWellFounded
<1>2. U \subseteq Nat
  OBVIOUS
<1>3. PICK x \in U : \A y \in U : ~ (<<y, x>> \in OpToRel(<, Nat))
  <2> HIDE DEF U
  <2> QED BY <1>1, <1>2, WFMin
<1>4. x # 0 /\ x - 1 \in Nat /\ x - 1 < x
  OBVIOUS
<1>5. x - 1 \in T
  BY <1>3, <1>4 DEF OpToRel
<1>6. (x - 1) + 1 \in T
  BY <1>4, <1>5
<1> QED
  BY <1>6

LEMMA InductionUpTo ==
  ASSUME NEW n \in Nat, NEW T, 0 \in T, \A k \in 0..(n - 1) : k \in T => k + 1 \in T
  PROVE  0..n \subseteq T
<1> DEFINE U == T \cup {k \in Nat : k > n}
<1>1. 0 \in U
  OBVIOUS
<1>2. ASSUME NEW k \in Nat, k \in U PROVE k + 1 \in U
  <2>1. CASE k \in 0..(n - 1)
    BY <1>2, <2>1
  <2>2. CASE k \notin 0..(n - 1)
    BY <2>2
  <2> QED BY <2>1, <2>2
<1>3. Nat \subseteq U
  <2> HIDE DEF U
  <2> QED BY <1>1, <1>2, Induction
<1> QED BY <1>3

\* A loop of n rounds, of which the i-th takes s in S to F[i][s] in S, and what it has
\* come to after each of them.
IsLoop(F, n, S) == F \in [1..n -> [S -> S]]

IsRun(g, start, F, n, S) ==
  g \in [0..n -> S] /\ g[0] = start /\ \A i \in 1..n : g[i] = F[i][g[i - 1]]

LEMMA Recursion ==
  ASSUME NEW S, NEW start \in S, NEW n \in Nat, NEW F, IsLoop(F, n, S)
  PROVE  \E g : IsRun(g, start, F, n, S)
<1> USE DEF IsLoop
<1> DEFINE Runs(k, g) == g[0] = start /\ \A i \in 1..k : g[i] = F[i][g[i - 1]]
           T == {k \in Nat : k <= n => \E g \in [0..k -> S] : Runs(k, g)}
<1>1. 0 \in T
  <2> DEFINE g == [i \in 0..0 |-> start]
  <2>1. g \in [0..0 -> S] /\ Runs(0, g)
    OBVIOUS
  <2> QED BY <2>1
<1>2. ASSUME NEW k \in Nat, k \in T PROVE k + 1 \in T
  <2> SUFFICES ASSUME k + 1 <= n PROVE \E g \in [0..(k + 1) -> S] : Runs(k + 1, g)
    OBVIOUS
  <2>1. PICK g \in [0..k -> S] : Runs(k, g)
    BY <1>2
  <2>2. PICK next \in S : next = F[k + 1][g[k]]
    <3>1. k + 1 \in 1..n /\ g[k] \in S
      OBVIOUS
    <3>2. F[k + 1] \in [S -> S]
      BY <3>1
    <3> QED BY <3>1, <3>2
  <2> DEFINE h == [i \in 0..(k + 1) |-> IF i = k + 1 THEN next ELSE g[i]]
  <2>3. h \in [0..(k + 1) -> S]
    OBVIOUS
  <2>4. h[0] = start
    BY <2>1
  <2>5. ASSUME NEW i \in 1..(k + 1) PROVE h[i] = F[i][h[i - 1]]
    <3>1. CASE i = k + 1
      <4>1. h[i] = next /\ h[i - 1] = g[k]
        BY <3>1
      <4> QED BY <2>2, <3>1, <4>1
    <3>2. CASE i # k + 1
      BY <2>1, <3>2
    <3> QED BY <3>1, <3>2
  <2> QED BY <2>3, <2>4, <2>5
<1>3. n \in T
  <2> HIDE DEF T
  <2>1. Nat \subseteq T
    BY <1>1, <1>2, Induction
  <2> QED BY <2>1
<1> QED
  BY <1>3 DEF IsRun

-----------------------------------------------------------------------------
LEMMA RemoveAtProperties ==
  ASSUME NEW S, NEW s \in Seq(S), NEW i \in 1..Len(s)
  PROVE  /\ RemoveAt(s, i) \in Seq(S)
         /\ Len(RemoveAt(s, i)) = Len(s) - 1
         /\ \A j \in 1..(Len(s) - 1) :
              RemoveAt(s, i)[j] = IF j < i THEN s[j] ELSE s[j + 1]
<1> DEFINE front == SubSeq(s, 1, i - 1)
           back  == SubSeq(s, i + 1, Len(s))
<1>0. Len(s) \in Nat /\ \A j \in 1..Len(s) : s[j] \in S
  BY LenProperties, ElementOfSeq
<1>1. /\ front \in Seq(S)
      /\ Len(front) = i - 1
      /\ \A j \in 1..(i - 1) : front[j] = s[j]
  <2>1. \A j \in 1..(i - 1) : s[j] \in S
    BY <1>0
  <2>2. 1 \in Int /\ i - 1 \in Int
    BY <1>0
  <2> HIDE DEF front
  <2>3. /\ front \in Seq(S)
        /\ Len(front) = IF 1 <= i - 1 THEN (i - 1) - 1 + 1 ELSE 0
        /\ \A j \in 1..((i - 1) - 1 + 1) : front[j] = s[1 + j - 1]
    BY <2>1, <2>2, SubSeqProperties DEF front
  <2> QED BY <1>0, <2>3
<1>2. /\ back \in Seq(S)
      /\ Len(back) = Len(s) - i
      /\ \A j \in 1..(Len(s) - i) : back[j] = s[i + j]
  <2>1. \A j \in (i + 1)..Len(s) : s[j] \in S
    BY <1>0
  <2>2. Len(s) \in Int /\ i + 1 \in Int
    BY <1>0
  <2> HIDE DEF back
  <2>3. /\ back \in Seq(S)
        /\ Len(back) = IF i + 1 <= Len(s) THEN Len(s) - (i + 1) + 1 ELSE 0
        /\ \A j \in 1..(Len(s) - (i + 1) + 1) : back[j] = s[(i + 1) + j - 1]
    BY <2>1, <2>2, SubSeqProperties DEF back
  <2> QED BY <1>0, <2>3
<1>3. /\ front \o back \in Seq(S)
      /\ Len(front \o back) = Len(front) + Len(back)
      /\ \A j \in 1..(Len(front) + Len(back)) :
           (front \o back)[j] = IF j <= Len(front) THEN front[j] ELSE back[j - Len(front)]
  <2> HIDE DEF front, back
  <2> QED BY <1>1, <1>2, ConcatProperties
<1> HIDE DEF front, back
<1> DEFINE joined == front \o back
<1>4. RemoveAt(s, i) = joined
  BY DEF RemoveAt, front, back
<1>5. joined \in Seq(S) /\ Len(joined) = Len(s) - 1
  BY <1>0, <1>1, <1>2, <1>3
<1>6. \A j \in 1..(Len(s) - 1) : joined[j] = IF j <= i - 1 THEN front[j] ELSE back[j - (i - 1)]
  BY <1>0, <1>1, <1>2, <1>3
<1> HIDE DEF joined
<1>7. ASSUME NEW j \in 1..(Len(s) - 1)
      PROVE  joined[j] = IF j < i THEN s[j] ELSE s[j + 1]
  <2>1. CASE j < i
    BY <1>0, <1>1, <1>6, <2>1
  <2>2. CASE ~(j < i)
    <3>1. j - (i - 1) \in 1..(Len(s) - i) /\ i + (j - (i - 1)) = j + 1
      BY <1>0, <2>2
    <3>2. joined[j] = back[j - (i - 1)]
      BY <1>0, <1>6, <2>2
    <3> QED BY <1>2, <2>2, <3>1, <3>2
  <2> QED BY <2>1, <2>2
<1> QED BY <1>4, <1>5, <1>7

\* What RemoveFirst does to a sequence in which nothing occurs twice.
LEMMA RemoveFirstProperties ==
  ASSUME NEW S, NEW s \in Seq(S), NEW i \in 1..Len(s),
         \A j, k \in 1..Len(s) : s[j] = s[k] => j = k
  PROVE  RemoveFirst(s, s[i]) = RemoveAt(s, i)
<1> DEFINE I == {j \in 1..Len(s) : s[j] = s[i]}
<1>0. Len(s) \in Nat
  BY LenProperties
<1>1. I = {i} /\ i \in Nat
  BY <1>0
<1>2. Min(I) = i
  BY <1>1 DEF Min
<1>3. SelectInSeq(s, LAMBDA v : v = s[i]) = i
  BY <1>1, <1>2 DEF SelectInSeq
<1> QED BY <1>3 DEF RemoveFirst
-----------------------------------------------------------------------------
Keys    == Range(KeyOf)
Entries == [key : Keys, value : Coords]

\* What is true of the H3 cache between two calls of its methods.
Sound(map) ==
  /\ map \in Seq(Entries)
  /\ \A i, j \in DOMAIN map : map[i].key = map[j].key => i = j
  /\ \A i \in DOMAIN map : buildKey(map[i].value) = map[i].key
  /\ Len(map) <= MaxSize

LEMMA KeysOfProperties ==
  ASSUME NEW map \in Seq(Entries)
  PROVE  /\ KeysOf(map) \in Seq(Keys)
         /\ Len(KeysOf(map)) = Len(map)
         /\ DOMAIN map = 1..Len(map) /\ Len(map) \in Nat
         /\ \A i \in 1..Len(map) : KeysOf(map)[i] = map[i].key /\ map[i] \in Entries
<1>1. DOMAIN map = 1..Len(map) /\ Len(map) \in Nat /\ \A i \in 1..Len(map) : map[i] \in Entries
  BY LenProperties, ElementOfSeq
<1>2. \A i \in 1..Len(map) : map[i].key \in Keys
  BY <1>1 DEF Entries
<1>3. KeysOf(map) \in [1..Len(map) -> Keys]
  BY <1>1, <1>2 DEF KeysOf
<1>4. KeysOf(map) \in Seq(Keys)
  BY <1>1, <1>3, SeqDef
<1>5. DOMAIN KeysOf(map) = 1..Len(KeysOf(map)) /\ Len(KeysOf(map)) \in Nat
  BY <1>4, LenProperties
<1>6. Len(KeysOf(map)) = Len(map)
  BY <1>1, <1>3, <1>5
<1> QED BY <1>1, <1>4, <1>6 DEF KeysOf

LEMMA KeysOfAppend ==
  ASSUME NEW map \in Seq(Entries), NEW e \in Entries
  PROVE  KeysOf(Append(map, e)) = Append(KeysOf(map), e.key)
<1>1. /\ Append(map, e) \in Seq(Entries)
      /\ Len(Append(map, e)) = Len(map) + 1
      /\ \A i \in 1..Len(map) : Append(map, e)[i] = map[i]
      /\ Append(map, e)[Len(map) + 1] = e
  BY AppendProperties
<1>2. e.key \in Keys
  BY DEF Entries
<1>3. KeysOf(map) \in Seq(Keys) /\ Len(KeysOf(map)) = Len(map) /\ Len(map) \in Nat
      /\ \A i \in 1..Len(map) : KeysOf(map)[i] = map[i].key
  BY KeysOfProperties
<1>4. /\ Append(KeysOf(map), e.key) \in Seq(Keys)
      /\ Len(Append(KeysOf(map), e.key)) = Len(map) + 1
      /\ \A i \in 1..Len(map) : Append(KeysOf(map), e.key)[i] = map[i].key
      /\ Append(KeysOf(map), e.key)[Len(map) + 1] = e.key
  BY <1>2, <1>3, AppendProperties
<1>5. /\ KeysOf(Append(map, e)) \in Seq(Keys)
      /\ Len(KeysOf(Append(map, e))) = Len(map) + 1
      /\ \A i \in 1..(Len(map) + 1) : KeysOf(Append(map, e))[i] = Append(map, e)[i].key
  BY <1>1, KeysOfProperties
<1>6. \A i \in 1..(Len(map) + 1) : KeysOf(Append(map, e))[i] = Append(KeysOf(map), e.key)[i]
  BY <1>1, <1>3, <1>4, <1>5
<1> QED BY <1>4, <1>5, <1>6, SeqEqual

LEMMA KeysOfTail ==
  ASSUME NEW map \in Seq(Entries), map # <<>>
  PROVE  KeysOf(Tail(map)) = Tail(KeysOf(map))
<1>1. /\ Tail(map) \in Seq(Entries)
      /\ Len(Tail(map)) = Len(map) - 1
      /\ \A i \in 1..Len(Tail(map)) : Tail(map)[i] = map[i + 1]
  BY HeadTailProperties
<1>2. KeysOf(map) \in Seq(Keys) /\ Len(KeysOf(map)) = Len(map)
      /\ \A i \in 1..Len(map) : KeysOf(map)[i] = map[i].key
  BY KeysOfProperties
<1>3. Len(map) \in Nat \ {0}
  BY EmptySeq
<1>4. KeysOf(map) # <<>>
  BY <1>2, <1>3, EmptySeq
<1>5. /\ Tail(KeysOf(map)) \in Seq(Keys)
      /\ Len(Tail(KeysOf(map))) = Len(map) - 1
      /\ \A i \in 1..(Len(map) - 1) : Tail(KeysOf(map))[i] = KeysOf(map)[i + 1]
  BY <1>2, <1>4, HeadTailProperties
<1>6. /\ KeysOf(Tail(map)) \in Seq(Keys)
      /\ Len(KeysOf(Tail(map))) = Len(map) - 1
      /\ \A i \in 1..(Len(map) - 1) : KeysOf(Tail(map))[i] = map[i + 1].key
  BY <1>1, KeysOfProperties
<1>7. \A i \in 1..(Len(map) - 1) : KeysOf(Tail(map))[i] = Tail(KeysOf(map))[i]
  BY <1>2, <1>3, <1>5, <1>6
<1> QED BY <1>5, <1>6, <1>7, SeqEqual

\* delete takes the entry of the key out and leaves the rest in order.
LEMMA WithoutProperties ==
  ASSUME NEW map, Sound(map), NEW key
  PROVE  /\ Sound(Without(map, key))
         /\ ~Has(Without(map, key), key)
         /\ Len(Without(map, key)) = IF Has(map, key) THEN Len(map) - 1 ELSE Len(map)
         /\ KeysOf(Without(map, key)) = RemoveFirst(KeysOf(map), key)
<1> DEFINE n == Len(map)
           keys == KeysOf(map)
<1>1. /\ keys \in Seq(Keys) /\ Len(keys) = n /\ map \in Seq(Entries)
      /\ DOMAIN map = 1..n /\ n \in Nat /\ n <= MaxSize
      /\ \A i \in 1..n : keys[i] = map[i].key /\ map[i] \in Entries
  BY KeysOfProperties DEF Sound
<1>2. /\ \A i, j \in 1..n : map[i].key = map[j].key => i = j
      /\ \A i \in 1..n : buildKey(map[i].value) = map[i].key
  BY <1>1 DEF Sound
<1> HIDE DEF n, keys
<1>3. CASE ~Has(map, key)
  <2>1. Without(map, key) = map
    BY <1>3 DEF Without
  <2>2. RemoveFirst(keys, key) = keys
    BY <1>1, <1>3 DEF RemoveFirst, Has
  <2> QED BY <1>3, <2>1, <2>2 DEF keys
<1>4. CASE Has(map, key)
  <2> DEFINE p == PlaceOf(map, key)
             rest == RemoveAt(map, p)
  <2>1. p \in 1..n /\ map[p].key = key
    BY <1>1, <1>4 DEF PlaceOf, Has
  <2>2. Without(map, key) = rest
    BY <1>4 DEF Without
  <2> HIDE DEF p
  <2>3. /\ rest \in Seq(Entries)
        /\ Len(rest) = n - 1
        /\ \A j \in 1..(n - 1) : rest[j] = IF j < p THEN map[j] ELSE map[j + 1]
    BY <1>1, <2>1, RemoveAtProperties DEF n
  <2>4. /\ RemoveAt(keys, p) \in Seq(Keys)
        /\ Len(RemoveAt(keys, p)) = n - 1
        /\ \A j \in 1..(n - 1) : RemoveAt(keys, p)[j] = IF j < p THEN keys[j] ELSE keys[j + 1]
    BY <1>1, <2>1, RemoveAtProperties
  <2>5. RemoveFirst(keys, key) = RemoveAt(keys, p)
    <3>1. \A j, k \in 1..Len(keys) : keys[j] = keys[k] => j = k
      BY <1>1, <1>2
    <3>2. keys[p] = key /\ p \in 1..Len(keys)
      BY <1>1, <2>1
    <3>3. RemoveFirst(keys, keys[p]) = RemoveAt(keys, p)
      BY <1>1, <3>1, <3>2, RemoveFirstProperties
    <3> QED BY <3>2, <3>3
  <2> HIDE DEF rest
  <2>6. DOMAIN rest = 1..(n - 1)
    BY <2>3, LenProperties
  <2>7. \A j \in 1..(n - 1) : j \in 1..n /\ j + 1 \in 1..n /\ j # j + 1
    BY <1>1
  <2>8. Sound(rest)
    <3>1. \A i, j \in 1..(n - 1) : rest[i].key = rest[j].key => i = j
      <4> SUFFICES ASSUME NEW i \in 1..(n - 1), NEW j \in 1..(n - 1), rest[i].key = rest[j].key
                   PROVE  i = j
        OBVIOUS
      <4>1. PICK i1 \in 1..n : rest[i] = map[i1] /\ i1 = IF i < p THEN i ELSE i + 1
        BY <2>3, <2>7
      <4>2. PICK j1 \in 1..n : rest[j] = map[j1] /\ j1 = IF j < p THEN j ELSE j + 1
        BY <2>3, <2>7
      <4>3. i1 = j1
        BY <1>2, <4>1, <4>2
      <4> QED BY <1>1, <2>1, <4>1, <4>2, <4>3
    <3>2. \A i \in 1..(n - 1) : buildKey(rest[i].value) = rest[i].key
      BY <1>2, <2>3, <2>7
    <3> QED BY <1>1, <2>3, <2>6, <3>1, <3>2, LruCacheAssumption DEF Sound
  <2>9. ~Has(rest, key)
    <3> SUFFICES ASSUME NEW j \in 1..(n - 1), rest[j].key = key PROVE FALSE
      BY <2>6 DEF Has
    <3>1. PICK j1 \in 1..n : rest[j] = map[j1] /\ j1 # p
      BY <1>1, <2>1, <2>3, <2>7
    <3> QED BY <1>2, <2>1, <3>1
  <2>10. KeysOf(rest) = RemoveAt(keys, p)
    <3>1. /\ KeysOf(rest) \in Seq(Keys)
          /\ Len(KeysOf(rest)) = n - 1
          /\ \A j \in 1..(n - 1) : KeysOf(rest)[j] = rest[j].key
      BY <2>3, KeysOfProperties
    <3>2. ASSUME NEW j \in 1..(n - 1) PROVE KeysOf(rest)[j] = RemoveAt(keys, p)[j]
      <4>1. KeysOf(rest)[j] = rest[j].key /\ j \in 1..n /\ j + 1 \in 1..n
        BY <2>7, <3>1
      <4>2. rest[j] = map[IF j < p THEN j ELSE j + 1]
        BY <2>3
      <4>3. RemoveAt(keys, p)[j] = keys[IF j < p THEN j ELSE j + 1]
        BY <2>4
      <4> QED BY <1>1, <4>1, <4>2, <4>3
    <3> QED BY <2>4, <3>1, <3>2, SeqEqual
  <2> QED BY <1>4, <2>2, <2>3, <2>5, <2>8, <2>9, <2>10 DEF keys, n
<1> QED BY <1>3, <1>4

LEMMA AppendSound ==
  ASSUME NEW map, Sound(map), NEW e \in Entries, ~Has(map, e.key),
         buildKey(e.value) = e.key, Len(map) < MaxSize
  PROVE  Sound(Append(map, e))
<1>1. /\ map \in Seq(Entries) /\ DOMAIN map = 1..Len(map) /\ Len(map) \in Nat
      /\ \A i, j \in 1..Len(map) : map[i].key = map[j].key => i = j
      /\ \A i \in 1..Len(map) : buildKey(map[i].value) = map[i].key /\ map[i].key # e.key
  BY KeysOfProperties DEF Sound, Has
<1> DEFINE more == Append(map, e)
<1>2. /\ more \in Seq(Entries)
      /\ Len(more) = Len(map) + 1
      /\ \A i \in 1..Len(map) : more[i] = map[i]
      /\ more[Len(map) + 1] = e
  BY <1>1, AppendProperties
<1>3. DOMAIN more = 1..(Len(map) + 1)
  BY <1>2, LenProperties
<1> HIDE DEF more
<1>4. \A i \in 1..(Len(map) + 1) : i \in 1..Len(map) \/ i = Len(map) + 1
  BY <1>1
<1>5. \A i, j \in 1..(Len(map) + 1) : more[i].key = more[j].key => i = j
  BY <1>1, <1>2, <1>4
<1>6. \A i \in 1..(Len(map) + 1) : buildKey(more[i].value) = more[i].key
  BY <1>1, <1>2, <1>4
<1>7. Len(more) <= MaxSize
  BY <1>1, <1>2, LruCacheAssumption
<1> QED BY <1>2, <1>3, <1>5, <1>6, <1>7 DEF Sound, more

LEMMA TailSound ==
  ASSUME NEW map, Sound(map), map # <<>>
  PROVE  /\ Sound(Tail(map))
         /\ Len(Tail(map)) = Len(map) - 1
         /\ \A key : Has(Tail(map), key) => Has(map, key)
<1>1. /\ map \in Seq(Entries) /\ DOMAIN map = 1..Len(map) /\ Len(map) \in Nat \ {0}
      /\ Len(map) <= MaxSize
      /\ \A i, j \in 1..Len(map) : map[i].key = map[j].key => i = j
      /\ \A i \in 1..Len(map) : buildKey(map[i].value) = map[i].key
  BY KeysOfProperties, EmptySeq DEF Sound
<1> DEFINE less == Tail(map)
<1>2. /\ less \in Seq(Entries)
      /\ Len(less) = Len(map) - 1
      /\ \A i \in 1..Len(less) : less[i] = map[i + 1]
  BY <1>1, HeadTailProperties
<1>3. DOMAIN less = 1..(Len(map) - 1)
  BY <1>2, LenProperties
<1> HIDE DEF less
<1>4. \A i \in 1..(Len(map) - 1) : i + 1 \in 1..Len(map) /\ less[i] = map[i + 1]
  BY <1>1, <1>2
<1>5. \A i, j \in 1..(Len(map) - 1) : less[i].key = less[j].key => i = j
  <2> SUFFICES ASSUME NEW i \in 1..(Len(map) - 1), NEW j \in 1..(Len(map) - 1),
                      less[i].key = less[j].key
               PROVE  i = j
    OBVIOUS
  <2>1. i + 1 = j + 1
    BY <1>1, <1>4
  <2> QED BY <1>1, <2>1
<1>6. \A i \in 1..(Len(map) - 1) : buildKey(less[i].value) = less[i].key
  BY <1>1, <1>4
<1>7. Len(less) <= MaxSize
  BY <1>1, <1>2, LruCacheAssumption
<1>8. \A key : Has(less, key) => Has(map, key)
  BY <1>1, <1>3, <1>4 DEF Has
<1> QED BY <1>2, <1>3, <1>5, <1>6, <1>7, <1>8 DEF Sound, less

\* get, when it finds the key: its entry becomes the most recently used one, and its
\* value has that key.
LEMMA GetProperties ==
  ASSUME NEW map, Sound(map), NEW key, Has(map, key)
  PROVE  /\ Sound(Get(map, key))
         /\ KeysOf(Get(map, key)) = Used(KeysOf(map), key)
         /\ ValueAt(map, key) \in Coords /\ buildKey(ValueAt(map, key)) = key
<1> DEFINE e      == Entry(key, ValueAt(map, key))
           others == Without(map, key)
<1>0. /\ map \in Seq(Entries) /\ DOMAIN map = 1..Len(map) /\ Len(map) \in Nat
      /\ Len(map) <= MaxSize /\ MaxSize \in Nat
      /\ \A i \in 1..Len(map) : map[i] \in Entries /\ buildKey(map[i].value) = map[i].key
  BY KeysOfProperties, LruCacheAssumption DEF Sound
<1>1. PICK p \in 1..Len(map) : map[p].key = key /\ ValueAt(map, key) = map[p].value
  BY <1>0 DEF Has, ValueAt, PlaceOf
<1>2. ValueAt(map, key) \in Coords /\ buildKey(ValueAt(map, key)) = key /\ key \in Keys
  BY <1>0, <1>1 DEF Entries
<1>3. e \in Entries /\ e.key = key /\ buildKey(e.value) = key
  BY <1>2 DEF Entry, Entries
<1>4. /\ Sound(others) /\ ~Has(others, key) /\ Len(others) = Len(map) - 1
      /\ KeysOf(others) = RemoveFirst(KeysOf(map), key)
  BY WithoutProperties
<1>5. others \in Seq(Entries) /\ Len(others) \in Nat /\ Len(others) < MaxSize
      /\ Len(Append(others, e)) = Len(map)
  <2>1. others \in Seq(Entries)
    BY <1>4 DEF Sound
  <2> HIDE DEF others, e
  <2>2. Len(Append(others, e)) = Len(others) + 1 /\ Len(others) \in Nat
    BY <1>3, <2>1, AppendProperties, LenProperties
  <2> QED BY <1>0, <1>4, <2>1, <2>2
<1>6. Get(map, key) = Append(others, e)
  BY DEF Get
<1> HIDE DEF e, others
<1>7. Sound(Append(others, e))
  BY <1>3, <1>4, <1>5, AppendSound
<1>8. KeysOf(Append(others, e)) = Append(RemoveFirst(KeysOf(map), key), key)
  BY <1>3, <1>4, <1>5, KeysOfAppend
<1>9. Len(KeysOf(Append(others, e))) = Len(map)
  BY <1>5, <1>7, KeysOfProperties DEF Sound
<1>10. Used(KeysOf(map), key) = Append(RemoveFirst(KeysOf(map), key), key)
  BY <1>0, <1>8, <1>9 DEF Used
<1> QED BY <1>2, <1>6, <1>7, <1>8, <1>10

\* set, whether or not the key is there and whether or not the cache is full.
LEMMA SetProperties ==
  ASSUME NEW map, Sound(map), NEW x \in Coords
  PROVE  /\ Sound(Set(map, buildKey(x), x))
         /\ KeysOf(Set(map, buildKey(x), x)) = Used(KeysOf(map), buildKey(x))
<1> DEFINE key    == buildKey(x)
           e      == Entry(key, x)
           others == Without(map, key)
           kept   == IF Len(others) >= MaxSize THEN Tail(others) ELSE others
<1>1. e \in Entries /\ e.key = key /\ buildKey(e.value) = key /\ key \in Keys
  BY H3EncodeAssumption DEF Entry, Entries, Keys, buildKey, Range
<1>2. /\ Sound(others) /\ ~Has(others, key)
      /\ KeysOf(others) = RemoveFirst(KeysOf(map), key)
  <2> HIDE DEF key
  <2> QED BY WithoutProperties
<1>3. Set(map, key, x) = Append(kept, e)
  BY DEF Set
<1>4. MaxSize \in Nat \ {0}
  BY LruCacheAssumption
<1> HIDE DEF key, e, others
<1>5. /\ others \in Seq(Entries) /\ Len(others) \in Nat /\ Len(others) <= MaxSize
      /\ KeysOf(others) \in Seq(Keys) /\ Len(KeysOf(others)) = Len(others)
  BY <1>2, KeysOfProperties DEF Sound
<1>6. /\ Append(KeysOf(others), key) \in Seq(Keys)
      /\ Len(Append(KeysOf(others), key)) = Len(others) + 1
  BY <1>1, <1>5, AppendProperties
<1>7. CASE Len(others) >= MaxSize
  <2>1. kept = Tail(others) /\ others # <<>> /\ Len(others) = MaxSize /\ KeysOf(others) # <<>>
    BY <1>4, <1>5, <1>7, EmptySeq
  <2> HIDE DEF kept
  <2>2. Sound(kept) /\ ~Has(kept, key) /\ Len(kept) = MaxSize - 1
    BY <1>2, <2>1, TailSound
  <2>3. Sound(Append(kept, e))
    BY <1>1, <1>4, <2>2, AppendSound
  <2>4. KeysOf(Append(kept, e)) = Append(Tail(KeysOf(others)), key)
    <3>1. KeysOf(kept) = Tail(KeysOf(others))
      BY <1>5, <2>1, KeysOfTail
    <3>2. kept \in Seq(Entries)
      BY <2>2 DEF Sound
    <3> QED BY <1>1, <3>1, <3>2, KeysOfAppend
  <2>5. Used(KeysOf(map), key) = Tail(Append(KeysOf(others), key))
    BY <1>2, <1>4, <1>6, <2>1 DEF Used
  <2>6. Tail(Append(KeysOf(others), key)) = Append(Tail(KeysOf(others)), key)
    BY <1>5, <2>1, HeadTailAppend
  <2> QED BY <1>3, <2>3, <2>4, <2>5, <2>6 DEF key
<1>8. CASE ~(Len(others) >= MaxSize)
  <2>1. kept = others /\ Len(others) < MaxSize
    BY <1>4, <1>5, <1>8
  <2> HIDE DEF kept
  <2>2. Sound(Append(others, e))
    BY <1>1, <1>2, <2>1, AppendSound
  <2>3. KeysOf(Append(others, e)) = Append(KeysOf(others), key)
    BY <1>1, <1>5, KeysOfAppend
  <2>4. Used(KeysOf(map), key) = Append(KeysOf(others), key)
    BY <1>2, <1>4, <1>5, <1>6, <2>1 DEF Used
  <2> QED BY <1>3, <2>1, <2>2, <2>3, <2>4 DEF key
<1> QED BY <1>7, <1>8

-----------------------------------------------------------------------------
Ops == Coords \cup Rings

\* What a round of the loop over the cache begins and ends with.
Founds ==
  {f \in [cache : Seq(Entries), recent : Seq(Keys), results : Seq(Results), uncached : Seq(Nat)] :
     Sound(f.cache) /\ f.recent = KeysOf(f.cache)}

\* A result from the cache is the cell of a coordinate with the same key.
Hit(op, result) == IsEncode(op) /\ result \in Coords /\ buildKey(result) = buildKey(op)

\* Of the first k operations, those that are not answered from the cache are noted.
Noted(k, ops, results, uncached) ==
  /\ \A j \in 1..Len(uncached) : uncached[j] \in 1..k
  /\ \A i \in 1..k : (\E j \in 1..Len(uncached) : uncached[j] = i) \/ Hit(ops[i], results[i])

LEMMA LookUpStep ==
  ASSUME NEW f \in Founds, NEW op \in Ops
  PROVE  /\ LookUp(f, op) \in Founds
         /\ Len(LookUp(f, op).results) = Len(f.results) + 1
         /\ \A i \in 1..Len(f.results) : LookUp(f, op).results[i] = f.results[i]
         /\ \/ /\ LookUp(f, op).uncached = f.uncached
               /\ Hit(op, LookUp(f, op).results[Len(f.results) + 1])
            \/ LookUp(f, op).uncached = Append(f.uncached, Len(f.results) + 1)
<1>0. /\ Sound(f.cache) /\ f.recent = KeysOf(f.cache) /\ f.cache \in Seq(Entries)
      /\ f.recent \in Seq(Keys) /\ f.results \in Seq(Results) /\ f.uncached \in Seq(Nat)
      /\ Len(f.results) \in Nat
  BY LenProperties DEF Founds
<1>1. CASE IsEncode(op) /\ Has(f.cache, buildKey(op))
  <2> DEFINE key == buildKey(op)
             r   == ValueAt(f.cache, key)
             map == Get(f.cache, key)
             used == Used(f.recent, key)
  <2>1. Sound(map) /\ KeysOf(map) = used /\ r \in Coords /\ buildKey(r) = key
    <3> HIDE DEF key
    <3> QED BY <1>0, <1>1, GetProperties DEF key
  <2>2. LookUp(f, op) = [cache |-> map, recent |-> used, results |-> Append(f.results, r),
                         uncached |-> f.uncached]
    BY <1>1 DEF LookUp
  <2> HIDE DEF map, used, r, key
  <2>3. /\ Append(f.results, r) \in Seq(Results)
        /\ Len(Append(f.results, r)) = Len(f.results) + 1
        /\ \A i \in 1..Len(f.results) : Append(f.results, r)[i] = f.results[i]
        /\ Append(f.results, r)[Len(f.results) + 1] = r
    <3>1. r \in Results
      BY <2>1 DEF Results
    <3> QED BY <1>0, <3>1, AppendProperties
  <2>4. map \in Seq(Entries) /\ used \in Seq(Keys)
    BY <2>1, KeysOfProperties DEF Sound
  <2>5. LookUp(f, op) \in Founds
    BY <1>0, <2>1, <2>2, <2>3, <2>4 DEF Founds
  <2>6. Hit(op, r)
    BY <1>1, <2>1 DEF Hit, key
  <2> QED BY <2>2, <2>3, <2>5, <2>6
<1>2. CASE ~(IsEncode(op) /\ Has(f.cache, buildKey(op)))
  <2> DEFINE place == Len(f.results) + 1
  <2>1. LookUp(f, op) = [cache |-> f.cache, recent |-> f.recent,
                         results |-> Append(f.results, None),
                         uncached |-> Append(f.uncached, place)]
    BY <1>2 DEF LookUp
  <2>2. None \in Results /\ place \in Nat
    BY <1>0 DEF Results
  <2>3. /\ Append(f.results, None) \in Seq(Results)
        /\ Len(Append(f.results, None)) = Len(f.results) + 1
        /\ \A i \in 1..Len(f.results) : Append(f.results, None)[i] = f.results[i]
    BY <1>0, <2>2, AppendProperties
  <2>4. Append(f.uncached, place) \in Seq(Nat)
    <3> HIDE DEF place
    <3> QED BY <1>0, <2>2, AppendProperties
  <2>5. LookUp(f, op) \in Founds
    BY <1>0, <2>1, <2>3, <2>4 DEF Founds
  <2> QED BY <2>1, <2>3, <2>5
<1> QED BY <1>1, <1>2

\* The loop over the cache exists as the recursive function that LookUps defines, for
\* every batch.
LEMMA LookUpsRounds ==
  ASSUME Sound(cache), recent = KeysOf(cache), NEW ops \in Seq(Ops)
  PROVE  /\ LookUps(ops)[0] = [cache |-> cache, recent |-> recent, results |-> <<>>,
                               uncached |-> <<>>]
         /\ LookUps(ops)[0] \in Founds
         /\ \A i \in 1..Len(ops) : LookUps(ops)[i] = LookUp(LookUps(ops)[i - 1], ops[i])
<1> DEFINE n     == Len(ops)
           start == [cache |-> cache, recent |-> recent, results |-> <<>>, uncached |-> <<>>]
           F     == [i \in 1..n |-> [f \in Founds |-> LookUp(f, ops[i])]]
<1>0. n \in Nat /\ \A i \in 1..n : ops[i] \in Ops
  BY LenProperties, ElementOfSeq
<1>1. start \in Founds
  <2>1. /\ cache \in Seq(Entries) /\ recent \in Seq(Keys)
        /\ <<>> \in Seq(Results) /\ <<>> \in Seq(Nat)
    BY KeysOfProperties, EmptySeq DEF Sound
  <2> QED BY <2>1 DEF Founds
<1>2. IsLoop(F, n, Founds)
  BY <1>0, LookUpStep DEF IsLoop
<1> HIDE DEF n, start
<1>3. PICK g : IsRun(g, start, F, n, Founds)
  <2> HIDE DEF F
  <2> QED BY <1>0, <1>1, <1>2, Recursion
<1>4. g = [i \in 0..n |-> IF i = 0 THEN start ELSE LookUp(g[i - 1], ops[i])]
  <2>1. ASSUME NEW i \in 1..n PROVE g[i] = LookUp(g[i - 1], ops[i])
    <3>1. g[i - 1] \in Founds
      BY <1>0, <1>3 DEF IsRun
    <3> QED BY <1>3, <3>1 DEF IsRun
  <2> QED BY <1>0, <1>3, <2>1 DEF IsRun
<1>5. LookUps(ops) =
        [i \in 0..n |-> IF i = 0 THEN start ELSE LookUp(LookUps(ops)[i - 1], ops[i])]
  <2>1. \E f : f = [i \in 0..n |-> IF i = 0 THEN start ELSE LookUp(f[i - 1], ops[i])]
    BY <1>4
  <2> QED BY <2>1, Zenon DEF LookUps, n, start
<1>6. LookUps(ops)[0] = start
  BY <1>0, <1>5
<1>7. \A i \in 1..n : LookUps(ops)[i] = LookUp(LookUps(ops)[i - 1], ops[i])
  BY <1>0, <1>5
<1> QED BY <1>1, <1>6, <1>7 DEF n, start

LEMMA LookUpsProperties ==
  ASSUME Sound(cache), recent = KeysOf(cache), NEW ops \in Seq(Ops)
  PROVE  LET found == LookUps(ops)[Len(ops)]
         IN  /\ found \in Founds
             /\ Len(found.results) = Len(ops)
             /\ Noted(Len(ops), ops, found.results, found.uncached)
<1> DEFINE n  == Len(ops)
           at == LookUps(ops)
           T  == {k \in 0..n : /\ at[k] \in Founds
                               /\ Len(at[k].results) = k
                               /\ Noted(k, ops, at[k].results, at[k].uncached)}
<1>0. n \in Nat /\ \A i \in 1..n : ops[i] \in Ops
  BY LenProperties, ElementOfSeq
<1>1. /\ at[0] = [cache |-> cache, recent |-> recent, results |-> <<>>, uncached |-> <<>>]
      /\ at[0] \in Founds
      /\ \A i \in 1..n : at[i] = LookUp(at[i - 1], ops[i])
  BY LookUpsRounds
<1> HIDE DEF n, at
<1>2. 0 \in T
  <2>1. at[0].results = <<>> /\ at[0].uncached = <<>>
    BY <1>1
  <2>2. Len(at[0].results) = 0 /\ Len(at[0].uncached) = 0
    BY <2>1, EmptySeq
  <2>3. Noted(0, ops, at[0].results, at[0].uncached)
    BY <2>2 DEF Noted
  <2> QED BY <1>0, <1>1, <2>2, <2>3
<1>3. ASSUME NEW k \in 0..(n - 1), k \in T PROVE k + 1 \in T
  <2> DEFINE f == at[k]
             h == at[k + 1]
  <2>1. f \in Founds /\ Len(f.results) = k /\ Noted(k, ops, f.results, f.uncached)
    BY <1>3
  <2>2. h = LookUp(f, ops[k + 1]) /\ ops[k + 1] \in Ops /\ k + 1 \in 0..n /\ k \in Nat
    <3>1. k + 1 \in 1..n /\ (k + 1) - 1 = k
      BY <1>0
    <3> QED BY <1>0, <1>1, <3>1
  <2> HIDE DEF f, h, T
  <2>3. /\ h \in Founds /\ Len(h.results) = k + 1
        /\ \A i \in 1..k : h.results[i] = f.results[i]
        /\ \/ h.uncached = f.uncached /\ Hit(ops[k + 1], h.results[k + 1])
           \/ h.uncached = Append(f.uncached, k + 1)
    BY <2>1, <2>2, LookUpStep
  <2>4. Noted(k + 1, ops, h.results, h.uncached)
    <3>1. \A i \in 1..(k + 1) : i \in 1..k \/ i = k + 1
      BY <2>2
    <3>2. CASE h.uncached = f.uncached /\ Hit(ops[k + 1], h.results[k + 1])
      BY <2>1, <2>2, <2>3, <3>1, <3>2 DEF Noted
    <3>3. CASE h.uncached = Append(f.uncached, k + 1)
      <4>1. f.uncached \in Seq(Nat) /\ k + 1 \in Nat
        BY <2>1, <2>2 DEF Founds
      <4>2. /\ Len(h.uncached) = Len(f.uncached) + 1 /\ Len(f.uncached) \in Nat
            /\ \A j \in 1..Len(f.uncached) : h.uncached[j] = f.uncached[j]
            /\ h.uncached[Len(f.uncached) + 1] = k + 1
        BY <3>3, <4>1, AppendProperties, LenProperties
      <4>3. \A j \in 1..Len(h.uncached) : j \in 1..Len(f.uncached) \/ j = Len(f.uncached) + 1
        BY <4>2
      <4>4. ASSUME NEW j \in 1..Len(h.uncached) PROVE h.uncached[j] \in 1..(k + 1)
        <5>1. CASE j = Len(f.uncached) + 1
          BY <2>2, <4>2, <5>1
        <5>2. CASE j \in 1..Len(f.uncached)
          <6>1. f.uncached[j] \in 1..k /\ h.uncached[j] = f.uncached[j]
            BY <2>1, <4>2, <5>2 DEF Noted
          <6> QED BY <2>2, <6>1
        <5> QED BY <4>3, <5>1, <5>2
      <4>5. ASSUME NEW i \in 1..(k + 1)
            PROVE  (\E j \in 1..Len(h.uncached) : h.uncached[j] = i) \/ Hit(ops[i], h.results[i])
        <5>1. CASE i = k + 1
          BY <4>2, <5>1
        <5>2. CASE i \in 1..k
          <6>1. CASE Hit(ops[i], f.results[i])
            BY <2>3, <5>2, <6>1
          <6>2. ASSUME NEW j \in 1..Len(f.uncached), f.uncached[j] = i
                PROVE  \E l \in 1..Len(h.uncached) : h.uncached[l] = i
            <7>1. j \in 1..Len(h.uncached)
              BY <4>2
            <7>2. h.uncached[j] = i
              BY <4>2, <6>2
            <7> QED BY <7>1, <7>2
          <6> QED BY <2>1, <5>2, <6>1, <6>2 DEF Noted
        <5> QED BY <3>1, <5>1, <5>2
      <4> QED BY <4>4, <4>5 DEF Noted
    <3> QED BY <2>3, <3>2, <3>3
  <2> QED BY <2>2, <2>3, <2>4 DEF T, h
<1>4. n \in T
  <2> HIDE DEF T
  <2>1. 0..n \subseteq T
    BY <1>0, <1>2, <1>3, InductionUpTo
  <2> QED BY <1>0, <2>1
<1> QED BY <1>4 DEF n, at

-----------------------------------------------------------------------------
Storeds ==
  {f \in [cache : Seq(Entries), recent : Seq(Keys)] :
     Sound(f.cache) /\ f.recent = KeysOf(f.cache)}

LEMMA StoreStep ==
  ASSUME NEW f \in Storeds, NEW x \in Coords PROVE Store(f, x) \in Storeds
<1> DEFINE map  == Set(f.cache, buildKey(x), x)
           used == Used(f.recent, buildKey(x))
<1>1. Sound(f.cache) /\ f.recent = KeysOf(f.cache)
  BY DEF Storeds
<1>2. Sound(map) /\ KeysOf(map) = used
  BY <1>1, SetProperties
<1>3. Store(f, x) = [cache |-> map, recent |-> used]
  BY DEF Store
<1> HIDE DEF map, used
<1>4. map \in Seq(Entries) /\ used \in Seq(Keys)
  BY <1>2, KeysOfProperties DEF Sound
<1> QED BY <1>2, <1>3, <1>4 DEF Storeds

\* The loop over the answer keeps the cache sound, whatever of the answer is missing
\* or wrong.
LEMMA StoresProperties ==
  ASSUME Sound(cache), recent = KeysOf(cache), NEW c, NEW n \in Nat, NEW bad
  PROVE  Stores(c, n, bad)[n] \in Storeds
<1> DEFINE start       == [cache |-> cache, recent |-> recent]
           Round(f, j) == IF IsEncode(Posted(c, j)) /\ j \notin bad
                            THEN Store(f, Posted(c, j))
                            ELSE f
           F           == [j \in 1..n |-> [f \in Storeds |-> Round(f, j)]]
           at          == Stores(c, n, bad)
<1>1. start \in Storeds
  <2>1. cache \in Seq(Entries) /\ recent \in Seq(Keys)
    BY KeysOfProperties DEF Sound
  <2> QED BY <2>1 DEF Storeds
<1>2. \A f \in Storeds, j \in 1..n : Round(f, j) \in Storeds
  BY StoreStep DEF IsEncode
<1>3. IsLoop(F, n, Storeds)
  <2> HIDE DEF Round
  <2> QED BY <1>2 DEF IsLoop
<1> HIDE DEF start
<1>4. PICK g : IsRun(g, start, F, n, Storeds)
  <2> HIDE DEF F
  <2> QED BY <1>1, <1>3, Recursion
<1>5. g = [j \in 0..n |-> IF j = 0 THEN start ELSE Round(g[j - 1], j)]
  <2> HIDE DEF Round
  <2>1. ASSUME NEW j \in 1..n PROVE g[j] = Round(g[j - 1], j)
    <3>1. g[j - 1] \in Storeds
      BY <1>4 DEF IsRun
    <3> QED BY <1>4, <3>1 DEF IsRun
  <2> QED BY <1>4, <2>1 DEF IsRun
<1>6. at = [j \in 0..n |-> IF j = 0 THEN start ELSE Round(at[j - 1], j)]
  <2>1. \E f : f = [j \in 0..n |-> IF j = 0 THEN start ELSE Round(f[j - 1], j)]
    BY <1>5
  <2> QED BY <2>1, Zenon DEF Stores, start
<1> HIDE DEF at, Round
<1> DEFINE T == {k \in 0..n : at[k] \in Storeds}
<1>7. 0 \in T
  BY <1>1, <1>6
<1>8. ASSUME NEW k \in 0..(n - 1), k \in T PROVE k + 1 \in T
  <2>1. k + 1 \in 1..n /\ (k + 1) - 1 = k
    OBVIOUS
  <2>2. at[k + 1] = Round(at[k], k + 1)
    BY <1>6, <2>1
  <2> QED BY <1>2, <1>8, <2>1, <2>2
<1>9. n \in T
  <2> HIDE DEF T
  <2>1. 0..n \subseteq T
    BY <1>7, <1>8, InductionUpTo
  <2> QED BY <2>1
<1> QED BY <1>9 DEF at

-----------------------------------------------------------------------------
Records == [at       : {"idle", "asked", "fetching", "posted", "done"},
            ops      : Batches \cup {<<>>},
            results  : Seq(Results),
            uncached : Seq(Nat)]

\* What AnswersBelong says of an operation and its result.
Belongs(op, result) ==
  IF IsEncode(op)
    THEN result \in {"error"} \cup {x \in Coords : buildKey(x) = buildKey(op)}
    ELSE result \in {op, "error", "hole"}

\* A call that waits knows the place of every operation that the cache has not
\* answered; login is fetch of the call.
RecordOK(r, login) ==
  /\ Len(r.results) = Len(r.ops)
  /\ r.at = "fetching" <=> login # None
  /\ r.at \in {"asked", "fetching", "posted"} => Noted(Len(r.ops), r.ops, r.results, r.uncached)
  /\ r.at = "done" => \A i \in 1..Len(r.ops) : Belongs(r.ops[i], r.results[i])

CacheInv == Sound(cache) /\ recent = KeysOf(cache)

CallInv == call \in [Calls -> Records] /\ \A c \in Calls : RecordOK(call[c], fetch[c])

LEMMA OpsOfRecord ==
  ASSUME NEW r \in Records
  PROVE  /\ r.ops \in Seq(Ops) /\ Len(r.ops) \in Nat /\ DOMAIN r.ops = 1..Len(r.ops)
         /\ \A i \in 1..Len(r.ops) : r.ops[i] \in Ops
         /\ r.results \in Seq(Results) /\ DOMAIN r.results = 1..Len(r.results)
         /\ \A i \in 1..Len(r.results) : r.results[i] \in Results
         /\ r.uncached \in Seq(Nat) /\ DOMAIN r.uncached = 1..Len(r.uncached)
         /\ Len(r.uncached) \in Nat
<1>1. r.ops \in Seq(Ops)
  BY EmptySeq, H3EncodeAssumption DEF Records, Ops
<1>2. r.results \in Seq(Results) /\ r.uncached \in Seq(Nat)
  BY DEF Records
<1> QED BY <1>1, <1>2, LenProperties, ElementOfSeq

LEMMA IdleOK == Idle \in Records /\ RecordOK(Idle, None)
<1>1. <<>> \in Seq(Results) /\ <<>> \in Seq(Nat)
  BY EmptySeq
<1> QED BY <1>1 DEF Idle, Records, RecordOK

\* A step of one call that leaves the logins of the others alone.
LEMMA OneCall ==
  ASSUME CallInv, NEW c \in Calls, NEW r \in Records, RecordOK(r, fetch'[c]),
         call' = [call EXCEPT ![c] = r],
         \A d \in Calls \ {c} : fetch'[d] = None <=> fetch[d] = None
  PROVE  CallInv'
<1>1. call' \in [Calls -> Records]
  BY DEF CallInv
<1>2. ASSUME NEW d \in Calls PROVE RecordOK(call'[d], fetch'[d])
  <2>1. CASE d = c
    BY <2>1 DEF CallInv
  <2>2. CASE d # c
    <3>1. call'[d] = call[d] /\ (fetch'[d] = None <=> fetch[d] = None)
      BY <2>2 DEF CallInv
    <3> QED BY <3>1 DEF CallInv, RecordOK
  <2> QED BY <2>1, <2>2
<1> QED BY <1>1, <1>2 DEF CallInv

\* Goto changes where a call is and nothing else of it.
LEMMA GotoOK ==
  ASSUME CallInv, NEW c \in Calls, NEW p \in {"fetching", "posted"}, Goto(c, p),
         call[c].at \in {"asked", "fetching"}, p = "fetching" <=> fetch'[c] # None,
         \A d \in Calls \ {c} : fetch'[d] = None <=> fetch[d] = None
  PROVE  CallInv'
<1> DEFINE r == [call[c] EXCEPT !.at = p]
<1>1. call[c] \in Records /\ RecordOK(call[c], fetch[c])
  BY DEF CallInv
<1>2. r \in Records /\ r.at = p /\ r.ops = call[c].ops /\ r.results = call[c].results
      /\ r.uncached = call[c].uncached
  BY <1>1 DEF Records
<1>3. call' = [call EXCEPT ![c] = r]
  BY DEF Goto
<1> HIDE DEF r
<1>4. RecordOK(r, fetch'[c])
  BY <1>1, <1>2 DEF RecordOK
<1> QED BY <1>2, <1>3, <1>4, OneCall

LEMMA ThrowOK ==
  ASSUME CallInv, NEW c \in Calls, Throw(c), fetch'[c] = None,
         \A d \in Calls \ {c} : fetch'[d] = None <=> fetch[d] = None
  PROVE  CallInv'
BY IdleOK, OneCall DEF Throw

LEMMA EncodeInv ==
  ASSUME CallInv, CacheInv, NEW c \in Calls, NEW ops \in Batches, Encode(c, ops)
  PROVE  CallInv' /\ CacheInv'
<1> DEFINE found == LookUps(ops)[Len(ops)]
           r     == [at       |-> IF found.uncached = <<>> THEN "done" ELSE "asked",
                     ops      |-> ops,
                     results  |-> found.results,
                     uncached |-> found.uncached]
<1>0. ops \in Seq(Ops) /\ Len(ops) \in Nat
  BY H3EncodeAssumption, LenProperties DEF Ops
<1>1. /\ found \in Founds
      /\ Len(found.results) = Len(ops)
      /\ Noted(Len(ops), ops, found.results, found.uncached)
  BY <1>0, LookUpsProperties DEF CacheInv
<1>2. /\ call[c].at \in {"idle", "done"} /\ fetch' = fetch
      /\ cache' = found.cache /\ recent' = found.recent
      /\ call' = [call EXCEPT ![c] = r]
  BY DEF Encode, tokenVars
<1> HIDE DEF found
<1>3. /\ Sound(found.cache) /\ found.recent = KeysOf(found.cache)
      /\ found.results \in Seq(Results) /\ found.uncached \in Seq(Nat)
  BY <1>1 DEF Founds
<1>4. r \in Records
  BY <1>3 DEF Records
<1>5. RecordOK(r, fetch[c])
  <2>1. fetch[c] = None
    BY <1>2 DEF CallInv, RecordOK
  <2>2. ASSUME found.uncached = <<>>, NEW i \in 1..Len(ops) PROVE Belongs(ops[i], found.results[i])
    <3>1. Len(found.uncached) = 0
      BY <2>2, EmptySeq
    <3>2. Hit(ops[i], found.results[i])
      BY <1>1, <3>1 DEF Noted
    <3> QED BY <3>2 DEF Hit, Belongs
  <2> QED BY <1>1, <2>1, <2>2 DEF RecordOK
<1> HIDE DEF r
<1>6. CallInv'
  BY <1>2, <1>4, <1>5, OneCall
<1> QED BY <1>2, <1>3, <1>6 DEF CacheInv

\* The answer is put where it belongs.
LEMMA PlacedProperties ==
  ASSUME CallInv, NEW c \in Calls, At(c, "posted"),
         NEW n \in Nat, NEW bad,
         ~ \E j \in (n + 1)..Len(call[c].uncached) : IsEncode(Posted(c, j))
  PROVE  /\ Placed(c, n, bad) \in Seq(Results)
         /\ Len(Placed(c, n, bad)) = Len(call[c].ops)
         /\ \A i \in 1..Len(call[c].ops) : Belongs(call[c].ops[i], Placed(c, n, bad)[i])
<1> DEFINE ops      == call[c].ops
           uncached == call[c].uncached
           placed   == Placed(c, n, bad)
<1>1. call[c] \in Records /\ RecordOK(call[c], fetch[c])
  BY DEF CallInv
<1>2. /\ ops \in Seq(Ops) /\ Len(ops) \in Nat /\ DOMAIN ops = 1..Len(ops)
      /\ \A i \in 1..Len(ops) : ops[i] \in Ops
      /\ DOMAIN uncached = 1..Len(uncached) /\ Len(uncached) \in Nat
      /\ \A i \in 1..Len(ops) : call[c].results[i] \in Results
      /\ Noted(Len(ops), ops, call[c].results, uncached)
  BY <1>1, OpsOfRecord DEF RecordOK, At
<1>3. ASSUME NEW i \in 1..Len(ops)
      PROVE  placed[i] \in Results /\ Belongs(ops[i], placed[i])
  <2>1. CASE i \in Range(uncached)
    <3> DEFINE j == CHOOSE j \in DOMAIN uncached : uncached[j] = i
    <3>1. j \in 1..Len(uncached) /\ uncached[j] = i
      BY <1>2, <2>1 DEF Range
    <3>2. placed[i] = Reply(ops[i], j, n, bad)
      BY <1>2, <2>1 DEF Placed
    <3>3. Posted(c, j) = ops[i]
      BY <3>1 DEF Posted
    <3> HIDE DEF j
    <3>4. placed[i] \in {"hole", "error", ops[i]}
      BY <3>2 DEF Reply
    <3>5. IsEncode(ops[i]) => placed[i] # "hole"
      <4> SUFFICES ASSUME IsEncode(ops[i]) PROVE placed[i] # "hole"
        OBVIOUS
      <4>1. ~(j > n)
        BY <1>2, <3>1, <3>3
      <4>2. ops[i] # "hole"
        BY H3EncodeAssumption DEF IsEncode
      <4> QED BY <3>2, <4>1, <4>2 DEF Reply
    <3> QED BY <1>2, <3>4, <3>5 DEF Belongs, Results, Ops, IsEncode
  <2>2. CASE i \notin Range(uncached)
    <3>1. placed[i] = call[c].results[i]
      BY <1>2, <2>2 DEF Placed
    <3>2. Hit(ops[i], call[c].results[i])
      BY <1>2, <2>2 DEF Noted, Range
    <3> QED BY <1>2, <3>1, <3>2 DEF Hit, Belongs
  <2> QED BY <2>1, <2>2
<1>4. placed \in [1..Len(ops) -> Results]
  <2>1. DOMAIN placed = 1..Len(ops) /\ placed = [i \in DOMAIN placed |-> placed[i]]
    BY <1>2 DEF Placed
  <2> HIDE DEF placed
  <2> QED BY <1>3, <2>1
<1> HIDE DEF placed
<1>5. placed \in Seq(Results)
  BY <1>2, <1>4, SeqDef
<1>6. Len(placed) = Len(ops)
  BY <1>2, <1>4, <1>5, LenProperties
<1> QED BY <1>3, <1>5, <1>6 DEF placed

LEMMA RespondInv ==
  ASSUME CallInv, CacheInv, NEW c \in Calls, NEW n \in Nat, NEW bad, Respond(c, n, bad)
  PROVE  CallInv' /\ CacheInv'
<1> DEFINE stored == Stores(c, n, bad)[n]
           r      == [at       |-> "done",
                      ops      |-> call[c].ops,
                      results  |-> Placed(c, n, bad),
                      uncached |-> <<>>]
<1>1. At(c, "posted") /\ cache' = stored.cache /\ recent' = stored.recent /\ fetch' = fetch
  BY DEF Respond, tokenVars
<1>2. CacheInv'
  <2>1. stored \in Storeds
    BY StoresProperties DEF CacheInv
  <2> QED BY <1>1, <2>1 DEF Storeds, CacheInv
<1>3. call[c] \in Records /\ RecordOK(call[c], fetch[c]) /\ fetch[c] = None
  BY <1>1 DEF CallInv, RecordOK, At
<1>4. CASE \E j \in (n + 1)..Len(call[c].uncached) : IsEncode(Posted(c, j))
  <2>1. Throw(c)
    BY <1>4 DEF Respond
  <2> QED BY <1>1, <1>2, <1>3, <2>1, ThrowOK
<1>5. CASE ~ \E j \in (n + 1)..Len(call[c].uncached) : IsEncode(Posted(c, j))
  <2>1. call' = [call EXCEPT ![c] = r]
    BY <1>5 DEF Respond
  <2>2. /\ Placed(c, n, bad) \in Seq(Results)
        /\ Len(Placed(c, n, bad)) = Len(call[c].ops)
        /\ \A i \in 1..Len(call[c].ops) : Belongs(call[c].ops[i], Placed(c, n, bad)[i])
    BY <1>1, <1>5, PlacedProperties
  <2>3. r \in Records
    <3>1. <<>> \in Seq(Nat)
      BY EmptySeq
    <3> QED BY <1>3, <2>2, <3>1 DEF Records
  <2>4. RecordOK(r, fetch[c])
    BY <1>3, <2>2 DEF RecordOK
  <2> HIDE DEF r
  <2>5. CallInv'
    BY <1>1, <2>1, <2>3, <2>4, OneCall
  <2> QED BY <1>2, <2>5
<1> QED BY <1>4, <1>5

LEMMA CallStep ==
  ASSUME TokenTypeOK, CallInv, CacheInv, NEW c \in Calls, Call(c)
  PROVE  CallInv' /\ CacheInv'
<1>0. /\ c \in Executions /\ \A d \in Calls : d \in Executions
      /\ call[c] \in Records /\ RecordOK(call[c], fetch[c])
      /\ fetch \in [Executions -> 0..AUTH_TIMEOUT \cup {None}] /\ None # 0
  BY ServiceTokenAssumption DEF Calls, CallInv, TokenTypeOK
<1>1. CASE \E ops \in Batches : Encode(c, ops)
  BY <1>1, EncodeInv
<1>2. CASE Reject(c) \/ RequestFails(c)
  <2>1. Throw(c) /\ fetch' = fetch /\ CacheInv' /\ fetch[c] = None
    BY <1>0, <1>2 DEF Reject, RequestFails, tokenVars, CacheInv, At, RecordOK
  <2> QED BY <2>1, ThrowOK
<1>3. CASE TakeToken(c)
  <2>1. Goto(c, "posted") /\ fetch' = fetch /\ CacheInv' /\ fetch[c] = None
        /\ call[c].at = "asked"
    BY <1>0, <1>3 DEF TakeToken, tokenVars, CacheInv, At, RecordOK
  <2> QED BY <2>1, GotoOK
<1>4. CASE AskForToken(c)
  <2>1. Goto(c, "fetching") /\ fetch' = [fetch EXCEPT ![c] = 0] /\ CacheInv'
        /\ call[c].at = "asked"
    BY <1>4 DEF AskForToken, BeginFetch, CacheInv, At
  <2>2. fetch'[c] # None /\ \A d \in Calls \ {c} : fetch'[d] = fetch[d]
    BY <1>0, <2>1
  <2> QED BY <2>1, <2>2, GotoOK
<1>5. CASE TokenComes(c)
  <2>1. PICK life \in Lifetimes, latency \in 0..AUTH_TIMEOUT : Answer(c, life, latency)
    BY <1>5 DEF TokenComes, AnswerSome
  <2>2. Goto(c, "posted") /\ fetch' = [fetch EXCEPT ![c] = None] /\ CacheInv'
        /\ fetch[c] # None
    BY <1>5, <2>1 DEF TokenComes, Answer, CacheInv
  <2>3. fetch'[c] = None /\ \A d \in Calls \ {c} : fetch'[d] = fetch[d]
    BY <1>0, <2>2
  <2>4. call[c].at = "fetching"
    BY <1>0, <2>2 DEF RecordOK
  <2> QED BY <2>2, <2>3, <2>4, GotoOK
<1>6. CASE TokenFails(c)
  <2>1. fetch' = [fetch EXCEPT ![c] = None] /\ CacheInv' /\ fetch[c] # None
        /\ (Goto(c, "posted") \/ Throw(c))
    BY <1>6 DEF TokenFails, Fail, CacheInv
  <2>2. fetch'[c] = None /\ \A d \in Calls \ {c} : fetch'[d] = fetch[d]
    BY <1>0, <2>1
  <2>3. call[c].at = "fetching"
    BY <1>0, <2>1 DEF RecordOK
  <2> QED BY <2>1, <2>2, <2>3, GotoOK, ThrowOK
<1>7. CASE Answered(c)
  <2>1. PICK n \in 0..Len(call[c].uncached) : \E bad \in SUBSET (1..n) : Respond(c, n, bad)
    BY <1>7 DEF Answered
  <2>2. PICK bad \in SUBSET (1..n) : Respond(c, n, bad)
    BY <2>1
  <2>3. n \in Nat
    BY <1>0, OpsOfRecord
  <2> QED BY <2>2, <2>3, RespondInv
<1> QED
  BY <1>1, <1>2, <1>3, <1>4, <1>5, <1>6, <1>7 DEF Call

-----------------------------------------------------------------------------
\* The inductive invariant.
IInv == TokenInv /\ CallInv /\ CacheInv

LEMMA InitIInv == Init => IInv
<1> SUFFICES ASSUME Init PROVE IInv
  OBVIOUS
<1>1. TokenInv
  BY InitInv
<1>2. \A c \in Calls : c \in Executions \ Background
  BY DEF Calls
<1>3. \A c \in Calls : fetch[c] = None
  BY <1>2 DEF Init, TokenInit
<1>4. CallInv
  <2>1. call \in [Calls -> Records] /\ \A c \in Calls : call[c] = Idle
    BY IdleOK DEF Init
  <2> QED BY <1>3, <2>1, IdleOK DEF CallInv
<1>5. CacheInv
  <2>1. cache = <<>> /\ recent = <<>>
    BY DEF Init
  <2>2. cache \in Seq(Entries) /\ Len(cache) = 0 /\ <<>> \in Seq(Keys)
    BY <2>1, EmptySeq
  <2>3. DOMAIN cache = 1..0
    BY <2>2, LenProperties
  <2>4. Sound(cache)
    BY <2>2, <2>3, LruCacheAssumption DEF Sound
  <2>5. KeysOf(cache) \in Seq(Keys) /\ Len(KeysOf(cache)) = 0
    BY <2>2, KeysOfProperties
  <2>6. KeysOf(cache) = <<>>
    BY <2>5, EmptySeq
  <2> QED BY <2>1, <2>4, <2>6 DEF CacheInv
<1> QED BY <1>1, <1>4, <1>5 DEF IInv

\* Logins of the background and the passing of time are nothing to the calls.
LEMMA OtherSteps ==
  ASSUME CallInv, CacheInv, UNCHANGED <<cache, call, recent>>,
         \A c \in Calls : fetch'[c] = None <=> fetch[c] = None
  PROVE  CallInv' /\ CacheInv'
<1>1. CacheInv'
  BY DEF CacheInv
<1>2. call' \in [Calls -> Records] /\ \A c \in Calls : RecordOK(call'[c], fetch'[c])
  BY DEF CallInv, RecordOK
<1> QED BY <1>1, <1>2 DEF CallInv

LEMMA StepIInv == IInv /\ [Next]_vars => IInv'
<1> SUFFICES ASSUME IInv, [Next]_vars PROVE IInv'
  OBVIOUS
<1>0. /\ TokenInv /\ CallInv /\ CacheInv /\ TokenTypeOK
      /\ \A c \in Calls : c \in Executions /\ c \notin Background
      /\ fetch \in [Executions -> 0..AUTH_TIMEOUT \cup {None}]
  BY DEF IInv, TokenInv, TokenTypeOK, Calls
<1>1. TokenInv'
  BY <1>0, StepInv
<1>2. ASSUME NEW c \in Calls, Call(c) PROVE CallInv' /\ CacheInv'
  BY <1>0, <1>2, CallStep
<1>3. ASSUME NEW b \in Background, Renewal(b) PROVE CallInv' /\ CacheInv'
  <2>1. UNCHANGED <<cache, call, recent>>
    BY <1>3 DEF Renewal
  <2>2. \A c \in Calls : fetch'[c] = fetch[c]
    <3>1. CASE TimerFires(b)
      BY <1>0, <3>1 DEF TimerFires
    <3>2. CASE AnswerSome(b)
      BY <1>0, <3>2 DEF AnswerSome, Answer
    <3>3. CASE Fail(b)
      BY <1>0, <3>3 DEF Fail
    <3> QED BY <1>3, <3>1, <3>2, <3>3 DEF Renewal
  <2> QED BY <1>0, <2>1, <2>2, OtherSteps
<1>4. CASE TimePasses
  <2>1. UNCHANGED <<cache, call, recent>>
    BY <1>4 DEF TimePasses
  <2>2. \A c \in Calls : fetch'[c] = None <=> fetch[c] = None
    BY <1>0, <1>4, ServiceTokenAssumption DEF TimePasses, Tick
  <2> QED BY <1>0, <1>1, <2>1, <2>2, OtherSteps DEF IInv
<1>5. CASE UNCHANGED vars
  <2>1. UNCHANGED <<cache, call, recent>> /\ fetch' = fetch
    BY <1>5 DEF vars, tokenVars
  <2> QED BY <1>0, <1>1, <2>1, OtherSteps DEF IInv
<1> QED BY <1>1, <1>2, <1>3, <1>4, <1>5 DEF Next, IInv

THEOREM Invariant == Spec => []IInv
BY InitIInv, StepIInv, PTL DEF Spec

\* Calls, cache and token have their types, and a call waits for a login exactly when one
\* of its is under way.
THEOREM TypeCorrect == Spec => []TypeOK
<1>1. IInv => TypeOK
  BY DEF IInv, TokenInv, CallInv, CacheInv, Sound, RecordOK, Records, Entries, Keys, TypeOK
<1> QED
  BY Invariant, <1>1, PTL

\* For batches of any length and any number of overlapping calls, each result belongs to
\* its operation, from whichever call it got into the cache.
THEOREM AnswersStayInPlace == Spec => []AnswersBelong
<1>1. IInv => AnswersBelong
  <2> SUFFICES ASSUME IInv, NEW c \in Calls, At(c, "done"), NEW i \in DOMAIN call[c].ops
               PROVE  Belongs(call[c].ops[i], call[c].results[i])
    BY DEF AnswersBelong, Belongs
  <2>1. call[c] \in Records /\ RecordOK(call[c], fetch[c])
    BY DEF IInv, CallInv
  <2>2. i \in 1..Len(call[c].ops)
    BY <2>1, OpsOfRecord
  <2> QED BY <2>1, <2>2 DEF RecordOK, At
<1> QED
  BY Invariant, <1>1, PTL

\* Whatever its size, the H3 cache drops the key that was found or stored longest ago, and
\* no other.
THEOREM LeastRecentGoes == Spec => []KeepsTheRecent
<1>1. IInv => KeepsTheRecent
  BY DEF IInv, CacheInv, KeepsTheRecent
<1> QED
  BY Invariant, <1>1, PTL

\* The calls use the service token as ServiceToken says, and no step of theirs does more to
\* it: every behaviour of H3Encode is one of the abstract token.
THEOREM UsesTheToken == Spec => TokenInit /\ [][TokenNext]_tokenVars
<1>1. Init => TokenInit
  BY DEF Init
<1> QED
  BY <1>1, StepsOfToken, PTL DEF Spec
=============================================================================
