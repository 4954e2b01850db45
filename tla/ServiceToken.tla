------------------------------ MODULE ServiceToken ------------------------------
(***************************************************************************)
(* service-token.service.ts: the token that every request to another       *)
(* service carries.  It is cached, and renewed THRESHOLD before it expires *)
(* by the timer or by the first execution that finds it so close to its    *)
(* end.  Nothing keeps two executions from logging in at once, and the     *)
(* answer that comes last is the one that is kept.                         *)
(*                                                                         *)
(* Time is relative to now.  The service counts a token's life from the    *)
(* answer (left), the Auth service from the moment it issued it (valid).   *)
(***************************************************************************)
EXTENDS Naturals

CONSTANTS
  Executions,    \* bound: logins under way at the same time
  Background,    \* those of them that onModuleInit or the timer begins
  Lifetimes,     \* expires_in, as the Auth service may answer it, in ticks
  THRESHOLD,     \* RENEWAL_THRESHOLD_MS
  AUTH_TIMEOUT,  \* AUTH_TIMEOUT_MS
  REQUEST_TIME,  \* the longest a request lasts that carries the token
  None

ASSUME ServiceTokenAssumption ==
  /\ Background \subseteq Executions /\ Background # {}
  /\ Lifetimes \subseteq Nat
  /\ THRESHOLD \in Nat /\ AUTH_TIMEOUT \in Nat /\ REQUEST_TIME \in Nat
  /\ AUTH_TIMEOUT + REQUEST_TIME <= THRESHOLD
  /\ None \notin Nat

VARIABLES
  token,   \* cachedToken, whether there is one and the two views of its life
  timer,   \* tokenRenewalTimer, ticks until it fires, None when it has
  fetch,   \* per execution: how long its login has been under way, or None
  failed   \* history: a login has failed since the last answer

tokenVars == <<token, timer, fetch, failed>>

TokenTypeOK ==
  /\ token \in [held : BOOLEAN, left : Nat, valid : Nat]
  /\ timer \in Nat \cup {None}
  /\ fetch \in [Executions -> 0..AUTH_TIMEOUT \cup {None}]
  /\ failed \in BOOLEAN

\* onModuleInit has begun the first login.
TokenInit ==
  /\ token = [held |-> FALSE, left |-> 0, valid |-> 0]
  /\ timer = None
  /\ \E b \in Background : fetch = [e \in Executions |-> IF e = b THEN 0 ELSE None]
  /\ failed = FALSE

-----------------------------------------------------------------------------
Minus(n, k) == IF n >= k THEN n - k ELSE 0

InFlight == {e \in Executions : fetch[e] # None}

\* The service takes requests when onModuleInit has returned.
Booted == token.held \/ failed

\* Returned without asking, whatever is left of it.
FreshUntilExpiry == token.held /\ token.left > 0

\* The test of ensureValidToken.
Fresh == token.held /\ token.left > THRESHOLD

\* ensureValidToken, until the answer is there.
BeginFetch(e) ==
  /\ ~Fresh
  /\ fetch[e] = None
  /\ fetch' = [fetch EXCEPT ![e] = 0]
  /\ UNCHANGED <<token, timer, failed>>

\* Renewal wakes up before the token counts as old.
AnswerArmsEarly(e, life, latency) ==
  /\ fetch[e] # None /\ latency <= fetch[e]
  /\ token' = [held |-> TRUE, left |-> life, valid |-> Minus(life, latency)]
  /\ timer' = Minus(life, THRESHOLD + 1)
  /\ failed' = FALSE
  /\ fetch' = [fetch EXCEPT ![e] = None]

\* The renewal is scheduled for the end of the token.
AnswerArmsAtExpiry(e, life, latency) ==
  /\ fetch[e] # None /\ latency <= fetch[e]
  /\ token' = [held |-> TRUE, left |-> life, valid |-> Minus(life, latency)]
  /\ timer' = life
  /\ failed' = FALSE
  /\ fetch' = [fetch EXCEPT ![e] = None]

\* The answer of the Auth service was latency on its way.  It replaces token and
\* timer, also those of a login that began later.
Answer(e, life, latency) ==
  /\ fetch[e] # None /\ latency <= fetch[e]
  /\ token' = [held |-> TRUE, left |-> life, valid |-> Minus(life, latency)]
  /\ timer' = Minus(life, THRESHOLD)
  /\ failed' = FALSE
  /\ fetch' = [fetch EXCEPT ![e] = None]

\* An error, or the timeout.  What is cached stays, and so does the timer.
Fail(e) ==
  /\ fetch[e] # None
  /\ fetch' = [fetch EXCEPT ![e] = None]
  /\ failed' = TRUE
  /\ UNCHANGED <<token, timer>>

\* The renewal is an execution of its own, and is not scheduled again by itself.
TimerFires(e) ==
  /\ e \in Background
  /\ timer = 0
  /\ timer' = None
  /\ fetch[e] = None
  /\ fetch' = IF Fresh THEN fetch ELSE [fetch EXCEPT ![e] = 0]
  /\ UNCHANGED <<token, failed>>

\* No time passes while a login is over its timeout or the timer is due.
Tick ==
  /\ timer # 0
  /\ \A e \in InFlight : fetch[e] < AUTH_TIMEOUT
  /\ token' = [token EXCEPT !.left = Minus(@, 1), !.valid = Minus(@, 1)]
  /\ timer' = IF timer = None THEN None ELSE timer - 1
  /\ fetch' = [e \in Executions |-> IF fetch[e] = None THEN None ELSE fetch[e] + 1]
  /\ UNCHANGED failed

AnswerSome(e) == \E life \in Lifetimes, latency \in 0..AUTH_TIMEOUT : Answer(e, life, latency)

TokenNext ==
  \/ \E e \in Executions : BeginFetch(e) \/ AnswerSome(e) \/ Fail(e) \/ TimerFires(e)
  \/ Tick

-----------------------------------------------------------------------------
\* A token that is given out without asking outlives the request it is given out
\* for, although the service overestimates its life by what the answer took, and
\* although the answer of an older login may have replaced a newer one's.
TrustedTokensAreValid == Fresh => token.valid > REQUEST_TIME

\* Renewal is scheduled or under way, unless a login has failed since the last
\* answer: then nothing schedules it again, and the next request has to begin it.
RenewalGoesOn == token.held /\ timer = None /\ InFlight = {} => failed
=============================================================================
