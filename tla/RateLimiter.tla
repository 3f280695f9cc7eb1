------------------------------ MODULE RateLimiter ------------------------------
(***************************************************************************)
(* internal/ratelimit and the middleware in front of it: the requests of   *)
(* one client, and the client's key in Redis.  Clients have separate keys  *)
(* and Redis runs a script without interruption, so one client is enough.  *)
(*                                                                         *)
(* The call travels: Redis may run the script and its reply be lost, and   *)
(* go-redis then sends the script again; a script may run after its caller *)
(* has given up.  Time passes in ticks, Second of them to a second: Redis  *)
(* keeps the expiry in milliseconds and reports it in seconds.             *)
(***************************************************************************)
EXTENDS Integers, Functions

CONSTANTS
    Requests,     \* the handlers that can serve the client at the same time
    Limit,        \* RATE_LIMIT_REQUESTS
    Window,       \* RATE_LIMIT_WINDOW_SECONDS, as ticks
    Second,       \* ticks in a second
    Retries,      \* MaxRetries of the Redis client (3 unless set)
    MaxCount,     \* bound: counts from here on, all past the limit, are not told apart
    MaxStrays,    \* bound: scripts on their way to Redis that nobody waits for
    MaxRestarts   \* bound: times Redis loses its data

ASSUME LimiterAssumption ==
    /\ Limit \in Int
    /\ Window \in Int
    /\ Second \in Nat \ {0}
    /\ Retries \in Nat
    /\ MaxCount \in Nat /\ MaxCount > Limit /\ MaxCount > 1
    /\ MaxStrays \in Nat
    /\ MaxRestarts \in Nat

\* Allow's windowSeconds, the argument of EXPIRE; a Duration truncates to zero.
WindowSeconds == IF Window < Second THEN 1 ELSE Window \div Second

\* The expiry EXPIRE sets, in ticks.
Expiry == WindowSeconds * Second

\* Redis's TTL of a key with t ticks to live: seconds, rounded half up.
TTL(t) == (t + Second \div 2) \div Second

\* The units one window can grant.
Quota == IF Limit < 0 THEN 0 ELSE Limit

VARIABLES
    count,     \* the value of the client's key; 0 when there is no key
    ttl,       \* ticks until the key expires; 0 when there is none
    call,      \* request -> its handler's progress through the limiter
    strays,    \* scripts sent by callers that have given up on them
    \* history
    granted,   \* script runs of this key that answered "allowed"
    grants,    \* age in ticks -> script runs of that age that did
    restarts   \* times Redis lost its data

vars == <<count, ttl, call, strays, granted, grants, restarts>>
redis == <<count, ttl, granted, grants, restarts>>

Ages == 0..Expiry-1
Phases == {"idle", "calling", "replied", "through", "refused"}

\* A handler that is not waiting for Redis: tries and reply mean nothing.
Resting(phase) ==
    [at |-> phase, tries |-> 0, count |-> 0, ttl |-> 0, left |-> 0]

Init ==
    /\ count = 0 /\ ttl = 0
    /\ call = [r \in Requests |-> Resting("idle")]
    /\ strays = 0
    /\ granted = 0 /\ grants = [a \in Ages |-> 0]
    /\ restarts = 0

-----------------------------------------------------------------------------
(* The script. *)

\* Mutants: EXPIRE on every run; a limit off by one.
ExpireAlways(n, t) == Expiry
AllowedPast(n) == n <= Limit + 1

\* INCR, up to the bound.
Incr(n) == IF n < MaxCount THEN n + 1 ELSE n

\* The key's time to live once INCR has made it n: EXPIRE on the first only.
Expire(n, t) == IF n = 1 THEN Expiry ELSE t

\* Result.Allowed, decided by the count the script returned.
Allowed(n) == n <= Limit

\* Redis runs the script: INCR, EXPIRE if the key is new, TTL.
RunScript ==
    /\ count' = Incr(count)
    /\ ttl' = Expire(count', ttl)
    /\ granted' = IF Allowed(count') THEN granted + 1 ELSE granted
    /\ grants' = IF Allowed(count') THEN [grants EXCEPT ![0] = @ + 1] ELSE grants
    /\ UNCHANGED restarts

-----------------------------------------------------------------------------
(* The handler. *)

\* A request of the client reaches the middleware, which calls Allow.
Call(r) ==
    /\ call[r].at \notin {"calling", "replied"}
    /\ call' = [call EXCEPT ![r] = Resting("calling")]
    /\ UNCHANGED <<redis, strays>>

\* Redis runs the script of the request's current attempt; the reply is on its
\* way back.  left is what was really left of the window.
Execute(r) ==
    /\ call[r].at = "calling"
    /\ RunScript
    /\ call' = [call EXCEPT ![r] =
           [at |-> "replied", tries |-> call[r].tries,
            count |-> count', ttl |-> TTL(ttl'), left |-> ttl']]
    /\ UNCHANGED strays

\* A script whose caller has given up on it runs all the same.
ExecuteStray ==
    /\ strays > 0
    /\ strays' = strays - 1
    /\ RunScript
    /\ UNCHANGED call

\* Mutant: the attempts are not counted.
AttemptUncounted(n) == n

\* The attempts failed after one more.
CountAttempt(n) == n + 1

\* go-redis tries a command again after a network error or a timeout.
MayRetry(c) == c.tries < Retries

\* The attempt fails: no connection, a timeout, a reply lost on its way, or one
\* that is no pair of integers.  A script already sent may be run later.  go-redis
\* may try again; when it may not, or the error is one it does not retry, or the
\* request's context is done, Allow returns the error and the middleware fails open.
Fail(r) ==
    /\ call[r].at \in {"calling", "replied"}
    /\ \/ /\ MayRetry(call[r])
          /\ call' = [call EXCEPT ![r] =
                        [Resting("calling") EXCEPT !.tries = CountAttempt(call[r].tries)]]
       \/ call' = [call EXCEPT ![r] = Resting("through")]
    /\ \/ UNCHANGED strays
       \/ call[r].at = "calling" /\ strays < MaxStrays /\ strays' = strays + 1
    /\ UNCHANGED redis

\* The reply arrives and the request goes on to the next handler.
Pass(r) ==
    /\ call[r].at = "replied"
    /\ Allowed(call[r].count)
    /\ call' = [call EXCEPT ![r] = Resting("through")]
    /\ UNCHANGED <<redis, strays>>

\* The reply arrives and the request is answered 429.
Refuse(r) ==
    /\ call[r].at = "replied"
    /\ ~Allowed(call[r].count)
    /\ call' = [call EXCEPT ![r] = Resting("refused")]
    /\ UNCHANGED <<redis, strays>>

\* Mutant: the window's configured length is reported instead of what is left.
WaitWholeWindow(t) == WindowSeconds

\* The Retry-After header: RetryAfter in whole seconds, and at least one.
\* Allow replaces a negative TTL by the window.
RetryAfter(t) ==
    LET wait == IF t < 0 THEN Window ELSE t * Second
    IN  IF wait < Second THEN 1 ELSE wait \div Second

-----------------------------------------------------------------------------
(* Redis and the clock. *)

\* The container restarts without its data.
Restart ==
    /\ restarts < MaxRestarts
    /\ restarts' = restarts + 1
    /\ count' = 0 /\ ttl' = 0 /\ granted' = 0
    /\ UNCHANGED <<grants, call, strays>>

\* A tick passes; a key whose time is over is gone.
Tick ==
    /\ ttl' = IF ttl > 0 THEN ttl - 1 ELSE 0
    /\ count' = IF ttl = 1 THEN 0 ELSE count
    /\ granted' = IF ttl = 1 THEN 0 ELSE granted
    /\ grants' = [a \in Ages |-> IF a = 0 THEN 0 ELSE grants[a - 1]]
    /\ UNCHANGED <<call, strays, restarts>>

Handle(r) == Execute(r) \/ Fail(r) \/ Pass(r) \/ Refuse(r)

Next ==
    \/ \E r \in Requests : Call(r) \/ Handle(r)
    \/ ExecuteStray
    \/ Restart
    \/ Tick

Spec == Init /\ [][Next]_vars

\* Time goes on, and each handler is scheduled: whatever Redis does, go-redis
\* bounds every attempt by its dial, read and write timeouts.
Fairness ==
    /\ WF_vars(Tick)
    /\ \A r \in Requests : WF_vars(Handle(r))

FairSpec == Spec /\ Fairness

-----------------------------------------------------------------------------
\* The fields have their types.
TypeOK ==
    /\ count \in 0..MaxCount /\ granted \in Nat /\ strays \in Nat /\ restarts \in Nat
    /\ ttl \in 0..Expiry
    /\ call \in [Requests -> [at : Phases, tries : 0..Retries,
                              count : 0..MaxCount, ttl : Nat, left : 0..Expiry]]
    /\ grants \in [Ages -> Nat]

\* ratelimit.go:15-18, 62-64: a key that exists has an expiry, and its window
\* has granted as many requests as it has counted, up to the limit and never
\* beyond: nobody is refused before the limit is reached, or let past it.
WindowAccounted ==
    /\ (count = 0) <=> (ttl = 0)
    /\ granted = IF count < Quota THEN count ELSE Quota

\* Script runs that answered "allowed" less than a window ago.
Recent == FoldFunction(+, 0, grants)

\* The grant that opens a window, if it grants any: it is as old as the window when
\* the next one opens.
Opener == IF Quota = 0 THEN 0 ELSE 1

\* ratelimit.go:15-18, 62-64: with a fixed window, the script allows a client less
\* than twice the limit in any period of a window's length, most of it at one
\* window's end and the next one's beginning, and as much again for each time Redis
\* lost the count.  Requests passed on because Redis failed are not in it.
SlidingBound == Recent + Opener <= Quota * (2 + restarts)

\* middleware/ratelimit.go:34-38: a refused client is told to wait at least a
\* second, at most a second longer than the window lasts, and at most half a
\* second less.
RetryAfterClose ==
    \A r \in Requests :
        call[r].at = "replied" /\ ~Allowed(call[r].count) =>
            LET wait == RetryAfter(call[r].ttl) * Second
            IN  /\ wait < call[r].left + Second
                /\ wait + Second \div 2 >= call[r].left

\* ratelimit.go:15-18: every window ends, however many requests keep arriving.
WindowEnds == count > 0 ~> count = 0

\* middleware/ratelimit.go:23-29: every request is passed on or refused, also
\* when Redis never answers.
EveryCallEnds ==
    \A r \in Requests :
        call[r].at \in {"calling", "replied"}
            ~> call[r].at \in {"through", "refused"}

==============================================================================
