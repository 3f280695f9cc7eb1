-------------------------------- MODULE Gateway --------------------------------
(***************************************************************************)
(* The gateway's process: cmd/gateway/main.go from its first Redis ping to *)
(* its exit, and the pipeline of middleware that router.New puts around    *)
(* every handler.  The requests are goroutines of their own; what happens  *)
(* in one between two steps of another is told apart where it shows: in    *)
(* the gauge of active requests, in the request counter, in the log of     *)
(* recent requests, and in what is still running when the process ends.    *)
(* Left out: upgraded connections, which Shutdown does not wait for.       *)
(***************************************************************************)
EXTENDS RecentRequests, FiniteSets

CONSTANTS
    Conns,        \* client connections; each carries requests one after the other
    MaxRequests,  \* bound: requests begun
    Pings,        \* attempts of pingRedisWithRetry
    Drain         \* the timeout of Shutdown, in ticks

ASSUME GatewayAssumption ==
    /\ IsFiniteSet(Conns)
    /\ MaxRequests \in Nat
    /\ Requests = [no : 1..MaxRequests, upstream : BOOLEAN]
    /\ Pings \in Nat \ {0}
    /\ Drain \in Nat

\* What a request's path is: of a registered service, of none but below /api/,
\* or one of the gateway's own endpoints.
Kinds == {"proxied", "unknown", "local"}
Api == {"proxied", "unknown"}

\* Where main is, or how the process ended.
Running == {"connecting", "starting", "built", "waiting", "draining", "deferring", "closing"}
Exits == {"clean", "drain_failed", "server_error", "killed"}

\* Where a connection's goroutine is: without a request, accepted, at the rate
\* limiter, in the handler, back from it, past the recent-request log, past the
\* counter, and leaving by a panic.
Stages == {"idle", "accepted", "limit", "handler", "answered", "recorded", "counted", "unwinding"}

VARIABLES
    phase,      \* of main
    tries,      \* pings made
    listener,   \* of srv: "none", "ready" (its goroutine is started), "open", "closed"
    probing,    \* the health checkers run
    redis,      \* the Redis client is open
    quit,       \* the signal in the channel's one place
    timeLeft,   \* of Shutdown's context
    req,        \* connection -> where its request is, its number, kind and upstream
    active,     \* gateway_active_requests
    total,      \* kind -> gateway_http_requests_total

    \* History variables, read by no guard but that of MaxRequests.
    signalled,  \* a signal has come
    begun,      \* requests that have entered the pipeline
    panicked,   \* requests that have left it by a panic
    recorded    \* requests added to the log

mainVars == <<phase, tries, listener, probing, redis, quit, timeLeft, signalled>>
history == <<begun, panicked, recorded>>
vars == <<mainVars, req, active, total, history, ringVars>>

NoRequestYet == [at |-> "idle", no |-> 0, kind |-> "local", upstream |-> FALSE]

Init ==
    /\ RingInit
    /\ phase = "connecting" /\ tries = 0
    /\ listener = "none" /\ probing = FALSE /\ redis = TRUE
    /\ quit = FALSE /\ timeLeft = Drain /\ signalled = FALSE
    /\ req = [c \in Conns |-> NoRequestYet]
    /\ active = 0 /\ total = [k \in Kinds |-> 0]
    /\ begun = 0 /\ panicked = 0 /\ recorded = 0

Alive == phase \in Running

-----------------------------------------------------------------------------
(* main *)

\* Mutants: a Redis that does not answer is fatal; Shutdown has no deadline; what
\* its error says is only logged.
AfterLastPingFatal == "server_error"
NeverSooner(t) == t
AfterDeadlineGoesOn == "deferring"

\* main goes on without Redis.
AfterLastPing == "starting"

\* A ping succeeds, or fails and is repeated, unless it was the last.
Ping ==
    /\ phase = "connecting"
    /\ tries' = tries + 1
    /\ \/ phase' = "starting"
       \/ phase' = IF tries' < Pings THEN "connecting" ELSE AfterLastPing
    /\ UNCHANGED <<listener, probing, redis, quit, timeLeft, signalled>>

\* router.New starts the health checkers, and main the server's goroutine.
Build ==
    /\ phase = "starting" /\ phase' = "built"
    /\ probing' = TRUE /\ listener' = "ready"
    /\ UNCHANGED <<tries, redis, quit, timeLeft, signalled>>

\* Only now signals no longer kill the process.
Notify ==
    /\ phase = "built" /\ phase' = "waiting"
    /\ UNCHANGED <<tries, listener, probing, redis, quit, timeLeft, signalled>>

\* Shutdown closes the listener and waits.
Shutdown ==
    /\ phase = "waiting" /\ quit
    /\ quit' = FALSE /\ phase' = "draining"
    /\ listener' = IF listener = "open" THEN "closed" ELSE listener
    /\ UNCHANGED <<tries, probing, redis, timeLeft, signalled>>

Drained ==
    /\ phase = "draining"
    /\ \A c \in Conns : req[c].at = "idle"
    /\ phase' = "deferring"
    /\ UNCHANGED <<tries, listener, probing, redis, quit, timeLeft, signalled>>

AfterDeadline == "drain_failed"

\* The deadline passes: os.Exit skips what main has deferred.
Expire ==
    /\ phase = "draining" /\ timeLeft = 0
    /\ phase' = AfterDeadline
    /\ UNCHANGED <<tries, listener, probing, redis, quit, timeLeft, signalled>>

\* The deferred calls, last one first.
CancelHealth ==
    /\ phase = "deferring" /\ phase' = "closing"
    /\ probing' = FALSE
    /\ UNCHANGED <<tries, listener, redis, quit, timeLeft, signalled>>

CloseRedis ==
    /\ phase = "closing" /\ phase' = "clean"
    /\ redis' = FALSE
    /\ UNCHANGED <<tries, listener, probing, quit, timeLeft, signalled>>

Sooner(t) == t - 1

Tick ==
    /\ phase = "draining" /\ timeLeft > 0
    /\ timeLeft' = Sooner(timeLeft)
    /\ UNCHANGED <<phase, tries, listener, probing, redis, quit, signalled>>

Main ==
    \/ Ping \/ Build \/ Notify \/ Shutdown \/ Drained \/ Expire
    \/ CancelHealth \/ CloseRedis

\* The server's goroutine: it listens, unless Shutdown was faster.
Listen ==
    /\ Alive /\ listener = "ready"
    /\ listener' = IF phase \in {"built", "waiting"} THEN "open" ELSE "closed"
    /\ UNCHANGED <<phase, tries, probing, redis, quit, timeLeft, signalled>>

\* Listening or accepting fails: the process exits at once.
ServerError ==
    /\ Alive
    /\ \/ listener = "ready" /\ phase \in {"built", "waiting"}
       \/ listener = "open"
    /\ phase' = "server_error"
    /\ UNCHANGED <<tries, listener, probing, redis, quit, timeLeft, signalled>>

\* SIGINT or SIGTERM.  The channel holds one; others are dropped.
Signal ==
    /\ Alive
    /\ signalled' = TRUE
    /\ IF phase \in {"connecting", "starting", "built"}
       THEN phase' = "killed" /\ UNCHANGED quit
       ELSE quit' = TRUE /\ UNCHANGED phase
    /\ UNCHANGED <<tries, listener, probing, redis, timeLeft>>

-----------------------------------------------------------------------------
(* A request on connection c *)

Move(c, from, to) ==
    /\ Alive /\ req[c].at = from
    /\ req' = [req EXCEPT ![c].at = to]

\* A connection that is kept alive is accepted anew for each request.
Accept(c) ==
    /\ listener = "open"
    /\ Move(c, "idle", "accepted")
    /\ UNCHANGED <<active, total, history, ringVars>>

\* The client gives up before it has sent a request, or Shutdown closes it.
Drop(c) ==
    /\ Move(c, "accepted", "idle")
    /\ UNCHANGED <<active, total, history, ringVars>>

\* Recovery, RequestLogger and Metrics are entered.
Enter(c) ==
    /\ Alive /\ req[c].at = "accepted"
    /\ begun < MaxRequests /\ begun' = begun + 1
    /\ \E kind \in Kinds :
          req' = [req EXCEPT ![c] =
                    [at |-> "limit", no |-> begun + 1, kind |-> kind, upstream |-> FALSE]]
    /\ active' = active + 1
    /\ UNCHANGED <<total, panicked, recorded, ringVars>>

\* RateLimit: passed on, also when Redis fails, ...
Pass(c) ==
    /\ Move(c, "limit", "handler")
    /\ UNCHANGED <<active, total, history, ringVars>>

\* Mutant: the limiter stands before Metrics.
RefuseUncounted(c) ==
    /\ Move(c, "limit", "counted")
    /\ UNCHANGED <<active, total, history, ringVars>>

\* ... or refused with a 429, whatever the path.
Refuse(c) ==
    /\ Move(c, "limit", "answered")
    /\ UNCHANGED <<active, total, history, ringVars>>

\* The handler: the proxy with an upstream, or a 503, 502 or 404 of the gateway
\* or one of its own endpoints, among them the recent-request log.
Answer(c) ==
    /\ Alive /\ req[c].at = "handler"
    /\ \E up \in BOOLEAN :
          /\ up => req[c].kind = "proxied"
          /\ req' = [req EXCEPT ![c] =
                       [at |-> "answered", no |-> @.no, kind |-> @.kind, upstream |-> up]]
    /\ IF req[c].kind = "local"
       THEN \/ UNCHANGED ringVars
            \/ \E limit \in Limits : Snapshot(limit)
       ELSE UNCHANGED ringVars
    /\ UNCHANGED <<active, total, history>>

\* Copying an upstream's body fails: ServeHTTP panics.
Panic(c) ==
    /\ req[c].kind = "proxied"
    /\ Move(c, "handler", "unwinding")
    /\ UNCHANGED <<active, total, history, ringVars>>

\* Mutants: every path is recorded; the gauge is decremented where the counter
\* is incremented, and so not after a panic.
RecordedAll(r) == TRUE
LeavesAfterCount(stage) == stage = "counted"

\* RecentRequests records what is below /api/, with or without an upstream.
IsRecorded(r) == r.kind \in Api

Record(c) ==
    /\ Move(c, "answered", "recorded")
    /\ IF IsRecorded(req[c])
       THEN /\ Add([no |-> req[c].no, upstream |-> req[c].upstream])
            /\ recorded' = recorded + 1
       ELSE UNCHANGED <<ringVars, recorded>>
    /\ UNCHANGED <<active, total, begun, panicked>>

\* Metrics, after c.Next.
Count(c) ==
    /\ Move(c, "recorded", "counted")
    /\ total' = [total EXCEPT ![req[c].kind] = @ + 1]
    /\ UNCHANGED <<active, history, ringVars>>

\* The stages at which the deferred Dec runs.
Decrements(stage) == stage \in {"counted", "unwinding"}

\* Its deferred Dec; the log line, or Recovery's.
Leave(c) ==
    /\ Alive /\ req[c].at \in {"counted", "unwinding"}
    /\ req' = [req EXCEPT ![c] = NoRequestYet]
    /\ active' = IF Decrements(req[c].at) THEN active - 1 ELSE active
    /\ panicked' = IF req[c].at = "unwinding" THEN panicked + 1 ELSE panicked
    /\ UNCHANGED <<total, begun, recorded, ringVars>>

Handle(c) ==
    \/ Accept(c) \/ Drop(c) \/ Enter(c) \/ Pass(c) \/ Refuse(c) \/ Answer(c)
    \/ Panic(c) \/ Record(c) \/ Count(c) \/ Leave(c)

-----------------------------------------------------------------------------
Next ==
    \/ /\ Main \/ Tick \/ Listen \/ ServerError \/ Signal
       /\ UNCHANGED <<req, active, total, history, ringVars>>
    \/ /\ \E c \in Conns : Handle(c)
       /\ UNCHANGED mainVars

Spec == Init /\ [][Next]_vars

\* main and the server's goroutine run and the clock goes on; requests may hang
\* for ever.
FairSpec ==
    /\ Spec
    /\ WF_vars(Main /\ UNCHANGED <<req, active, total, history, ringVars>>)
    /\ WF_vars(Listen /\ UNCHANGED <<req, active, total, history, ringVars>>)
    /\ WF_vars(Tick /\ UNCHANGED <<req, active, total, history, ringVars>>)

-----------------------------------------------------------------------------
Inside == {c \in Conns : req[c].at \notin {"idle", "accepted"}}
Uncounted == {c \in Conns : req[c].at \notin {"idle", "accepted", "counted"}}
Between == {c \in Conns : req[c].at = "recorded" /\ req[c].kind \in Api}

\* The fields have their types.
TypeOK ==
    /\ RingTypeOK
    /\ phase \in Running \cup Exits /\ tries \in 0..Pings
    /\ listener \in {"none", "ready", "open", "closed"}
    /\ probing \in BOOLEAN /\ redis \in BOOLEAN /\ quit \in BOOLEAN /\ signalled \in BOOLEAN
    /\ timeLeft \in 0..Drain
    /\ req \in [Conns -> [at : Stages, no : 0..MaxRequests, kind : Kinds, upstream : BOOLEAN]]
    /\ active \in Nat /\ total \in [Kinds -> Nat]
    /\ begun \in 0..MaxRequests /\ panicked \in Nat /\ recorded \in Nat

\* middleware/metrics.go:19-20: the gauge is the number of requests in the
\* pipeline, whichever way those before them left it; it does not drift.
GaugeIsInside == active = Cardinality(Inside)

\* middleware/metrics.go:18-34: the counter lacks of the requests begun those still
\* inside and those that left by a panic, and no others.  That is less than the
\* comment at :12-13 says, which has every request counted: only Dec is deferred.
OnlyPanicsUncounted ==
    total["proxied"] + total["unknown"] + total["local"] + panicked + Cardinality(Uncounted) = begun

\* middleware/telemetry.go:24-45 inside metrics.go:23-33: the log of recent
\* requests is ahead of the counter by the requests between the two and never
\* behind it, and both leave out those that panicked.
RecordedThenCounted ==
    recorded = total["proxied"] + total["unknown"] + Cardinality(Between)

\* main.go:28,37,65-73: the health checkers and the Redis client outlast every
\* request: they are stopped on no path on which a request is still inside.
DrainedBeforeClose ==
    (phase \in {"deferring", "closing", "clean"} \/ ~redis)
        => listener # "open" /\ Inside = {}

\* main.go:58-73: a signal ends the process, however long its requests hang.
SignalEndsProcess == signalled ~> ~Alive

\* main.go:30-32,50-56,76-96: without a signal the gateway comes to accept
\* connections, whether Redis answers a ping or none; only listening itself may fail.
Starts ==
    []~signalled => <>(listener = "open" \/ (listener = "ready" /\ phase = "server_error"))

==============================================================================
