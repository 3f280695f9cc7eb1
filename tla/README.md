# The API gateway in TLA+

This directory specifies the API gateway of this repository (`cmd/gateway`, `internal/*`, and the
dashboard that watches it) as TLA+ modules, model-checks them with TLC on small instances, and proves
theorems about them with TLAPS for every value of their constants.

## 1. The system

One Go process serves HTTP with gin. `/api/users`, `/api/orders` and `/api/products` are proxied to
the instances of three back-end services; `/health`, `/metrics` and `/gateway/*` are answered by the
gateway itself. A React dashboard polls Prometheus and the `/gateway/*` endpoints.

| Component | State it keeps | Operations | What makes it correct |
|---|---|---|---|
| `internal/circuitbreaker` | per instance: state, consecutive failures, time opened, probe in flight (one mutex) | `Allow`, `RecordSuccess`, `RecordFailure`, `State` | opens on exactly the threshold-th consecutive failure; admits nobody while it rests and one request per half-open period; a half-open period ends |
| `internal/registry` | per service: instances with a health flag (own RW mutex) and a breaker (own mutex), round-robin cursor (registry mutex) | `Next`, `SetHealthy`, `Healthy`, `IsAvailable` | an available instance gets its turn; `nil` only after every instance was tried; no deadlock between the three locks |
| `internal/proxy` | one handler per request: chosen instance, failure flag | select, forward, report, publish gauge | every admission reports to the breaker that admitted it at most once, and does not lose the probe slot |
| `internal/healthcheck` | one goroutine and ticker per instance | probe, store result, stop on cancel | a dead instance leaves rotation, a live one comes back; probes end on shutdown |
| `internal/ratelimit` | a counter with an expiry per client, in Redis | a Lua script run atomically: INCR, EXPIRE on the first, TTL | at most `limit` requests per window; every counter expires; headers tell the truth |
| `internal/middleware` | in-flight gauge, counters | recovery, log, metrics, recent requests, rate limit, in this order around each handler | gauges return to zero; a request is counted, recorded and limited once; fails open without Redis |
| `internal/telemetry` | ring buffer of the last 200 requests (one mutex) | `Add`, `Snapshot` | a snapshot is the newest requests, newest first |
| `internal/metrics` | process-wide Prometheus collectors | set, increment | gauges and counters say what their help says |
| `internal/router` | routes; topology and recent-request endpoints | build, read | what it reports was so while it was read |
| `internal/config` | - | read the environment | a malformed value falls back to its default |
| `cmd/gateway` | the process: server, health checker, Redis client | start, serve, drain, stop | it starts without Redis; in-flight requests are drained before what they use is closed; a signal ends it |
| `internal/mockservice`, `cmd/*-service` | none | canned answers | test back ends, outside the gateway |
| `scripts/loadtest` | counters | a worker pool that sends requests | each request is counted once |
| `frontend/src/hooks`, `context` | the last loaded data, range and interval, a pending load | poll, abort, show | the screen never goes back, settles on the selected range, ends loading |
| `frontend/src/pages` | the request log's rows and polls; the playground's form and answer | poll, filter; fill, send, answer | no stale answer, no page that loads for ever |
| `frontend/src/components`, `lib` | the index under the pointer | render | the pages agree, invent nothing, and stay on the screen |

How they interact. A request passes the middleware from the outside in; the rate limiter talks to
Redis; the proxy asks the registry for an instance, the registry asks each candidate's health flag and
breaker, the proxy forwards, and reports back to the breaker. Meanwhile one goroutine per instance
probes health and writes the flag, `/gateway/topology` reads flags and breakers (and, through
`State()`, moves them), and Prometheus scrapes the collectors. What they share is memory behind
separate, short-lived locks: no lock is held over a request, so between any two steps of one request
others run whole requests. The browser is single-threaded, but its fetches end in any order.

What is hard: late reports that meet a breaker in another state than the one that admitted them;
a handler left by a panic between admission and report; read-then-write pairs under two locks
(health then breaker, state then gauge); the clock, which moves breakers and rate windows between
steps; a Redis call that is retried, lost or answered late; shutdown while requests are in flight;
dashboard loads that overlap; and thirty answers of two servers shown as one picture.

## 2. Modules

| Module | Models | Built on |
|---|---|---|
| `Breaker` | the operations of one circuit breaker as operators on its record (`internal/circuitbreaker`) | - |
| `CircuitBreaker` | one breaker, overlapping callers, broken responses, polls, the clock | `Breaker` |
| `BreakerContract` | what a breaker promises the proxy: nobody passes a resting breaker, one caller per trial passes a half-open one, only reports of callers in flight move it | - |
| `LoadBalancer` | the handlers of one service over `Registry.Next`, health flags, one `Breaker` per instance, the gauge | `Breaker` |
| `RateLimiter` | the handlers of one client over the Lua script, Redis, its expiry, retries and restarts | - |
| `RecentLog` | a bounded list of requests, newest first | - |
| `RecentRequests` | the ring buffer of `internal/telemetry` | - |
| `Gateway` | the process of `cmd/gateway` from start to exit, and the middleware pipeline of every connection | `RecentRequests` |
| `Dashboard` | the polling loop of `useDashboardData` under `DashboardContext` | - |
| `Views` | what header, sidebar, cards, tables and pages say for given data, and what `lib/prometheus.ts` makes of an answer | - |
| `Console` | one load reading a changing world (topology endpoint, headers, Prometheus) piece by piece, and what the pages then show | `Views` |
| `Charts` | the traffic page's charts, their samples and the pointer over them | - |
| `RecentTraffic` | the request log page with its own polling loop | - |
| `Playground` | the playground's form, link, requests and answers | - |
| `Pages` | the router over the three pages with state | `Charts`, `RecentTraffic`, `Playground` |
| `Format` | status filters and classes, uptimes and totals as printed | - |
| `MC*` | small constants, and symmetry, for TLC | the module they are named after |
| `Breaker_proofs` | lemmas on the operators of `Breaker` | `Breaker` |
| `*_proofs` | theorems and their proofs; those of `Gateway` include `RecentRequests`, those of `Pages` include `RecentTraffic`, `Playground`, `Charts` and `Format` | the module they are named after |

Refinement: `CircuitBreaker` implements `BreakerContract`, each instance's breaker inside `LoadBalancer`
implements it too, with the handlers as callers, and `RecentRequests` implements `RecentLog`, alone and
inside `Gateway`, where requests that end in any order fill it and the log endpoint reads it. All are
checked and proved.

### How state and actions correspond to the code

**Breaker, CircuitBreaker.** The record has the fields of `Breaker`; `openedAt` becomes `elapsed`, the
ticks since, cut off at the recovery timeout because the code only compares it with the timeout
(`circuitbreaker.go:104`). `consecutiveFails` is cut off at `MaxFails`, which `BreakerAssumption` puts
above the threshold: beyond it the code tells no two counts apart. `Allow` and `State` start with
`maybeTransitionToHalfOpen`, and so do their operators; the two reports do not. One action is one
method call, because each holds `b.mu` throughout. `Abandon` is the handler that leaves by a panic
between `Allow` and its report (`proxy.go:127`; `httputil.ReverseProxy` panics with
`http.ErrAbortHandler` when the upstream's body breaks off inside a server, and `gin.Recovery` catches
it above the handler). `LastStateChange` is written with every state change and read by nothing but
the topology endpoint; it is left out. `Failures()` reads the count, which the record has anyway; its
place in the topology endpoint is in `Console`.

**LoadBalancer.** A handler's program counter follows `NewLoadBalancedProxy`: `Lock`, one
`ReadHealthy` and perhaps one `TryAllow` per iteration of the scan, `Respond` or `Abort` or
`BadAddress`, `Record`, `Observe`, `Publish`. The steps are as fine as the locks: `Next` holds `r.mu`
over its scan, but the health flag and the breaker have locks of their own. `SetHealthy` is the end of
a health probe, with any result at any moment; `PollState` is `Breaker.State()` called by the topology
endpoint. The cursor is kept modulo the number of instances: the code's `uint64` modulo that number
differs only when it wraps after 2^64 selections. A registry has at least one instance (`config.go:83-85`),
so `N >= 1`. Per-instance request and failure counters are incremented in the step of the report,
`CircuitBreakerRejectionsTotal` in the step of `Reject` (`proxy.go:73`); they are never read by the
gateway and left out.

**RateLimiter.** Redis executes scripts one at a time, so `INCR`, `EXPIRE` and `TTL` are one step,
`RunScript`; a call has two steps, the script and the reply, and between them anything may happen. `Fail`
is any error of an attempt: on a network error or a timeout go-redis may repeat the command (its default
is three times; `cmd/gateway/main.go:25-27` sets nothing else); on an error it does not repeat, a reply
that is no pair of integers (`ratelimit.go:77-89`), or a context that is done, `Allow` returns the error
at once. With the last attempt, or such an error, the middleware fails open. A script that was sent
before the timeout may still be run (`ExecuteStray`). Time is kept in ticks, several to a second, because
Redis keeps milliseconds and reports seconds rounded half up. Counts past the limit are not told apart
(`MaxCount`): the code compares the count with the limit only.

**RecentRequests.** `Add` and `Snapshot` hold the mutex throughout: one step each. The loop of
`Snapshot`, which sets its index to the last slot when it falls below zero, is the function
`SlotBack` of the round.

**Gateway.** `phase` is where `main` is, one action per call that can block or change what others see:
`Ping`, `Build`, `Notify`, `Shutdown`, `Drained` or `Expire`, then the deferred calls last one first.
`os.Exit` skips the deferred calls, which is why `drain_failed` and `server_error` are ends of their
own. The server's goroutine (`Listen`) may be slower than a signal. Each connection carries requests
one after the other; the stages of one (`at`) are the places between which another request's step can
be seen: entered (gauge up), past or refused by the limiter, answered, recorded, counted, left (gauge
down). A panic of the proxy goes from the handler straight to `unwinding`: only what is deferred
runs. `begun`, `panicked` and `recorded` are histories.

**Dashboard.** A page runs one task at a time, so each action is a task: an effect, a timer, a
click, the end of a load. A load is one record: its range, the ticks until its slowest query answers,
whether it was aborted. No tick passes over a task that is due. Between a selection and its effect
the old interval may fire (`dirty`). Development-only double mounting is left out.

**Views, Console.** `Views` has one operator per component, from the data the hook holds to what it
says: colour, word, badge, number or N/A. `world` in `Console` is what is the case: Prometheus, the
gateway, Redis; health, breaker and whether there are failures of every instance; which counters the
gateway's process has incremented (`counters`: a request of any route, one forwarded, one refused with
429, a 5xx since the last scrape); and what Prometheus holds (`held`: the `up` sample, which series exist,
and what the rate of requests and of 5xx amounts to). Counters reach Prometheus by `Scrape` only, and
every request ends in one, the scrapes and the dashboard's own among them, because the metrics
middleware stands before every route (`router.go:34`). A rate needs two samples of a series, so it
comes with a later scrape than the series, and ends with its window (`Age`). `Restart` is a new process: its
counters are gone at once, their series with the next scrape.
A load reads the rate-limit headers, pings Redis, and reads health, state and failures of each
instance, one after the other and each under its own lock (`topology.go:78-115`); `State()` moves a rested
breaker while it is read. The time of the last change is left out: it is printed and compared with nothing.
`load.seen` holds how each part of the world has been while the load lived; each Prometheus query
was answered by one of the `held` seen, no two necessarily by the same. Overlapping loads are left to
`Dashboard`: an aborted load leaves nothing on the screen.

**Pages, Charts, RecentTraffic, Playground.** `Navigate` is the router: leaving a page destroys its
state and runs its cleanup, entering one starts it afresh. In `RecentTraffic` a poll is a record with
the moment it was sent and whether its effect has been cleaned up (`cancelled`); what an answer
holds is told by how many requests the gateway had recorded when it read its log. In `Playground` the
requests out are a set, so that answers come in any order; bodies are blank, JSON or broken, as far
as `send` tells them apart. In `Charts` a series is its number of samples: ranges differ in how many,
latencies have gaps where nothing was requested, and `TooltipThrows` is the unguarded read of
`MultiAreaChart.tsx:100`. `blank` is the app after an exception: React unmounts it, and only a reload
of the document (`Restart`) brings it back.

**Format.** `toFixed` rounds to the nearest, and at a tie either way, by the constant `RoundsUp`: a
quotient like 1.005 is not the decimal fraction it is written as.

## 3. What is checked

Each run names a specification, constants and properties; `tlc -config X.cfg M` reproduces it.

| Run | What it shows |
|---|---|
| `breaker` (`MCCircuitBreaker.cfg`) | Three overlapping callers, broken responses, polls. A claimed probe slot has its claimant or a caller that left without reporting (`SlotAccounted`); one admission per half-open period; a closed breaker's count is the run of failures at the end of all reports and below the threshold (`ClosedCountsRun`); nobody is admitted during the cooldown; the contract is implemented; every open period ends, every half-open one too unless its probe was lost. |
| `balancer` (`MCLoadBalancer.cfg`) | Two requests, two instances, health changes, polls, broken responses: a 503 follows a scan of every instance; an instance that stays available is passed over at most once per other instance (`RoundRobin`); every step of every handler is a step of each instance's breaker contract. |
| `balancer_live` (`MCLoadBalancerLive.cfg`) | One address that does not parse, no broken responses: a half-open breaker that refuses everybody has a request in flight; every request is answered; an instance that stays healthy and answers well gets its breaker closed. |
| `limiter` (`MCRateLimiter.cfg`) | A window grants exactly its quota (`WindowAccounted`); in any period of a window's length the script allows less than two quotas, one more per Redis restart (`SlidingBound`; requests passed on because Redis failed are not in it); the announced wait is close to the truth (`RetryAfterClose`); windows end whatever arrives; every request is passed on or refused whatever Redis does. |
| `gateway` (`MCGateway.cfg`) | Two connections, three requests, signals at any moment. The gauge is the number of requests inside whichever way earlier ones left (`GaugeIsInside`); the counter lacks only requests inside and those that panicked (`OnlyPanicsUncounted`); the log is ahead of the counter by those between the two and never behind (`RecordedThenCounted`); Redis and the probes outlast every request (`DrainedBeforeClose`); the log is the bounded list (`ImplementsLog`); a signal ends the process even if requests hang; without one it comes to accept connections, Redis or not, unless listening itself fails (`Starts`). |
| `dashboard` (`MCDashboard.cfg`) | Values never go back to an earlier load's, settle on the selected range, survive an error; with loads shorter than the interval, loading ends and every selected range is shown or an error is. |
| `pages` (`Pages.cfg`) | The request log: loads do not pile up, rows do not go back where a load is sure to answer before the next starts, "Loading" goes away, new rows appear. The playground: the answer shown is the last request's, the form follows the link until it is edited. The charts: no movement of the pointer, no change of page or range makes the app throw, only new samples do. `Format`'s statements are evaluated around every border between units (`FormatChecked`). |
| `console` (`Console.cfg`) | Header, sidebar, topology card, services page and breaker tables tell one story even of a snapshot that never was true as a whole (`PagesAgree`); each part of what a load puts on the pages was so, in the gateway or in what Prometheus held, while it read (`NothingInvented`); when the world rests, the pages come to show it and the counters of the gateway's present process, or the banner (`Converges`). |

Every property has a mutant in `PROJECT.json`: a plausible bug in a modelled definition that makes the
same run find the property violated.

### Disagreements with the documentation

These runs are expected to find a violation; each states what a comment or document says.

- `probe_leak` (a bug): a probe whose response breaks off never reports, and the breaker refuses
  everybody until the process restarts.
- `poll_starves` (a bug): loads that take as long as the refresh interval abort each other for ever,
  and the page shows neither values nor an error.
- `hover_crash` (a bug): the pointer rests on a comparison chart, a refresh brings fewer samples, the
  tooltip reads past the end and the app goes off the screen. `AreaChart.tsx:55` guards the same read.
- `stale_status`: once Prometheus is gone, failed loads keep the old data and the header's chip goes on
  saying "up".

Also met while modelling, without a run of their own:

- A late failure of a request admitted before the trip reopens a half-open breaker whose probe is still
  out; the next half-open period admits a second probe beside it (`circuitbreaker.go:111-114` speaks
  of one).
- Two handlers can read the breaker's state in one order and set the gauge in the other, so
  `gateway_circuit_breaker_state` is stale until the instance's next request (`metrics.go:78-79`); it is
  also not set when time alone moves a breaker.
- `metrics.go:12-13` says the middleware counts every request and its latency; one whose handler
  panics (a broken upstream response) is in neither, because only the gauge is deferred
  (`OnlyPanicsUncounted` says that nothing else is missing).
- `PROJECT_CONTEXT.md:72-73` and `useDashboardData.ts:164-168` say that a gateway without traffic
  shows N/A for its error rate. `gateway_http_requests_total` counts requests of every route: Prometheus's
  scrapes, the container's health check and the dashboard's own reads (`router.go:34,40-41,69-70`). So the
  total is a number after two scrapes and the error rate soon 0%, whatever is forwarded; N/A
  shows only while Prometheus has too few samples. Only the distribution over the services reads N/A.
- `or vector(0)` also makes a zero of a counter whose gateway is not scraped (yet, or any more): the card
  of rate-limited requests then reads 0 and not N/A, where `PROJECT_CONTEXT.md:70-72` means counters that
  were never incremented. The same is so of a counter incremented since the last scrape.
- A reply lost after the script ran is repeated by go-redis and counted twice (`ratelimit.go:62-63`
  says one unit per request). `Retry-After` can be up to half a second short (`ratelimit.go:46-47`),
  which `RetryAfterClose` bounds.
- The failure count grows in half-open too, where `PROJECT_CONTEXT.md:90-91` says only while closed; a
  success in the open state does not reset it (`circuitbreaker.go:76-77`).
- A rejection is counted also when all instances are merely unhealthy (`metrics.go:88-89`).
- `telemetry.go:13-17` says the recorded requests are those that traverse the proxy to an upstream; a
  429 and a 404 below `/api/` are recorded too.
- `router.go:66-68` says the introspection endpoints do not alter gateway behaviour; the topology
  endpoint's `State()` moves an open breaker whose timeout has passed to half-open.
- `CircuitBreakersPage.tsx` shows 0 closed and 0 open before a topology has been loaded, where `format.ts:1`
  promises never a fake zero.
- The sidebar says "All systems healthy" while a breaker is open, since the topology's status looks at
  health and Redis only; the services page says "Degraded (breaker open)" for a half-open one.
- All answers of a load succeed or none is shown: with Prometheus down, changes of the gateway are not
  shown, and one 429 to the dashboard's own request fails the whole load.
- `DashboardContext.tsx` speaks of a shared polling loop; the request log page has one of its own. Its
  method filter is kept when the method vanishes from the list: the select shows "All methods" and
  no row is shown. Redirects are coloured as 2xx and found under no status filter.
- `fmtCompact` prints 999 500 and a little more as "1000K".
- A signal before `signal.Notify` kills the process whatever it is doing, requests in flight included;
  a second one during the drain has no effect.

### Bounds, and why they are enough

- Callers and requests: three callers of a breaker let one admission outlive two half-open periods
  while the other two trip and probe; a fourth only repeats a role. Two handlers suffice for every
  pair of steps of a balancer.
- Threshold 2 and cooldown of two ticks in `breaker`: the least values at which "not yet" and
  "just now" differ. The balancer runs use 1, as the count is the breaker's affair.
- `limiter`: limit 2, the least at which a period across two windows holds more than a quota (three
  requests, and five with a restart, are reached: the bound is tight); a window of two seconds of three
  ticks, so that rounding goes both ways; one retry, one stray, one restart.
- `gateway`: a log of two and three requests, so that it fills, wraps and evicts; two connections, so
  that one request ends inside another; two pings; a drain of one tick, before and after its deadline.
- `dashboard`: three clicks are enough to overlap a load twice and return to a range.
- `pages`: intervals shorter and longer than the slowest load, and none; two switches of the interval,
  so that loads of three effects overlap; ranges of two and three samples, the least a chart draws
  and one more; two sends.
- `console`: one service with two instances, a limit of 1 and two changes of the world, so that
  something can go wrong and something else before the load ends, or the same come back. Scrapes,
  ageing samples, resting breakers and loads are not bounded.
- Symmetry is used only in the `balancer` run, which checks no liveness, over requests that no
  definition tells apart.

### Fairness, and why the code justifies it

`WF(Tick)`: time passes. Handlers are weakly fair per handler, since Go runs every runnable goroutine; the
registry's lock is strongly fair, since `sync.Mutex` hands itself to a waiter that has starved for
a millisecond. That an upstream answers or its connection breaks is an assumption about the
upstreams: the transport has no response timeout. In `CircuitBreaker` some caller keeps asking, because
an open breaker moves on only when it is asked. In `RateLimiter` a handler is fair because go-redis
bounds each attempt by its timeouts; arrivals are not fair. In `Gateway` `main`, the
clock and the goroutine that listens are fair and the requests are not: they may hang for ever. In
`Dashboard` and `Pages` the browser runs due tasks and a fetch ends, by an answer or an error; the user
is not fair. In `Console` loads go on, as the interval starts them, Prometheus goes on scraping, and
samples grow old; changes of the world are not fair.
`NewRowsAppear` is conditional on loads that do not all fail.

## 4. What is proved

For all values of the constants, from the named assumptions of each module.

**CircuitBreaker_proofs** (`BreakerAssumption`: threshold and timeouts are integers, the bounds are
above them; `CallersAssumption`). `IInv` is inductive: types, `SlotAccounted`, `ClosedCountsRun`, and
two strengthenings. `AdmissionsMatchFlag` says that a half-open period has admitted exactly the probe
its flag stands for; without it a step could start from a second admission nobody could have made.
`ClockMatchesTrip` ties the history clock to the breaker's own, so that "open" and "still resting"
are known together. From `IInv` follow `OneProbe`, `CooldownIsRespected`, `SlotIsAccounted`,
`RunIsCounted`, `NoShortcutTaken` (the state changes only as documented), and the refinement
`BreakerImplementsContract`. The proof splits each action by the lemmas on what the five operators of
`Breaker` return, which stand in **Breaker_proofs**.

**LoadBalancer_proofs** (`N >= 1`). Four arguments over one description of the handlers.

- `FullScans`: a 503 only after the request's own scan has looked at every instance. The invariant
  relates the scan to the shared cursor: what a scan has looked at are the `tried` instances just
  behind the cursor (`Behind`), and only the holder of the lock moves it (`ScansExclude`).
  `Behind(c, N)` is all of them.
- `HandlersKeepContracts`: every breaker keeps `BreakerContract`, with the requests in flight on its
  instance as callers. Whatever step is taken, from the point of view of one instance a request
  enters through `Allow`, reports, vanishes, or the breaker rests or ticks (`Driven`,
  `EveryStepDrives`); each of the four is a step of the contract or a stutter. The breakers stay
  among those the methods leave (`Kept`).
- `ProbesAreReported`, from the same four: a claimed slot has a request in flight (`Awaited`). It
  has the hypothesis that no upstream body breaks off (`"abort" \notin Outcomes`), as the run
  `balancer_live` has: without it the slot can be lost, which the run `probe_leak` shows for a
  breaker alone.
- `RotationIsFair`: `RoundRobin` alone is not inductive. How often an instance has been passed over,
  plus its distance ahead of the cursor, plus one while another instance is about to be asked, stays
  below N (`Order`).

**RateLimiter_proofs** (`LimiterAssumption`). `LInv` adds to the types and `WindowAccounted` that a
reply on its way carries the TTL of what was left when the script ran; `RetryAfterIsClose` needs it.
`SlidingIsBounded` is about a sum over the ages of past grants. Its invariant (`Spread`): the grants
younger than the window in force are its own, without the one that opened it, which is as old as the
window; all that are remembered are at most one window's more, short of its opener too, and a quota for
each loss of the data, which ends a window early. A tick moves every grant
one age up: when the window ends, what came before it has fallen off the end. The sum is a fold of
the community modules; `SumSplits` and its companions are proved by least counterexample (the
well-founded order of the naturals, applied to the set of counterexamples), which takes no operator
parameter.

**Gateway_proofs** (`GatewayAssumption`: finitely many connections). What gauge, counter and log say
are equations between them and the sizes of three sets of connections. `Balanced` states them for a
step of one connection: each set's size changes by whether that connection was and is in it, and
counters change by the same. Every handler's action is shown balanced once, and one lemma keeps the
three equations. `Quiet` says which phases imply that no request is left and that the listener is not
open, from which `ClosedAfterDrain` follows.

The ring (`RecentAssumption`): its invariant is that `next` is a slot and the `count` slots behind it are
written. `SlotBackAfterAdd` is the key: after an addition, walking back k slots is walking back k-1
from the old index. `RingImplementsLog` is the refinement, for every capacity; `GatewayRunsRing` says
that all the process does to the ring from its start to its exit is an `Add` or nothing, so that
`GatewayKeepsLog` follows. The ring is memory of the process: a new process starts with an empty one.

**Dashboard_proofs** (`DashboardAssumption`). `OneAlive`: of the loads out only the newest is not
aborted, and one that was overtaken is, so that values move forward (`ValuesMoveForward`). `OnRange`:
after its effect, the interval and the load that counts are of the selected range, and what is shown
is of it, an error, or yet to come (`SettlesOnRange`).

**Pages_proofs** (`PagesAssumption`). For the playground, its types, its three safety statements, and
that a playground that is not shown has nothing out (`NothingLeft`): without it an answer could come
to a page that was opened anew. For the charts, that the app throws on the traffic page only and no
tooltip on it throws as things are (`ChartSafe`), from which `OnlyRefreshThrows` follows step by step.

For the activity log (`RecentSafe`): without refreshing, only the newest load may show its rows;
with an interval of p ticks, a load that may has been out for as many intervals as there are newer
ones, and is due within `Slowest` (`Paced`). That bounds how many are out (`LoadsDoNotPileUp`), and
where p exceeds `Slowest` there is one, which shows nothing older than the rows (`RowsGoForward`).

For `Format`: `FiltersArePartition`, `UptimeIsExact`, `CompactClose` and `CompactIsMonotone` for every
number, by division lemmas proved first.

**Console_proofs** (`ViewsAssumption`, `ConsoleAssumption`: finitely many instances, at least one,
visited each once). The invariant says that what the load in flight has read so far (`Honest`) was so
while it was in flight, headers, Redis, and row by row the health flag, the breaker's state and whether
there were failures, each at a moment of its own (`RowSeen`); that what the load has seen holds the
present world; and that the topology on the screen is an answer the endpoint can give.
`PagesTellOneStory` needs only the last: for every such answer counts, badges, colours and words are
shown to agree, by counting the healthy instances of each service and the closed breakers.
`NothingIsInvented` needs the first: the step that shows the answers puts each part on the pages as the
proof has followed it from the moment it was read, and each number as `queryScalar` and the formats make
it of what Prometheus held (`NumbersShown`, `CentreShown`). It says nothing of the whole: a snapshot of
parts read at different moments need never have been the case.

Only model-checked: the liveness properties, which are out of the prover's reach, with ENABLED. Every
invariant, action property and refinement a passing run checks is also proved. No module uses a
recursive operator; what the loop of `Snapshot` does is a function of the round.

## 5. Not modelled

- Path rewriting of the proxy (`proxy.go:27-43`, `94-104`): pure functions on strings; no state depends
  on them. `NewReverseProxy` is used by its tests only.
- The parsers of `internal/config`: they run once, before everything else. That seconds may overflow a
  Duration and that an interval of zero panics in `NewTicker` are listed as hazards; they are
  wrong from the first moment or never, a matter for a test of the configuration.
- The time between health probes: nothing in the gateway waits for one, and any result at any
  moment includes every schedule.
- Upgraded connections (WebSocket), which `Shutdown` does not wait for: no back end offers them.
- Histograms, log lines, addresses and names in the endpoints' answers: nothing reads them back.
- The header rows of the playground, the copy buttons, layout, icons and quick links; and the
  components no page uses (`Header.tsx`, `RateLimitPanel.tsx`, `LatencyPanel.tsx`,
  `BackendServicesTable.tsx`).
- Mock services: a back end of the models may already do anything they do. The load test: a tool
  outside the gateway whose workers share two channels. Logging and deployment:
  no state, except the two facts named in `PROJECT.json`.
