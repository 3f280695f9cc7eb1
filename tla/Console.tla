------------------------------- MODULE Console --------------------------------
(***************************************************************************)
(* What the user reads on the dashboard against what is the case: one load *)
(* at a time asks the gateway (router/topology.go behind the rate limiter) *)
(* and Prometheus, piece by piece, while instances, breakers, Redis, the   *)
(* gateway and Prometheus go on changing; Views is what the pages make of  *)
(* the answers.  Overlapping loads are Dashboard's subject: an aborted one *)
(* leaves no trace on the screen.                                          *)
(***************************************************************************)
EXTENDS Views

CONSTANTS
    Listing,     \* the instances in the order the topology endpoint visits them
    MaxChanges   \* bound: changes of the world

ASSUME ConsoleAssumption ==
    /\ Listing \in Seq(Instances)
    /\ Range(Listing) = Instances /\ Len(Listing) = Cardinality(Instances)
    /\ MaxChanges \in Nat

VARIABLES
    world,    \* how things are; a breaker is "rested" when it is open and its recovery
              \* timeout has passed, and has failures or none
    load,     \* the load in flight: what the gateway has read for it, and how each part
              \* of the world has been since it began; or NoLoad
    data,     \* DashboardData, as far as Views shows it
    changes   \* how often the world has changed

vars == <<world, load, data, changes>>

Metrics == {"totalRequests", "errorRate", "rateLimitedTotal"}

Unread == << >>
NoLoad == [seen |-> {}]

\* How the parts of the world have been while a load that saw seen lived on to
\* see w; Prometheus can answer only while it is up.
NoneSeen == [redis |-> {}, rows |-> [i \in Instances |-> {}], held |-> {}]
Saw(seen, w) ==
    [ redis |-> seen.redis \cup {w.redis},
      rows  |-> [i \in Instances |-> seen.rows[i] \cup {w.rows[i]}],
      held  |-> IF w.prometheus THEN seen.held \cup {w.held} ELSE seen.held ]

\* A load before its first answer.
Asked ==
    [seen |-> Saw(NoneSeen, world), rateLimit |-> Unread, redis |-> Unread, rows |-> << >>]

EMPTY ==
    [ topology |-> NoTopology, prometheusUp |-> "unknown",
      metrics |-> [k \in Metrics |-> Null],
      serviceTotals |-> << >>, rateLimit |-> [limit |-> Null, remaining |-> Null],
      loading |-> TRUE, error |-> FALSE ]

Fresh == [i \in Instances |-> [healthy |-> TRUE, circuit |-> "closed", failures |-> FALSE]]

\* Prometheus before it has scraped anything: no up series, no series of the
\* gateway, and no samples to take a rate of.
Nothing == [target |-> "none", series |-> {}, rate |-> "none"]

\* counters is what the gateway's process has counted: any request, one forwarded
\* to the Fanned service, one refused with 429; and whether one was answered 5xx
\* since the last scrape.  held is what Prometheus has of it.
Init ==
    /\ world = [ prometheus |-> TRUE, gateway |-> TRUE, redis |-> TRUE, rows |-> Fresh,
                 counters |-> {}, held |-> Nothing ]
    /\ load = NoLoad /\ data = EMPTY
    /\ changes = 0

-----------------------------------------------------------------------------
(* The world. *)

\* The world is now w; a load in flight has lived to see it.
Becomes(w) ==
    /\ w # world /\ world' = w
    /\ load' = IF load = NoLoad THEN load ELSE [load EXCEPT !.seen = Saw(@, w)]
    /\ UNCHANGED data

Counted == changes < MaxChanges /\ changes' = changes + 1

\* Prometheus, Redis or the way to the gateway fails or comes back; answers of
\* the gateway other than 200, a 429 among them, are no way.
Toggle ==
    /\ Counted
    /\ \/ Becomes([world EXCEPT !.prometheus = ~@])
       \/ Becomes([world EXCEPT !.redis = ~@])
       \/ Becomes([world EXCEPT !.gateway = ~@])

\* The gateway comes back as a new process: registry, breakers and counters
\* are new.
Restart ==
    /\ Counted
    /\ ~world.gateway
    /\ Becomes([world EXCEPT !.gateway = TRUE, !.rows = Fresh, !.counters = {}])

Probe(i) ==
    /\ Counted
    /\ Becomes([world EXCEPT !.rows[i].healthy = ~@])

\* What a report, or a request that is let through to probe, makes of a breaker.
Successors(c) ==
    CASE c = "closed"    -> {<<"closed", FALSE>>, <<"closed", TRUE>>, <<"open", TRUE>>}
      [] c = "open"      -> {}
      [] c = "rested"    -> {<<"half_open", TRUE>>}
      [] c = "half_open" -> {<<"closed", FALSE>>, <<"open", TRUE>>}

Break(i) ==
    /\ Counted
    /\ \E b \in Successors(world.rows[i].circuit) :
          Becomes([world EXCEPT !.rows[i].circuit = b[1], !.rows[i].failures = b[2]])

\* time.Since(openedAt) reaches the recovery timeout.
Rest(i) ==
    /\ world.rows[i].circuit = "open"
    /\ Becomes([world EXCEPT !.rows[i].circuit = "rested"])
    /\ UNCHANGED changes

\* A request ends, of whatever route: answered by the gateway itself (the
\* dashboard's own and those of the container's health check among them),
\* refused, or forwarded, with 5xx or without.
Outcomes == {{}, {"5xx"}, {"429"}, {"upstream"}, {"upstream", "5xx"}}

Serve ==
    /\ Counted
    /\ world.gateway
    /\ \E what \in Outcomes :
          Becomes([world EXCEPT !.counters = @ \cup {"http"} \cup what])

\* What a scrape that found the counters c can make of the rates.  A rate needs
\* two samples of a series, so that the first increment of a new one is not seen:
\* after the first samples there is none, the rate of all requests is zero
\* ("idle") until a known series has grown, and that of the 5xx ones may be.  The
\* samples themselves are not kept here: a rate may come with any scrape.
RatesAfter(rate, c) ==
    IF "http" \notin c \/ rate = "failing" THEN {rate}
    ELSE {rate, "clean"} \cup (IF rate = "none" THEN {"idle"} ELSE {})
                        \cup (IF "5xx" \in c THEN {"failing"} ELSE {})

\* Prometheus scrapes the gateway; the scrape is a request itself, counted after
\* it was answered.  When it fails, the series of the target are stale.
Scrape ==
    /\ world.prometheus
    /\ IF world.gateway
       THEN \E rate \in RatesAfter(world.held.rate, world.counters) :
               Becomes([world EXCEPT !.counters = (@ \ {"5xx"}) \cup {"http"},
                           !.held = [target |-> "up", series |-> world.counters \ {"5xx"},
                                     rate |-> rate]])
       ELSE Becomes([world EXCEPT !.held = [@ EXCEPT !.target = "down", !.series = {}]])
    /\ UNCHANGED changes

\* Samples grow too old: for a rate's window (useDashboardData.ts:16-19), and while
\* Prometheus is away for any answer.
Age ==
    /\ \/ /\ world.held.rate = "failing"
          /\ Becomes([world EXCEPT !.held = [@ EXCEPT !.rate = "clean"]])
       \/ /\ world.held.target = "down"
          /\ Becomes([world EXCEPT !.held = [@ EXCEPT !.rate = "none"]])
       \/ ~world.prometheus /\ Becomes([world EXCEPT !.held = Nothing])
    /\ UNCHANGED changes

-----------------------------------------------------------------------------
(* A load. *)

Start ==
    /\ load = NoLoad
    /\ load' = Asked
    /\ UNCHANGED <<world, data, changes>>

Reading == load # NoLoad

\* middleware.RateLimit passes a request on without headers when Redis fails.
NoHeaders == {[limit |-> Null, remaining |-> Null]}
Headers == [limit : {Limit}, remaining : 0..(Limit - 1)]

ReadHeaders ==
    /\ Reading /\ world.gateway
    /\ load.rateLimit = Unread
    /\ \E h \in (IF world.redis THEN Headers ELSE NoHeaders) : load' = [load EXCEPT !.rateLimit = h]
    /\ UNCHANGED <<world, data, changes>>

PingRedis ==
    /\ Reading /\ world.gateway
    /\ load.rateLimit # Unread /\ load.redis = Unread
    /\ load' = [load EXCEPT !.redis = <<world.redis>>]
    /\ UNCHANGED <<world, data, changes>>

\* No row is half read.
Complete(rows) == \A k \in DOMAIN rows : rows[k].failures # Unread

\* inst.Healthy(), then inst.Breaker.State() and inst.Breaker.Failures(), of one
\* instance after the other, each under a lock of its own.
ReadHealthy ==
    /\ Reading /\ world.gateway
    /\ load.redis # Unread
    /\ Complete(load.rows) /\ Len(load.rows) < Len(Listing)
    /\ LET i == Listing[Len(load.rows) + 1]
       IN  load' = [load EXCEPT !.rows =
                       Append(@, [healthy |-> world.rows[i].healthy, circuit |-> "unread",
                                  failures |-> Unread])]
    /\ UNCHANGED <<world, data, changes>>

State(c) == IF c = "rested" THEN "half_open" ELSE c

ReadState ==
    /\ Reading /\ world.gateway
    /\ ~Complete(load.rows)
    /\ LET n == Len(load.rows)
           i == Listing[n]
           c == State(world.rows[i].circuit)
           w == [world EXCEPT !.rows[i].circuit = c]
       IN  /\ load.rows[n].circuit = "unread"
           /\ world' = w
           /\ load' = [load EXCEPT !.rows[n].circuit = c, !.seen = Saw(@, w)]
    /\ UNCHANGED <<data, changes>>

\* With the last row the answer is complete, and the request is counted.
ReadFailures ==
    /\ Reading /\ world.gateway
    /\ ~Complete(load.rows)
    /\ LET n == Len(load.rows)
           i == Listing[n]
           w == [world EXCEPT !.counters =
                    @ \cup (IF n = Len(Listing) THEN {"http"} ELSE {})]
       IN  /\ load.rows[n].circuit # "unread"
           /\ world' = w
           /\ load' = [load EXCEPT !.rows[n].failures = <<world.rows[i].failures>>,
                                   !.seen = Saw(@, w)]
    /\ UNCHANGED <<data, changes>>

\* What Prometheus answers when it holds h, as the values an answer holds.  "or
\* vector(0)" makes a missing counter a zero; the share of 5xx among all requests
\* is no value without a rate, and 0/0 is not a number.
Total(h) == IF "http" \in h.series THEN <<1>> ELSE << >>
Limited(h) == IF "429" \in h.series THEN <<1>> ELSE <<0>>
Share(h) ==
    CASE h.rate = "none"    -> << >>
      [] h.rate = "idle"    -> <<NaN>>
      [] h.rate = "clean"   -> <<0>>
      [] h.rate = "failing" -> <<1>>
PerService(h) == [s \in (IF "upstream" \in h.series THEN {Fanned} ELSE {}) |-> 1]
Up(h) ==
    CASE h.target = "none" -> << >>
      [] h.target = "up"   -> <<1>>
      [] h.target = "down" -> <<0>>

\* Mutant: the status looks at Redis alone.
StatusOfRedis(redis, rows) == IF redis THEN "operational" ELSE "degraded"
StatusOf(redis, rows) ==
    IF redis /\ \A i \in Instances : rows[i].healthy THEN "operational" ELSE "degraded"

CountOf(rows, s) == Cardinality({i \in Of(s) : rows[i].healthy})

\* instanceView
RowOf(row) == [row EXCEPT !.failures = @[1]]

\* topologyResponse
TopologyOf(redis, rows) ==
    [ status |-> StatusOf(redis, rows), redis |-> redis, rows |-> rows,
      services |-> [s \in Services |->
                      [healthy |-> CountOf(rows, s), total |-> Cardinality(Of(s))]] ]

\* All have answered: setData.  Each query was answered at some moment of the
\* load when Prometheus was up, no two of them necessarily at the same.
Succeed ==
    /\ Reading
    /\ Len(load.rows) = Len(Listing) /\ Complete(load.rows)
    /\ LET rows == [i \in Instances |->
                      RowOf(load.rows[CHOOSE k \in DOMAIN Listing : Listing[k] = i])]
           held == load.seen.held
       IN  \E up \in {Up(h) : h \in held}, total \in {Total(h) : h \in held},
              share \in {Share(h) : h \in held}, limited \in {Limited(h) : h \in held},
              perService \in {PerService(h) : h \in held} :
             data' = [ topology |-> TopologyOf(load.redis[1], rows),
                       prometheusUp |-> queryTargetUp(up),
                       metrics |-> [ totalRequests    |-> queryScalar(total),
                                     errorRate        |-> queryScalar(share),
                                     rateLimitedTotal |-> queryScalar(limited) ],
                       serviceTotals |-> perService,
                       rateLimit |-> load.rateLimit,
                       loading |-> FALSE, error |-> FALSE ]
    /\ load' = NoLoad
    /\ UNCHANGED <<world, changes>>

\* Mutant: the error is logged, not shown.
FailedSilently(d) == [d EXCEPT !.loading = FALSE]
Failed(d) == [d EXCEPT !.loading = FALSE, !.error = TRUE]

\* A source that has not answered everything is down.
Fail ==
    /\ Reading
    /\ \/ ~world.prometheus
       \/ ~world.gateway /\ ~(Len(load.rows) = Len(Listing) /\ Complete(load.rows))
    /\ data' = Failed(data)
    /\ load' = NoLoad
    /\ UNCHANGED <<world, changes>>

Step ==
    \/ Start \/ ReadHeaders \/ PingRedis
    \/ ReadHealthy \/ ReadState \/ ReadFailures
    \/ Succeed \/ Fail

Environment ==
    \/ Toggle \/ Restart \/ Serve \/ Scrape \/ Age
    \/ \E i \in Instances : Probe(i) \/ Break(i) \/ Rest(i)

Next == Step \/ Environment

Spec == Init /\ [][Next]_vars

\* Loads go on, Prometheus goes on scraping, and time goes on.
FairSpec == Spec /\ WF_vars(Step) /\ WF_vars(Scrape) /\ WF_vars(Age)

-----------------------------------------------------------------------------
\* PageHeader.tsx, Sidebar.tsx, Topology.tsx, ServicesPage.tsx, CircuitBreakersPage.tsx:
\* the pages tell one story, also of a snapshot that was never true as a whole:
\* "operational" is said when Redis and every instance are shown well, colours,
\* words and badges mean the same, and the tables count the same breakers.
PagesAgree ==
    Loaded(data) =>
        LET page == ServicesPage(data)
            card == TopologyCard(data, TRUE)
            circuits == CircuitBreakerTable(data)
            counts == CircuitBreakersPage(data)
            Shown(word) == {i \in Instances : page.instances[i] = word}
        IN  /\ HeaderStatus(data) = SidebarStatus(data)[1]
            /\ HeaderStatus(data) = "Operational" <=>
                  page.redis = "ok" /\ \A s \in Services : page.services[s] = "Healthy"
            /\ \A s \in Services :
                  /\ page.services[s] = "Healthy" <=> card.services[s] = "green"
                  /\ page.services[s] = "Unhealthy" <=> card.services[s] = "red"
                  /\ page.services[s] = "Unhealthy" <=> Of(s) \subseteq Shown("Down (health check failed)")
            /\ \A i \in Of(Fanned) :
                  /\ card.instances[i] = "green" <=> page.instances[i] = "Serving traffic"
                  /\ card.instances[i] = "amber" <=> page.instances[i] = "Degraded (breaker open)"
            /\ counts.closed + counts.other = counts.rows
            /\ counts.closed = Cardinality({i \in Instances : circuits[i] = "closed"})
            /\ Cardinality(Shown("Degraded (breaker open)")) <= counts.other

\* What a card of d reads when Prometheus holds h.
CardReads(d, h, k) ==
    KpiCards(d)[k] =
        CASE k = "totalRequests"    -> IF "http" \in h.series THEN "1" ELSE NA
          [] k = "errorRate"        -> IF h.rate \in {"none", "idle"} THEN NA
                                       ELSE IF h.rate = "clean" THEN "0" ELSE "1"
          [] k = "rateLimitedTotal" -> IF "429" \in h.series THEN "1" ELSE "0"

\* Every part of the pages was so at some moment seen.
Fits(d, seen) ==
    /\ Loaded(d)
    /\ \A i \in Instances : \E healthy, broken, failing \in seen.rows[i] :
          /\ healthy.healthy <=> ServicesPage(d).instances[i] # "Down (health check failed)"
          /\ broken.circuit = CircuitBreakerTable(d)[i]
          /\ failing.failures <=> i \in FailuresShown(d)
    /\ (ServicesPage(d).redis = "ok") \in seen.redis
    /\ (RateLimitingPage(d).used # Null) \in seen.redis
    /\ RateLimitingPage(d).used # Null => RateLimitingPage(d).used \in 1..Limit
    /\ \A k \in Metrics : \E h \in seen.held : CardReads(d, h, k)
    /\ \E h \in seen.held :
          PrometheusChip(d) = (IF h.target = "none" THEN "unknown" ELSE h.target)
    /\ \E h \in seen.held :
          TrafficDistribution(d).centre = NA <=> "upstream" \notin h.series

\* PROJECT_CONTEXT.md:69-73: nothing shown is made up.  What a load puts on the
\* pages was the case, in the gateway and in what Prometheus had scraped of it,
\* part by part while the load was reading; what did not change meanwhile is
\* shown as it is.
NothingInvented ==
    [][load # NoLoad /\ load' = NoLoad => data'.error \/ Fits(data', load.seen)]_vars

\* What the gateway has counted since its process started is on the pages.  Its
\* requests are those of every route: they have a total and a share of errors
\* however little is forwarded.
ShowsCounters(d, w) ==
    /\ PrometheusChip(d) = "up"
    /\ KpiCards(d)["totalRequests"] # NA
    /\ KpiCards(d)["errorRate"] = "0"
    /\ KpiCards(d)["rateLimitedTotal"] = "1" <=> "429" \in w.counters
    /\ TrafficDistribution(d).centre # NA <=> "upstream" \in w.counters

\* PROJECT_CONTEXT.md:67-68: when the world comes to rest the pages come to show it
\* as it is, without a banner, and the counters of the gateway's present process
\* through what Prometheus scrapes; with Prometheus or the gateway gone for good,
\* the banner comes and stays.
Converges ==
    <>[](IF world.prometheus /\ world.gateway
         THEN ~Banner(data) /\ Fits(data, Saw(NoneSeen, world)) /\ ShowsCounters(data, world)
         ELSE Banner(data))

\* prometheus.ts:85: once Prometheus is gone for good the chip stops saying "up".
\* It does not: a failed load keeps the old values.
ChipFollowsPrometheus ==
    <>[](~world.prometheus) => []<>(PrometheusChip(data) # "up")

==============================================================================
