--------------------------------- MODULE Views ---------------------------------
(***************************************************************************)
(* What the pages of frontend/src show for given DashboardData: each       *)
(* component is an operator on the values it renders, reduced to what its  *)
(* conditions decide.  Layout, icons and the wording around a value are    *)
(* left out; where two components use different words for the same thing,  *)
(* each keeps its own.                                                     *)
(***************************************************************************)
EXTENDS Integers, Sequences, SequencesExt, FiniteSetsExt

CONSTANTS
    Instances,   \* the back-end instances the gateway is configured with
    ServiceOf,   \* instance -> the service it belongs to
    Fanned,      \* the service drawn with its instances: order
    Limit        \* RATE_LIMIT_REQUESTS

ASSUME ViewsAssumption ==
    /\ IsFiniteSet(Instances) /\ Instances # {}
    /\ Limit \in Nat \ {0}

Services == {ServiceOf[i] : i \in Instances}
Of(s) == {i \in Instances : ServiceOf[i] = s}

\* A number of the dashboard is a small integer: 0 is zero, 1 something above
\* it.  Null is JavaScript's null, NaN a number that is not finite.
Null == -1
NaN == -2

Circuits == {"closed", "half_open", "open"}
Rows == [healthy : BOOLEAN, circuit : Circuits, failures : BOOLEAN]

-----------------------------------------------------------------------------
(* lib/prometheus.ts: an answer is the sequence of the values it holds. *)

\* Where the answer holds a number.
queryVector(result) == {k \in DOMAIN result : result[k] # NaN}

\* Mutant: zero for a series that does not exist.
queryScalarZero(result) ==
    LET at == queryVector(result) IN IF at = {} THEN 0 ELSE result[Min(at)]
queryScalar(result) ==
    LET at == queryVector(result) IN IF at = {} THEN Null ELSE result[Min(at)]

queryTargetUp(result) ==
    LET v == queryScalar(result)
    IN  IF v = Null THEN "unknown" ELSE IF v = 1 THEN "up" ELSE "down"

\* lib/format.ts: fmtRate, fmtCompact, fmtMillisFromSeconds and fmtPercent
\* differ in how they print a number; all print null as N/A.
NA == "N/A"
fmt(v) ==
    CASE v \in {Null, NaN} -> NA
      [] v = 0             -> "0"
      [] OTHER             -> "1"

-----------------------------------------------------------------------------
(* Header, sidebar and banner of every page. *)

NoTopology == [status |-> "none"]
Loaded(d) == d.topology # NoTopology

HeaderStatus(d) ==
    CASE d.topology.status = "none"        -> "Gateway unreachable"
      [] d.topology.status = "operational" -> "Operational"
      [] OTHER                             -> "Degraded"

PrometheusChip(d) == d.prometheusUp

SidebarStatus(d) ==
    CASE d.topology.status = "none"        -> <<"Unreachable", "Cannot reach gateway">>
      [] d.topology.status = "operational" -> <<"Operational", "All systems healthy">>
      [] OTHER                             -> <<"Degraded", "Check services below">>

Banner(d) == d.error

-----------------------------------------------------------------------------
(* Service topology, services, circuit breakers. *)

StatusDot(row) ==
    CASE row.healthy /\ row.circuit = "closed" -> "green"
      [] row.healthy /\ row.circuit # "closed" -> "amber"
      [] OTHER                                 -> "red"

CurrentStatus(row) ==
    IF ~row.healthy THEN "Down (health check failed)"
    ELSE IF row.circuit # "closed" THEN "Degraded (breaker open)" ELSE "Serving traffic"

\* The gateway sends healthy and total of each service with its rows.
HealthBadge(svc) ==
    IF svc.total > 0 /\ svc.healthy = svc.total THEN "Healthy"
    ELSE IF svc.healthy > 0 THEN "partly" ELSE "Unhealthy"

\* On the service topology: the pill, the dots of gateway, services, Redis
\* and the instances, and whether traffic is drawn as flowing.
ServiceDot(svc) ==
    LET allHealthy == svc.total > 0 /\ svc.healthy = svc.total
        someHealthy == svc.healthy > 0
    IN  IF allHealthy THEN "green" ELSE IF someHealthy THEN "amber" ELSE "red"

TopologyCard(d, showTraffic) ==
    [ pill      |-> IF Loaded(d) THEN "Live" ELSE "Offline",
      gateway   |-> IF Loaded(d) THEN "green" ELSE "red",
      active    |-> showTraffic /\ Loaded(d),
      fan       |-> IF Loaded(d) THEN Cardinality(Services) + 1 ELSE 1,
      services  |-> IF Loaded(d) THEN [s \in Services |-> ServiceDot(d.topology.services[s])]
                                 ELSE << >>,
      redis     |-> IF Loaded(d) /\ d.topology.redis THEN "green" ELSE "red",
      instances |-> IF Loaded(d) THEN [i \in Of(Fanned) |-> StatusDot(d.topology.rows[i])]
                                 ELSE << >> ]

ServicesPage(d) ==
    IF ~Loaded(d) THEN [services |-> << >>, instances |-> << >>, redis |-> NA]
    ELSE [ services  |-> [s \in Services |-> HealthBadge(d.topology.services[s])],
           instances |-> [i \in Instances |-> CurrentStatus(d.topology.rows[i])],
           redis     |-> IF d.topology.redis THEN "ok" ELSE "unavailable" ]

CircuitBreakersPage(d) ==
    LET In(S) == IF Loaded(d) THEN {i \in Instances : d.topology.rows[i].circuit \in S}
                              ELSE {}
    IN  [ closed |-> Cardinality(In({"closed"})),
          other  |-> Cardinality(In({"open", "half_open"})),
          rows   |-> IF Loaded(d) THEN Cardinality(Instances) ELSE 0 ]

CircuitBreakerTable(d) ==
    IF Loaded(d) THEN [i \in Instances |-> d.topology.rows[i].circuit] ELSE << >>

\* The instances whose count of failures the table prints in red: above zero.
FailuresShown(d) ==
    IF Loaded(d) THEN {i \in Instances : d.topology.rows[i].failures} ELSE {}

-----------------------------------------------------------------------------
(* Rate limiting and traffic. *)

\* The arc of a gauge: none without a ratio, never more than full.
Gauge(used, limit) == IF used = Null \/ limit <= 0 THEN Null ELSE Min({used, limit})

\* The gauge of the rate-limiting page: what the headers of the dashboard's own
\* request say, the configuration where they say nothing.
RateLimitingPage(d) ==
    LET limit == IF d.rateLimit.limit # Null THEN d.rateLimit.limit
                 ELSE IF Loaded(d) THEN Limit ELSE Null
        remaining == d.rateLimit.remaining
        used == IF limit # Null /\ remaining # Null THEN Max({0, limit - remaining})
                                                    ELSE Null
    IN  [ limit |-> limit, used |-> used, remaining |-> remaining,
          arc |-> Gauge(used, limit) ]

\* The numbers of the dashboard home and the traffic page.
KpiCards(d) == [k \in DOMAIN d.metrics |-> fmt(d.metrics[k])]

\* The arcs of a donut: in proportion to its slices, none if they are empty.
Donut(slices, total) == IF total <= 0 THEN << >> ELSE slices

\* Traffic distribution: the slices of the donut, and its centre.
TrafficDistribution(d) ==
    LET named == {s \in DOMAIN d.serviceTotals : d.serviceTotals[s] # Null}
        total == MapThenSumSet(LAMBDA s : d.serviceTotals[s], named)
    IN  [ slices |-> named,
          centre |-> IF total <= 0 THEN NA ELSE fmt(total),
          arcs   |-> Donut([s \in named |-> d.serviceTotals[s]], total),
          total  |-> total ]

==============================================================================
