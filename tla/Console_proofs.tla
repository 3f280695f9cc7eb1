---------------------------- MODULE Console_proofs -----------------------------
(***************************************************************************)
(* Proofs about Console, for every set of instances and services, every    *)
(* order of visiting them and every limit: the pages tell one story, and   *)
(* what they tell was the case.                                            *)
(***************************************************************************)
EXTENDS Console, FiniteSetTheorems, SequenceTheorems, TLAPS

Counters == {"http", "429", "upstream", "5xx"}
Targets == {"none", "up", "down"}
Rates == {"none", "idle", "clean", "failing"}
Helds == [target : Targets, series : SUBSET Counters, rate : Rates]

TrueRow == [healthy : BOOLEAN, circuit : Circuits \cup {"rested"}, failures : BOOLEAN]

Worlds ==
    [ prometheus : BOOLEAN, gateway : BOOLEAN, redis : BOOLEAN,
      rows : [Instances -> TrueRow], counters : SUBSET Counters, held : Helds ]

\* What a load can have seen, and that it saw w.
Seens ==
    [redis : SUBSET BOOLEAN, rows : [Instances -> SUBSET TrueRow], held : SUBSET Helds]
Includes(seen, w) == w.redis \in seen.redis /\ \A i \in Instances : w.rows[i] \in seen.rows[i]

\* What middleware.RateLimit says with Redis up or down.
HeadersIn(redis) == IF redis THEN Headers ELSE NoHeaders

ReadRow ==
    [ healthy : BOOLEAN, circuit : Circuits \cup {"unread"},
      failures : {Unread} \cup {<<b>> : b \in BOOLEAN} ]

\* What is read of an instance was so at a moment seen; its health, state and
\* failures are read in this order.
RowSeen(row, rows) ==
    /\ \E r \in rows : row.healthy <=> r.healthy
    /\ row.circuit # "unread" => \E r \in rows : row.circuit = r.circuit
    /\ row.failures # Unread => /\ row.circuit # "unread"
                                /\ \E r \in rows : row.failures = <<r.failures>>

\* All that load l has read was so at a moment seen; it reads headers, Redis and rows
\* in this order.
Honest(l) ==
    /\ l = [seen |-> l.seen, rateLimit |-> l.rateLimit, redis |-> l.redis, rows |-> l.rows]
    /\ l.seen \in Seens
    /\ l.rateLimit # Unread => \E b \in l.seen.redis : l.rateLimit \in HeadersIn(b)
    /\ l.redis # Unread => /\ l.rateLimit # Unread
                           /\ \E b \in l.seen.redis : l.redis = <<b>>
    /\ l.rows # << >> => l.redis # Unread
    /\ l.rows \in Seq(ReadRow) /\ Len(l.rows) <= Len(Listing)
    /\ \A k \in 1..Len(l.rows) :
          /\ RowSeen(l.rows[k], l.seen.rows[Listing[k]])
          /\ k < Len(l.rows) => l.rows[k].failures # Unread

\* What the topology endpoint can have answered, if anything.
Topologies ==
    {NoTopology} \cup
    {TopologyOf(redis, rows) : redis \in BOOLEAN, rows \in [Instances -> Rows]}

\* The fields of DashboardData.
Shape(d) ==
    d = [ topology |-> d.topology, prometheusUp |-> d.prometheusUp, metrics |-> d.metrics,
          serviceTotals |-> d.serviceTotals, rateLimit |-> d.rateLimit,
          loading |-> d.loading, error |-> d.error ]

\* The inductive invariant.
IInv ==
    /\ world \in Worlds
    /\ load # NoLoad => Includes(load.seen, world) /\ Honest(load)
    /\ Shape(data) /\ data.topology \in Topologies

-----------------------------------------------------------------------------
(* The pages. *)

\* A service has instances, and the count of the healthy ones tells whether all
\* or none of them are.
LEMMA ServiceCounts ==
    ASSUME NEW s \in Services, NEW rows \in [Instances -> Rows]
    PROVE  /\ CountOf(rows, s) \in Nat
           /\ Cardinality(Of(s)) \in Nat /\ Cardinality(Of(s)) > 0
           /\ CountOf(rows, s) = Cardinality(Of(s)) <=> \A i \in Of(s) : rows[i].healthy
           /\ CountOf(rows, s) > 0 <=> \E i \in Of(s) : rows[i].healthy
  <1> DEFINE well == {i \in Of(s) : rows[i].healthy}
  <1>1. IsFiniteSet(Of(s)) /\ Of(s) # {} /\ Of(s) \subseteq Instances
    <2>1. IsFiniteSet(Instances) /\ Of(s) \in SUBSET Instances
      BY ViewsAssumption DEF ViewsAssumption, Of
    <2>2. IsFiniteSet(Of(s))
      BY <2>1, FS_Subset
    <2>3. Of(s) # {}
      BY DEF Services, Of
    <2> QED
      BY <2>1, <2>2, <2>3
  <1>2. Cardinality(Of(s)) \in Nat /\ Cardinality(Of(s)) # 0
    BY <1>1, FS_CardinalityType, FS_EmptySet
  <1>3. IsFiniteSet(well) /\ (Cardinality(well) = Cardinality(Of(s)) <=> well = Of(s))
    <2>1. well \in SUBSET Of(s)
      OBVIOUS
    <2> HIDE DEF well
    <2> QED
      BY <1>1, <2>1, FS_Subset
  <1>4. Cardinality(well) \in Nat /\ (Cardinality(well) = 0 <=> well = {})
    BY <1>3, FS_CardinalityType, FS_EmptySet
  <1>5. CountOf(rows, s) = Cardinality(well)
    BY DEF CountOf
  <1>6. /\ well = Of(s) <=> \A i \in Of(s) : rows[i].healthy
        /\ well = {} <=> ~\E i \in Of(s) : rows[i].healthy
    OBVIOUS
  <1> HIDE DEF well
  <1> QED
    BY <1>2, <1>3, <1>4, <1>5, <1>6

\* What the endpoint answers is loaded, with these fields.
LEMMA Answered ==
    ASSUME NEW d, NEW redis \in BOOLEAN, NEW rows \in [Instances -> Rows],
           d.topology = TopologyOf(redis, rows)
    PROVE  /\ Loaded(d)
           /\ d.topology.status = (IF redis /\ \A i \in Instances : rows[i].healthy
                                   THEN "operational" ELSE "degraded")
           /\ d.topology.redis = redis /\ d.topology.rows = rows
           /\ d.topology.services = [s \in Services |->
                  [healthy |-> CountOf(rows, s), total |-> Cardinality(Of(s))]]
  <1> DEFINE t == d.topology
  <1>1. /\ t.status = (IF redis /\ \A i \in Instances : rows[i].healthy
                       THEN "operational" ELSE "degraded")
        /\ t.redis = redis /\ t.rows = rows
        /\ t.services = [s \in Services |->
                           [healthy |-> CountOf(rows, s), total |-> Cardinality(Of(s))]]
    BY DEF TopologyOf, StatusOf
  <1>2. NoTopology.status = "none" /\ t.status # "none"
    BY <1>1 DEF NoTopology
  <1>3. Loaded(d)
    BY <1>2 DEF Loaded
  <1> QED
    BY <1>1, <1>3

\* What header and sidebar say of a topology.
LEMMA StatusShown ==
    ASSUME NEW d, NEW redis \in BOOLEAN, NEW rows \in [Instances -> Rows],
           d.topology = TopologyOf(redis, rows)
    PROVE  /\ HeaderStatus(d) =
                 IF redis /\ \A i \in Instances : rows[i].healthy THEN "Operational" ELSE "Degraded"
           /\ SidebarStatus(d)[1] = HeaderStatus(d)
  <1>1. d.topology.status = (IF redis /\ \A i \in Instances : rows[i].healthy
                             THEN "operational" ELSE "degraded")
    BY Answered
  <1>2. CASE d.topology.status = "operational"
    BY <1>1, <1>2 DEF SidebarStatus, HeaderStatus
  <1>3. CASE d.topology.status = "degraded"
    BY <1>1, <1>3 DEF SidebarStatus, HeaderStatus
  <1> QED
    BY <1>1, <1>2, <1>3

\* What the services page shows of it.
LEMMA ServicesShown ==
    ASSUME NEW d, NEW redis \in BOOLEAN, NEW rows \in [Instances -> Rows],
           d.topology = TopologyOf(redis, rows)
    PROVE  ServicesPage(d) =
             [ services  |-> [s \in Services |->
                   HealthBadge([healthy |-> CountOf(rows, s), total |-> Cardinality(Of(s))])],
               instances |-> [i \in Instances |-> CurrentStatus(rows[i])],
               redis     |-> IF redis THEN "ok" ELSE "unavailable" ]
  <1>1. Loaded(d) /\ d.topology.redis = redis /\ d.topology.rows = rows
    BY Answered
  <1>2. d.topology.services = [s \in Services |->
           [healthy |-> CountOf(rows, s), total |-> Cardinality(Of(s))]]
    BY Answered
  <1> QED
    BY <1>1, <1>2 DEF ServicesPage

\* What the topology card shows of it.
LEMMA CardShown ==
    ASSUME NEW d, NEW redis \in BOOLEAN, NEW rows \in [Instances -> Rows],
           d.topology = TopologyOf(redis, rows)
    PROVE  /\ TopologyCard(d, TRUE).services = [s \in Services |->
                 ServiceDot([healthy |-> CountOf(rows, s), total |-> Cardinality(Of(s))])]
           /\ TopologyCard(d, TRUE).instances = [i \in Of(Fanned) |-> StatusDot(rows[i])]
  <1>1. Loaded(d) /\ d.topology.rows = rows
    BY Answered
  <1>2. d.topology.services = [s \in Services |->
           [healthy |-> CountOf(rows, s), total |-> Cardinality(Of(s))]]
    BY Answered
  <1> QED
    BY <1>1, <1>2 DEF TopologyCard

\* Badge, dot and rows of a service say the same.
LEMMA ServicesAgree ==
    ASSUME NEW s \in Services, NEW rows \in [Instances -> Rows],
           NEW svc, svc = [healthy |-> CountOf(rows, s), total |-> Cardinality(Of(s))]
    PROVE  /\ HealthBadge(svc) = "Healthy" <=> \A i \in Of(s) : rows[i].healthy
           /\ HealthBadge(svc) = "Unhealthy" <=> \A i \in Of(s) : ~rows[i].healthy
           /\ ServiceDot(svc) = "green" <=> HealthBadge(svc) = "Healthy"
           /\ ServiceDot(svc) = "red" <=> HealthBadge(svc) = "Unhealthy"
  <1>1. /\ CountOf(rows, s) \in Nat
        /\ Cardinality(Of(s)) \in Nat /\ Cardinality(Of(s)) > 0
        /\ CountOf(rows, s) = Cardinality(Of(s)) <=> \A i \in Of(s) : rows[i].healthy
        /\ CountOf(rows, s) > 0 <=> \E i \in Of(s) : rows[i].healthy
    BY ServiceCounts
  <1>2. svc.healthy = CountOf(rows, s) /\ svc.total = Cardinality(Of(s))
    OBVIOUS
  <1>3. HealthBadge(svc) = "Healthy" <=> CountOf(rows, s) = Cardinality(Of(s))
    BY <1>1, <1>2 DEF HealthBadge
  <1>4. HealthBadge(svc) = "Unhealthy" <=> ~(CountOf(rows, s) > 0)
    BY <1>1, <1>2 DEF HealthBadge
  <1>5. ServiceDot(svc) = "green" <=> CountOf(rows, s) = Cardinality(Of(s))
    BY <1>1, <1>2 DEF ServiceDot
  <1>6. ServiceDot(svc) = "red" <=> ~(CountOf(rows, s) > 0)
    BY <1>1, <1>2 DEF ServiceDot
  <1> QED
    BY <1>1, <1>3, <1>4, <1>5, <1>6

\* Dot and words of an instance say the same.
LEMMA InstancesAgree ==
    ASSUME NEW row \in Rows
    PROVE  /\ CurrentStatus(row) = "Down (health check failed)" <=> ~row.healthy
           /\ CurrentStatus(row) = "Degraded (breaker open)" <=>
                 row.healthy /\ row.circuit # "closed"
           /\ CurrentStatus(row) = "Serving traffic" <=>
                 row.healthy /\ row.circuit = "closed"
           /\ StatusDot(row) = "green" <=> CurrentStatus(row) = "Serving traffic"
           /\ StatusDot(row) = "amber" <=> CurrentStatus(row) = "Degraded (breaker open)"
  <1>1. row.healthy \in BOOLEAN
    BY DEF Rows
  <1>2. CASE ~row.healthy
    BY <1>2 DEF CurrentStatus, StatusDot
  <1>3. CASE row.healthy /\ row.circuit = "closed"
    BY <1>3 DEF CurrentStatus, StatusDot
  <1>4. CASE row.healthy /\ row.circuit # "closed"
    BY <1>4 DEF CurrentStatus, StatusDot
  <1> QED
    BY <1>1, <1>2, <1>3, <1>4

\* Every breaker is counted once, as closed or as not, and the degraded rows are
\* among the latter.
LEMMA BreakersCounted ==
    ASSUME NEW rows \in [Instances -> Rows],
           NEW degraded \in SUBSET Instances,
           \A i \in degraded : rows[i].circuit # "closed",
           NEW closed, closed = {i \in Instances : rows[i].circuit \in {"closed"}},
           NEW other, other = {i \in Instances : rows[i].circuit \in {"open", "half_open"}}
    PROVE  /\ Cardinality(closed) + Cardinality(other) = Cardinality(Instances)
           /\ Cardinality(degraded) <= Cardinality(other)
  <1>1. IsFiniteSet(Instances)
    BY ViewsAssumption DEF ViewsAssumption
  <1>2. \A i \in Instances : rows[i].circuit \in {"closed", "half_open", "open"}
    BY DEF Rows, Circuits
  <1>3. closed \cup other = Instances /\ closed \cap other = {}
    BY <1>2
  <1>4. degraded \subseteq other
    BY <1>2
  <1>5. closed \in SUBSET Instances /\ other \in SUBSET Instances
    OBVIOUS
  <1>6. IsFiniteSet(closed) /\ IsFiniteSet(other)
    BY <1>1, <1>5, FS_Subset
  <1>7. /\ Cardinality(closed \cup other)
             = Cardinality(closed) + Cardinality(other) - Cardinality(closed \cap other)
    BY <1>6, FS_Union
  <1>8. Cardinality(closed \cap other) = 0
    BY <1>3, FS_EmptySet
  <1>9. Cardinality(closed) \in Nat /\ Cardinality(other) \in Nat
    BY <1>6, FS_CardinalityType
  <1>10. Cardinality(degraded) <= Cardinality(other)
    BY <1>4, <1>6, FS_Subset
  <1>11. Cardinality(Instances)
            = Cardinality(closed) + Cardinality(other) - Cardinality(closed \cap other)
    BY <1>3, <1>7
  <1> QED
    BY <1>8, <1>9, <1>10, <1>11

\* The pages of a topology agree.
LEMMA TopologiesAgree ==
    ASSUME NEW redis \in BOOLEAN, NEW rows \in [Instances -> Rows],
           data.topology = TopologyOf(redis, rows)
    PROVE  PagesAgree
  <1> DEFINE page == ServicesPage(data)
             card == TopologyCard(data, TRUE)
             circuits == CircuitBreakerTable(data)
             counts == CircuitBreakersPage(data)
             Shown(word) == {i \in Instances : page.instances[i] = word}
             svc(s) == [healthy |-> CountOf(rows, s), total |-> Cardinality(Of(s))]
  <1>1. data.topology = TopologyOf(redis, rows)
    OBVIOUS
  <1> HIDE DEF page, card, circuits, counts, svc
  <1>2. \A s \in Services : svc(s) = [healthy |-> CountOf(rows, s), total |-> Cardinality(Of(s))]
    BY DEF svc
  <1>3. /\ HeaderStatus(data) =
              IF redis /\ \A i \in Instances : rows[i].healthy THEN "Operational" ELSE "Degraded"
        /\ SidebarStatus(data)[1] = HeaderStatus(data)
    BY <1>1, StatusShown
  <1>4. /\ page.services = [s \in Services |-> HealthBadge(svc(s))]
        /\ page.instances = [i \in Instances |-> CurrentStatus(rows[i])]
        /\ page.redis = IF redis THEN "ok" ELSE "unavailable"
    <2>1. page = [ services  |-> [s \in Services |->
                      HealthBadge([healthy |-> CountOf(rows, s), total |-> Cardinality(Of(s))])],
                   instances |-> [i \in Instances |-> CurrentStatus(rows[i])],
                   redis     |-> IF redis THEN "ok" ELSE "unavailable" ]
      BY <1>1, ServicesShown DEF page
    <2> QED
      BY <1>2, <2>1
  <1>5. /\ card.services = [s \in Services |-> ServiceDot(svc(s))]
        /\ card.instances = [i \in Of(Fanned) |-> StatusDot(rows[i])]
    <2>1. /\ card.services = [s \in Services |->
               ServiceDot([healthy |-> CountOf(rows, s), total |-> Cardinality(Of(s))])]
          /\ card.instances = [i \in Of(Fanned) |-> StatusDot(rows[i])]
      BY <1>1, CardShown DEF card
    <2> QED
      BY <1>2, <2>1
  <1>6. Loaded(data) /\ data.topology.rows = rows
    BY <1>1, Answered
  <1>7. circuits = [i \in Instances |-> rows[i].circuit]
    BY <1>6 DEF circuits, CircuitBreakerTable
  <1>8. /\ counts.closed = Cardinality({i \in Instances : rows[i].circuit \in {"closed"}})
        /\ counts.other = Cardinality({i \in Instances : rows[i].circuit \in {"open", "half_open"}})
        /\ counts.rows = Cardinality(Instances)
    BY <1>6 DEF counts, CircuitBreakersPage
  <1>9. \A s \in Services :
           /\ page.services[s] = "Healthy" <=> \A i \in Of(s) : rows[i].healthy
           /\ page.services[s] = "Unhealthy" <=> \A i \in Of(s) : ~rows[i].healthy
           /\ page.services[s] = "Healthy" <=> card.services[s] = "green"
           /\ page.services[s] = "Unhealthy" <=> card.services[s] = "red"
    <2> TAKE s \in Services
    <2>1. page.services[s] = HealthBadge(svc(s)) /\ card.services[s] = ServiceDot(svc(s))
      BY <1>4, <1>5
    <2>2. svc(s) = [healthy |-> CountOf(rows, s), total |-> Cardinality(Of(s))]
      BY DEF svc
    <2> QED
      BY <2>1, <2>2, ServicesAgree
  <1>10. \A i \in Instances :
           /\ page.instances[i] = "Down (health check failed)" <=> ~rows[i].healthy
           /\ page.instances[i] = "Degraded (breaker open)" =>
                 rows[i].healthy /\ rows[i].circuit # "closed"
           /\ StatusDot(rows[i]) = "green" <=> page.instances[i] = "Serving traffic"
           /\ StatusDot(rows[i]) = "amber" <=> page.instances[i] = "Degraded (breaker open)"
    <2> TAKE i \in Instances
    <2>1. rows[i] \in Rows /\ page.instances[i] = CurrentStatus(rows[i])
      BY <1>4
    <2> QED
      BY <2>1, InstancesAgree
  <1>11. \A i \in Instances : \E s \in Services : i \in Of(s)
    BY DEF Services, Of
  <1>12. \A s \in Services : Of(s) \subseteq Instances
    BY DEF Of
  <1>13. HeaderStatus(data) = SidebarStatus(data)[1]
    BY <1>3
  <1>14. HeaderStatus(data) = "Operational" <=>
           page.redis = "ok" /\ \A s \in Services : page.services[s] = "Healthy"
    <2>1. (\A i \in Instances : rows[i].healthy) <=>
             \A s \in Services : \A i \in Of(s) : rows[i].healthy
      BY <1>11, <1>12
    <2>2. (\A s \in Services : page.services[s] = "Healthy") <=>
             \A s \in Services : \A i \in Of(s) : rows[i].healthy
      BY <1>9
    <2>3. page.redis = "ok" <=> redis
      BY <1>4
    <2>4. HeaderStatus(data) = "Operational" <=> redis /\ \A i \in Instances : rows[i].healthy
      BY <1>3
    <2> QED
      BY <2>1, <2>2, <2>3, <2>4
  <1>15. \A s \in Services :
            /\ page.services[s] = "Healthy" <=> card.services[s] = "green"
            /\ page.services[s] = "Unhealthy" <=> card.services[s] = "red"
            /\ page.services[s] = "Unhealthy" <=> Of(s) \subseteq Shown("Down (health check failed)")
    <2> TAKE s \in Services
    <2>1. Of(s) \subseteq Shown("Down (health check failed)") <=> \A i \in Of(s) : ~rows[i].healthy
      BY <1>10, <1>12
    <2> QED
      BY <1>9, <2>1
  <1>16. \A i \in Of(Fanned) :
            /\ card.instances[i] = "green" <=> page.instances[i] = "Serving traffic"
            /\ card.instances[i] = "amber" <=> page.instances[i] = "Degraded (breaker open)"
    <2> TAKE i \in Of(Fanned)
    <2>1. i \in Instances /\ card.instances[i] = StatusDot(rows[i])
      BY <1>5 DEF Of
    <2> QED
      BY <1>10, <2>1
  <1>17. /\ counts.closed + counts.other = counts.rows
         /\ Cardinality(Shown("Degraded (breaker open)")) <= counts.other
    <2>1. /\ Shown("Degraded (breaker open)") \in SUBSET Instances
          /\ \A i \in Shown("Degraded (breaker open)") : rows[i].circuit # "closed"
      BY <1>10
    <2> DEFINE degraded == Shown("Degraded (breaker open)")
               closed == {i \in Instances : rows[i].circuit \in {"closed"}}
               other == {i \in Instances : rows[i].circuit \in {"open", "half_open"}}
    <2>2. degraded \in SUBSET Instances /\ \A i \in degraded : rows[i].circuit # "closed"
      BY <2>1
    <2>3. counts.closed = Cardinality(closed) /\ counts.other = Cardinality(other)
      BY <1>8
    <2> HIDE DEF Shown
    <2>4. /\ Cardinality(closed) + Cardinality(other) = Cardinality(Instances)
          /\ Cardinality(degraded) <= Cardinality(other)
      <3> HIDE DEF degraded
      <3> QED
        BY <2>2, BreakersCounted
    <2> HIDE DEF closed, other
    <2> QED
      BY <1>8, <2>3, <2>4 DEF degraded
  <1>18. counts.closed = Cardinality({i \in Instances : circuits[i] = "closed"})
    <2>1. {i \in Instances : rows[i].circuit \in {"closed"}} = {i \in Instances : circuits[i] = "closed"}
      BY <1>7
    <2> QED
      BY <1>8, <2>1
  <1> QED
    BY <1>13, <1>14, <1>15, <1>16, <1>17, <1>18
       DEF PagesAgree, page, card, circuits, counts

\* Whatever the topology endpoint answered last.
LEMMA InvariantPages == IInv => PagesAgree
  <1> SUFFICES ASSUME IInv PROVE PagesAgree
    OBVIOUS
  <1>1. CASE data.topology = NoTopology
    BY <1>1 DEF PagesAgree, Loaded
  <1>2. CASE \E redis \in BOOLEAN, rows \in [Instances -> Rows] :
                data.topology = TopologyOf(redis, rows)
    BY <1>2, TopologiesAgree
  <1> QED
    BY <1>1, <1>2 DEF IInv, Topologies

-----------------------------------------------------------------------------
(* The invariant. *)

\* What the environment makes of a world is a world.
LEMMA WorldsChange ==
    ASSUME NEW w \in Worlds
    PROVE  /\ [w EXCEPT !.prometheus = ~@] \in Worlds
           /\ [w EXCEPT !.redis = ~@] \in Worlds
           /\ [w EXCEPT !.gateway = ~@] \in Worlds
           /\ [w EXCEPT !.gateway = TRUE, !.rows = Fresh, !.counters = {}] \in Worlds
           /\ \A c \in SUBSET Counters : [w EXCEPT !.counters = c] \in Worlds
           /\ \A h \in Helds : [w EXCEPT !.held = h] \in Worlds
           /\ \A c \in SUBSET Counters, h \in Helds :
                 [w EXCEPT !.counters = c, !.held = h] \in Worlds
           /\ \A r \in [Instances -> TrueRow] : [w EXCEPT !.rows = r] \in Worlds
  <1>1. Fresh \in [Instances -> TrueRow]
    BY DEF Fresh, Circuits, TrueRow
  <1>2. /\ [w EXCEPT !.prometheus = ~@] \in Worlds
        /\ [w EXCEPT !.redis = ~@] \in Worlds
        /\ [w EXCEPT !.gateway = ~@] \in Worlds
    BY DEF Worlds
  <1>3. [w EXCEPT !.gateway = TRUE, !.rows = Fresh, !.counters = {}] \in Worlds
    BY <1>1 DEF Worlds
  <1>4. /\ \A c \in SUBSET Counters : [w EXCEPT !.counters = c] \in Worlds
        /\ \A h \in Helds : [w EXCEPT !.held = h] \in Worlds
        /\ \A c \in SUBSET Counters, h \in Helds :
              [w EXCEPT !.counters = c, !.held = h] \in Worlds
        /\ \A r \in [Instances -> TrueRow] : [w EXCEPT !.rows = r] \in Worlds
    BY DEF Worlds
  <1> QED
    BY <1>2, <1>3, <1>4

\* A change of one instance's row.
LEMMA RowsChange ==
    ASSUME NEW w \in Worlds, NEW i \in Instances
    PROVE  /\ [w EXCEPT !.rows[i].healthy = ~@] \in Worlds
           /\ \A c \in Circuits \cup {"rested"}, f \in BOOLEAN :
                 [w EXCEPT !.rows[i].circuit = c, !.rows[i].failures = f] \in Worlds
  <1>1. w.rows \in [Instances -> TrueRow] /\ w.rows[i] \in TrueRow
    BY DEF Worlds
  <1>2. /\ [w.rows[i] EXCEPT !.healthy = ~@] \in TrueRow
        /\ \A c \in Circuits \cup {"rested"}, f \in BOOLEAN :
              [w.rows[i] EXCEPT !.circuit = c, !.failures = f] \in TrueRow
    BY <1>1 DEF TrueRow
  <1>3. \A r \in TrueRow : [w EXCEPT !.rows = [w.rows EXCEPT ![i] = r]] \in Worlds
    <2>1. \A r \in TrueRow : [w.rows EXCEPT ![i] = r] \in [Instances -> TrueRow]
      BY <1>1
    <2> QED
      BY <2>1, WorldsChange
  <1>4. [w EXCEPT !.rows[i].healthy = ~@]
           = [w EXCEPT !.rows = [w.rows EXCEPT ![i] = [w.rows[i] EXCEPT !.healthy = ~@]]]
    BY <1>1 DEF Worlds
  <1>5. [w EXCEPT !.rows[i].healthy = ~@] \in Worlds
    BY <1>2, <1>3, <1>4
  <1>6. ASSUME NEW c \in Circuits \cup {"rested"}, NEW f \in BOOLEAN
        PROVE  [w EXCEPT !.rows[i].circuit = c, !.rows[i].failures = f] \in Worlds
    <2>1. [w.rows[i] EXCEPT !.circuit = c, !.failures = f] \in TrueRow
      BY <1>2
    <2>2. [w EXCEPT !.rows = [w.rows EXCEPT ![i] =
              [w.rows[i] EXCEPT !.circuit = c, !.failures = f]]] \in Worlds
      BY <1>3, <2>1
    <2>3. [w EXCEPT !.rows[i].circuit = c, !.rows[i].failures = f]
             = [w EXCEPT !.rows = [w.rows EXCEPT ![i] =
                   [w.rows[i] EXCEPT !.circuit = c, !.failures = f]]]
      BY <1>1 DEF Worlds, TrueRow
    <2> QED
      BY <2>2, <2>3
  <1> QED
    BY <1>5, <1>6

\* A breaker's state replaced in its row.
LEMMA StateChanges ==
    ASSUME NEW w \in Worlds, NEW i \in Instances, NEW c \in Circuits \cup {"rested"}
    PROVE  /\ [w EXCEPT !.rows[i].circuit = c] \in Worlds
           /\ [w EXCEPT !.rows[i].circuit = c].rows[i].circuit = c
  <1> DEFINE r == [w.rows[i] EXCEPT !.circuit = c]
             v == [w EXCEPT !.rows = [w.rows EXCEPT ![i] = r]]
  <1>1. w.rows \in [Instances -> TrueRow] /\ w.rows[i] \in TrueRow
    BY DEF Worlds
  <1>2. r \in TrueRow /\ r.circuit = c
    BY <1>1 DEF TrueRow
  <1>3. [w EXCEPT !.rows[i].circuit = c] = v
    BY <1>1 DEF Worlds
  <1> HIDE DEF r
  <1>4. [w.rows EXCEPT ![i] = r] \in [Instances -> TrueRow]
    BY <1>1, <1>2
  <1>5. v \in Worlds
    BY <1>4, WorldsChange
  <1>6. v.rows[i] = r
    BY <1>1 DEF Worlds
  <1> HIDE DEF v
  <1> QED
    BY <1>2, <1>3, <1>5, <1>6

\* What a scrape, or the lack of one, makes of what Prometheus holds.
LEMMA HeldsChange ==
    ASSUME NEW h \in Helds
    PROVE  /\ Nothing \in Helds
           /\ [h EXCEPT !.target = "down", !.series = {}] \in Helds
           /\ \A r \in Rates : [h EXCEPT !.rate = r] \in Helds
           /\ \A c \in SUBSET Counters : \A r \in RatesAfter(h.rate, c) :
                 [target |-> "up", series |-> c \ {"5xx"}, rate |-> r] \in Helds
  <1>1. /\ Nothing \in Helds
        /\ [h EXCEPT !.target = "down", !.series = {}] \in Helds
        /\ \A r \in Rates : [h EXCEPT !.rate = r] \in Helds
    BY DEF Helds, Nothing, Targets, Rates, Counters
  <1>2. \A c : \A r \in RatesAfter(h.rate, c) : r \in Rates
    BY DEF Helds, RatesAfter, Rates
  <1> QED
    BY <1>1, <1>2 DEF Helds, Targets

\* To see one world more is to have seen no less.
LEMMA SawMore ==
    ASSUME NEW seen \in Seens, NEW w \in Worlds, NEW more, more = Saw(seen, w)
    PROVE  /\ more \in Seens /\ Includes(more, w)
           /\ seen.redis \subseteq more.redis
           /\ \A i \in Instances : seen.rows[i] \subseteq more.rows[i]
  <1>1. /\ seen.redis \in SUBSET BOOLEAN /\ seen.held \in SUBSET Helds
        /\ \A i \in Instances : seen.rows[i] \in SUBSET TrueRow
        /\ w.redis \in BOOLEAN /\ w.held \in Helds
        /\ \A i \in Instances : w.rows[i] \in TrueRow
    BY DEF Seens, Worlds
  <1>2. /\ more.redis = seen.redis \cup {w.redis}
        /\ more.rows = [i \in Instances |-> seen.rows[i] \cup {w.rows[i]}]
        /\ more.held = IF w.prometheus THEN seen.held \cup {w.held} ELSE seen.held
        /\ more = [redis |-> more.redis, rows |-> more.rows, held |-> more.held]
    BY DEF Saw
  <1>3. /\ more.redis \in SUBSET BOOLEAN
        /\ more.rows \in [Instances -> SUBSET TrueRow]
        /\ more.held \in SUBSET Helds
    BY <1>1, <1>2
  <1>4. more \in Seens
    BY <1>2, <1>3 DEF Seens
  <1> QED
    BY <1>2, <1>4 DEF Includes

\* A row that was so stays so.
LEMMA RowStaysSeen ==
    ASSUME NEW row, NEW rows, NEW more, rows \subseteq more, RowSeen(row, rows)
    PROVE  RowSeen(row, more)
  BY DEF RowSeen

\* Listing names instances.
LEMMA ListingNames == \A k \in 1..Len(Listing) : Listing[k] \in Instances
  BY ConsoleAssumption DEF ConsoleAssumption

\* A load in flight is not the absence of one.
LEMMA InFlight ==
    ASSUME NEW l, Honest(l)
    PROVE  l # NoLoad
  <1>1. l = [seen |-> l.seen, rateLimit |-> l.rateLimit, redis |-> l.redis, rows |-> l.rows]
    BY DEF Honest
  <1>2. "rows" \in DOMAIN l
    BY <1>1
  <1>3. "rows" \notin DOMAIN NoLoad
    BY DEF NoLoad
  <1> QED
    BY <1>2, <1>3

\* The parts of a load.
LEMMA HonestParts ==
    ASSUME NEW l, Honest(l)
    PROVE  /\ l.seen \in Seens
           /\ l.rateLimit # Unread => \E b \in l.seen.redis : l.rateLimit \in HeadersIn(b)
           /\ l.redis # Unread => /\ l.rateLimit # Unread
                                  /\ \E b \in l.seen.redis : l.redis = <<b>>
           /\ l.rows # << >> => l.redis # Unread
           /\ l.rows \in Seq(ReadRow) /\ Len(l.rows) \in Nat /\ Len(l.rows) <= Len(Listing)
           /\ DOMAIN l.rows = 1..Len(l.rows)
           /\ \A k \in 1..Len(l.rows) :
                 /\ l.rows[k] \in ReadRow /\ Listing[k] \in Instances
                 /\ RowSeen(l.rows[k], l.seen.rows[Listing[k]])
                 /\ k < Len(l.rows) => l.rows[k].failures # Unread
  <1>1. l.rows \in Seq(ReadRow) /\ Len(l.rows) <= Len(Listing)
    BY DEF Honest
  <1>2. /\ Len(l.rows) \in Nat /\ DOMAIN l.rows = 1..Len(l.rows)
        /\ \A k \in 1..Len(l.rows) : l.rows[k] \in ReadRow
    BY <1>1
  <1>3. Len(Listing) \in Nat
    BY ConsoleAssumption DEF ConsoleAssumption
  <1>4. \A k \in 1..Len(l.rows) : Listing[k] \in Instances
    BY <1>1, <1>2, <1>3, ListingNames
  <1> QED
    BY <1>1, <1>2, <1>4 DEF Honest

\* A load that lives to see one world more is as honest as before.
LEMMA SeesMore ==
    ASSUME NEW l, Honest(l), NEW w \in Worlds, NEW m, m = [l EXCEPT !.seen = Saw(@, w)]
    PROVE  Honest(m) /\ Includes(m.seen, w)
  <1>1. l = [seen |-> l.seen, rateLimit |-> l.rateLimit, redis |-> l.redis, rows |-> l.rows]
    BY DEF Honest
  <1>2. m = [seen |-> Saw(l.seen, w), rateLimit |-> l.rateLimit, redis |-> l.redis,
             rows |-> l.rows]
    BY <1>1
  <1>3. /\ m.seen = Saw(l.seen, w) /\ m.rateLimit = l.rateLimit /\ m.redis = l.redis
        /\ m.rows = l.rows
    BY <1>2
  <1>4. /\ l.seen \in Seens
        /\ l.rateLimit # Unread => \E b \in l.seen.redis : l.rateLimit \in HeadersIn(b)
        /\ l.redis # Unread => /\ l.rateLimit # Unread
                               /\ \E b \in l.seen.redis : l.redis = <<b>>
        /\ l.rows # << >> => l.redis # Unread
        /\ l.rows \in Seq(ReadRow) /\ Len(l.rows) <= Len(Listing)
        /\ \A k \in 1..Len(l.rows) :
              /\ Listing[k] \in Instances
              /\ RowSeen(l.rows[k], l.seen.rows[Listing[k]])
              /\ k < Len(l.rows) => l.rows[k].failures # Unread
    BY HonestParts
  <1>5. /\ m.seen \in Seens /\ Includes(m.seen, w) /\ l.seen.redis \subseteq m.seen.redis
        /\ \A i \in Instances : l.seen.rows[i] \subseteq m.seen.rows[i]
    BY <1>3, <1>4, SawMore
  <1>6. \A k \in 1..Len(m.rows) :
           /\ RowSeen(m.rows[k], m.seen.rows[Listing[k]])
           /\ k < Len(m.rows) => m.rows[k].failures # Unread
    <2> TAKE k \in 1..Len(m.rows)
    <2>1. RowSeen(m.rows[k], l.seen.rows[Listing[k]]) /\ Listing[k] \in Instances
      BY <1>3, <1>4
    <2>2. RowSeen(m.rows[k], m.seen.rows[Listing[k]])
      BY <1>5, <2>1, RowStaysSeen
    <2> QED
      BY <1>3, <1>4, <2>2
  <1>7. m = [seen |-> m.seen, rateLimit |-> m.rateLimit, redis |-> m.redis, rows |-> m.rows]
    BY <1>2, <1>3
  <1>8. /\ m.rateLimit # Unread => \E b \in m.seen.redis : m.rateLimit \in HeadersIn(b)
        /\ m.redis # Unread => /\ m.rateLimit # Unread
                               /\ \E b \in m.seen.redis : m.redis = <<b>>
        /\ m.rows # << >> => m.redis # Unread
        /\ m.rows \in Seq(ReadRow) /\ Len(m.rows) <= Len(Listing)
    BY <1>3, <1>4, <1>5
  <1> QED
    BY <1>5, <1>6, <1>7, <1>8 DEF Honest

\* What is in the load in flight depends on nothing else.
LEMMA LoadKeeps ==
    ASSUME IInv, world' \in Worlds, UNCHANGED data,
           Includes(load'.seen, world'), Honest(load')
    PROVE  IInv' /\ load' # NoLoad
  <1>1. load' # NoLoad
    BY InFlight
  <1>2. Honest(load)' /\ Includes(load.seen, world)'
    BY DEF Honest, RowSeen, Includes
  <1> QED
    BY <1>1, <1>2 DEF IInv, Shape, Topologies

\* A step of the environment keeps the invariant and the load.
LEMMA BecomesKeeps ==
    ASSUME IInv, NEW w \in Worlds, Becomes(w)
    PROVE  IInv' /\ (load # NoLoad => load' # NoLoad)
  <1>1. world' = w /\ world' \in Worlds /\ data' = data
    BY DEF Becomes
  <1>2. CASE load = NoLoad
    <2>1. load' = NoLoad
      BY <1>2 DEF Becomes
    <2> QED
      BY <1>1, <1>2, <2>1 DEF IInv, Shape, Topologies
  <1>3. CASE load # NoLoad
    <2>1. load' = [load EXCEPT !.seen = Saw(@, w)] /\ Honest(load)
      BY <1>3 DEF Becomes, IInv
    <2>2. Honest(load') /\ Includes(load'.seen, w)
      BY <2>1, SeesMore
    <2> QED
      BY <1>1, <2>2, LoadKeeps
  <1> QED
    BY <1>2, <1>3

\* The parts of a breaker's successors.
LEMMA SuccessorParts ==
    ASSUME NEW circuit \in Circuits \cup {"rested"}
    PROVE  \A b \in Successors(circuit) : b[1] \in Circuits /\ b[2] \in BOOLEAN
  <1> DEFINE all == {<<"closed", FALSE>>, <<"closed", TRUE>>, <<"open", TRUE>>,
                     <<"half_open", TRUE>>}
  <1>1. /\ Successors("open") = {}
        /\ Successors("rested") = {<<"half_open", TRUE>>}
        /\ Successors("closed") = {<<"closed", FALSE>>, <<"closed", TRUE>>, <<"open", TRUE>>}
        /\ Successors("half_open") = {<<"closed", FALSE>>, <<"open", TRUE>>}
    BY DEF Successors
  <1>2. Successors(circuit) \subseteq all
    <2>1. CASE circuit = "closed"
      BY <1>1, <2>1
    <2>2. CASE circuit = "half_open"
      BY <1>1, <2>2
    <2>3. CASE circuit = "open"
      BY <1>1, <2>3
    <2>4. CASE circuit = "rested"
      BY <1>1, <2>4
    <2> QED
      BY <2>1, <2>2, <2>3, <2>4 DEF Circuits
  <1>3. \A b \in all : b[1] \in Circuits /\ b[2] \in BOOLEAN
    <2>1. \A c \in Circuits, f \in BOOLEAN :
             LET b == <<c, f>> IN b[1] \in Circuits /\ b[2] \in BOOLEAN
      OBVIOUS
    <2> QED
      BY <2>1 DEF Circuits
  <1> QED
    BY <1>2, <1>3

\* Whatever the environment does.
LEMMA EnvironmentKeeps ==
    ASSUME IInv, Environment
    PROVE  IInv' /\ (load # NoLoad => load' # NoLoad)
  <1>1. world \in Worlds /\ world.counters \in SUBSET Counters /\ world.held \in Helds
    BY DEF IInv, Worlds
  <1>2. ASSUME \E w \in Worlds : Becomes(w)
        PROVE  IInv' /\ (load # NoLoad => load' # NoLoad)
    BY <1>2, BecomesKeeps
  <1>3. CASE Toggle
    <2>1. \E w \in Worlds : Becomes(w)
      BY <1>1, <1>3, WorldsChange DEF Toggle
    <2> QED
      BY <1>2, <2>1
  <1>4. CASE Restart
    <2>1. \E w \in Worlds : Becomes(w)
      BY <1>1, <1>4, WorldsChange DEF Restart
    <2> QED
      BY <1>2, <2>1
  <1>5. CASE Serve
    <2>1. PICK what \in Outcomes :
             Becomes([world EXCEPT !.counters = @ \cup {"http"} \cup what])
      BY <1>5 DEF Serve
    <2>2. world.counters \cup {"http"} \cup what \in SUBSET Counters
      BY <1>1 DEF Outcomes, Counters
    <2>3. [world EXCEPT !.counters = @ \cup {"http"} \cup what] \in Worlds
      BY <1>1, <2>2, WorldsChange
    <2> QED
      BY <1>2, <2>1, <2>3
  <1>6. CASE Scrape
    <2>1. CASE world.gateway
      <3>1. PICK rate \in RatesAfter(world.held.rate, world.counters) :
               Becomes([world EXCEPT !.counters = (@ \ {"5xx"}) \cup {"http"},
                           !.held = [target |-> "up", series |-> world.counters \ {"5xx"},
                                     rate |-> rate]])
        BY <1>6, <2>1 DEF Scrape
      <3>2. (world.counters \ {"5xx"}) \cup {"http"} \in SUBSET Counters
        BY <1>1 DEF Counters
      <3>3. [target |-> "up", series |-> world.counters \ {"5xx"}, rate |-> rate] \in Helds
        BY <1>1, HeldsChange
      <3>4. \E w \in Worlds : Becomes(w)
        BY <1>1, <3>1, <3>2, <3>3, WorldsChange
      <3> QED
        BY <1>2, <3>4
    <2>2. CASE ~world.gateway
      <3>1. Becomes([world EXCEPT !.held = [@ EXCEPT !.target = "down", !.series = {}]])
        BY <1>6, <2>2 DEF Scrape
      <3>2. [world.held EXCEPT !.target = "down", !.series = {}] \in Helds
        BY <1>1, HeldsChange
      <3>3. \E w \in Worlds : Becomes(w)
        BY <1>1, <3>1, <3>2, WorldsChange
      <3> QED
        BY <1>2, <3>3
    <2> QED
      BY <2>1, <2>2
  <1>7. CASE Age
    <2>1. \E h \in Helds : Becomes([world EXCEPT !.held = h])
      BY <1>1, <1>7, HeldsChange DEF Age, Rates
    <2>2. \E w \in Worlds : Becomes(w)
      BY <1>1, <2>1, WorldsChange
    <2> QED
      BY <1>2, <2>2
  <1>8. ASSUME NEW i \in Instances, Probe(i)
        PROVE  IInv' /\ (load # NoLoad => load' # NoLoad)
    <2>1. \E w \in Worlds : Becomes(w)
      BY <1>1, <1>8, RowsChange DEF Probe
    <2> QED
      BY <1>2, <2>1
  <1>9. ASSUME NEW i \in Instances, Break(i)
        PROVE  IInv' /\ (load # NoLoad => load' # NoLoad)
    <2>1. world.rows[i].circuit \in Circuits \cup {"rested"}
      BY <1>1 DEF Worlds, TrueRow
    <2>2. \A b \in Successors(world.rows[i].circuit) : b[1] \in Circuits /\ b[2] \in BOOLEAN
      BY <2>1, SuccessorParts
    <2>3. PICK b \in Successors(world.rows[i].circuit) :
             Becomes([world EXCEPT !.rows[i].circuit = b[1], !.rows[i].failures = b[2]])
      BY <1>9 DEF Break
    <2> DEFINE c == b[1]
               f == b[2]
    <2>4. c \in Circuits \cup {"rested"} /\ f \in BOOLEAN
      BY <2>2
    <2>5. Becomes([world EXCEPT !.rows[i].circuit = c, !.rows[i].failures = f])
      BY <2>3
    <2> HIDE DEF c, f
    <2>6. [world EXCEPT !.rows[i].circuit = c, !.rows[i].failures = f] \in Worlds
      BY <1>1, <2>4, RowsChange
    <2> QED
      BY <1>2, <2>5, <2>6
  <1>10. ASSUME NEW i \in Instances, Rest(i)
         PROVE  IInv' /\ (load # NoLoad => load' # NoLoad)
    <2>1. \E w \in Worlds : Becomes(w)
      BY <1>1, <1>10, StateChanges DEF Rest
    <2> QED
      BY <1>2, <2>1
  <1> QED
    BY <1>3, <1>4, <1>5, <1>6, <1>7, <1>8, <1>9, <1>10 DEF Environment

-----------------------------------------------------------------------------
(* A load. *)

\* It begins.
LEMMA StartKeeps ==
    ASSUME IInv, Start
    PROVE  IInv'
  <1>1. /\ world' = world /\ world \in Worlds /\ data' = data /\ load' = Asked
    BY DEF Start, IInv
  <1>2. load' = [seen |-> Saw(NoneSeen, world), rateLimit |-> Unread, redis |-> Unread,
                 rows |-> << >>]
    BY <1>1 DEF Asked
  <1>3. /\ load'.seen = Saw(NoneSeen, world) /\ load'.rateLimit = Unread
        /\ load'.redis = Unread /\ load'.rows = << >>
        /\ load' = [seen |-> load'.seen, rateLimit |-> load'.rateLimit,
                    redis |-> load'.redis, rows |-> load'.rows]
    BY <1>2
  <1>4. NoneSeen \in Seens
    BY DEF NoneSeen, Seens
  <1>5. load'.seen \in Seens /\ Includes(load'.seen, world')
    BY <1>1, <1>3, <1>4, SawMore
  <1>6. << >> \in Seq(ReadRow) /\ Len(<< >>) = 0 /\ Len(Listing) \in Nat
    BY ConsoleAssumption DEF ConsoleAssumption
  <1>7. Honest(load')
    BY <1>3, <1>5, <1>6 DEF Honest
  <1> QED
    BY <1>1, <1>5, <1>7, LoadKeeps

\* The headers arrive.
LEMMA HeadersKeep ==
    ASSUME IInv, ReadHeaders
    PROVE  IInv' /\ load' # NoLoad
  <1>1. load # NoLoad /\ Includes(load.seen, world) /\ Honest(load)
    BY DEF ReadHeaders, Reading, IInv
  <1>2. PICK h \in HeadersIn(world.redis) : load' = [load EXCEPT !.rateLimit = h]
    BY DEF ReadHeaders, HeadersIn
  <1>3. load = [seen |-> load.seen, rateLimit |-> load.rateLimit, redis |-> load.redis,
                rows |-> load.rows]
    BY <1>1 DEF Honest
  <1>4. load' = [seen |-> load.seen, rateLimit |-> h, redis |-> load.redis, rows |-> load.rows]
    BY <1>2, <1>3
  <1>5. /\ load'.seen = load.seen /\ load'.rateLimit = h /\ load'.redis = load.redis
        /\ load'.rows = load.rows
    BY <1>4
  <1>6. h # Unread
    <2>1. h \in [limit : {Limit}, remaining : 0..(Limit - 1)]
              \cup {[limit |-> Null, remaining |-> Null]}
      BY <1>2 DEF HeadersIn, Headers, NoHeaders
    <2>2. DOMAIN h = {"limit", "remaining"}
      BY <2>1
    <2> QED
      BY <2>2 DEF Unread
  <1>7. world.redis \in load.seen.redis
    BY <1>1 DEF Includes
  <1>8. Honest(load')
    BY <1>1, <1>2, <1>4, <1>5, <1>6, <1>7 DEF Honest
  <1>9. world' = world /\ data' = data /\ world' \in Worlds
    BY DEF ReadHeaders, IInv
  <1> QED
    BY <1>1, <1>5, <1>8, <1>9, LoadKeeps

\* Redis is asked.
LEMMA PingKeeps ==
    ASSUME IInv, PingRedis
    PROVE  IInv' /\ load' # NoLoad
  <1>1. load # NoLoad /\ Includes(load.seen, world) /\ Honest(load) /\ load.rateLimit # Unread
    BY DEF PingRedis, Reading, IInv
  <1>2. load' = [load EXCEPT !.redis = <<world.redis>>]
    BY DEF PingRedis
  <1>3. load = [seen |-> load.seen, rateLimit |-> load.rateLimit, redis |-> load.redis,
                rows |-> load.rows]
    BY <1>1 DEF Honest
  <1>4. load' = [seen |-> load.seen, rateLimit |-> load.rateLimit, redis |-> <<world.redis>>,
                 rows |-> load.rows]
    BY <1>2, <1>3
  <1>5. /\ load'.seen = load.seen /\ load'.rateLimit = load.rateLimit
        /\ load'.redis = <<world.redis>> /\ load'.rows = load.rows
    BY <1>4
  <1>6. <<world.redis>> # Unread /\ world.redis \in load.seen.redis
    BY <1>1 DEF Unread, Includes
  <1>7. Honest(load')
    BY <1>1, <1>4, <1>5, <1>6 DEF Honest
  <1>8. world' = world /\ data' = data /\ world' \in Worlds
    BY DEF PingRedis, IInv
  <1> QED
    BY <1>1, <1>5, <1>7, <1>8, LoadKeeps

\* A load whose rows are others, as true as the ones before.
LEMMA OtherRows ==
    ASSUME NEW l, Honest(l), l.redis # Unread,
           NEW rows \in Seq(ReadRow), Len(rows) <= Len(Listing),
           \A k \in 1..Len(rows) :
              /\ RowSeen(rows[k], l.seen.rows[Listing[k]])
              /\ k < Len(rows) => rows[k].failures # Unread,
           NEW m, m = [l EXCEPT !.rows = rows]
    PROVE  Honest(m) /\ m.seen = l.seen
  <1>1. l = [seen |-> l.seen, rateLimit |-> l.rateLimit, redis |-> l.redis, rows |-> l.rows]
    BY DEF Honest
  <1>2. m = [seen |-> l.seen, rateLimit |-> l.rateLimit, redis |-> l.redis, rows |-> rows]
    BY <1>1
  <1>3. /\ m.seen = l.seen /\ m.rateLimit = l.rateLimit /\ m.redis = l.redis
        /\ m.rows = rows
        /\ m = [seen |-> m.seen, rateLimit |-> m.rateLimit, redis |-> m.redis,
                rows |-> m.rows]
    BY <1>2
  <1>4. /\ l.seen \in Seens
        /\ l.rateLimit # Unread => \E b \in l.seen.redis : l.rateLimit \in HeadersIn(b)
        /\ l.redis # Unread => /\ l.rateLimit # Unread
                               /\ \E b \in l.seen.redis : l.redis = <<b>>
    BY HonestParts
  <1> QED
    BY <1>3, <1>4 DEF Honest

\* A row is begun.
LEMMA HealthyKeeps ==
    ASSUME IInv, ReadHealthy
    PROVE  IInv' /\ load' # NoLoad
  <1> DEFINE n == Len(load.rows) + 1
             i == Listing[n]
             row == [healthy |-> world.rows[i].healthy, circuit |-> "unread",
                     failures |-> Unread]
             rows == Append(load.rows, row)
  <1>1. /\ load # NoLoad /\ Includes(load.seen, world) /\ Honest(load) /\ load.redis # Unread
        /\ Complete(load.rows) /\ Len(load.rows) < Len(Listing)
    BY DEF ReadHealthy, Reading, IInv
  <1>2. load' = [load EXCEPT !.rows = rows]
    BY <1>1 DEF ReadHealthy, Honest
  <1>3. /\ load.rows \in Seq(ReadRow) /\ Len(load.rows) \in Nat
        /\ DOMAIN load.rows = 1..Len(load.rows) /\ Len(Listing) \in Nat
    BY <1>1, HonestParts, ConsoleAssumption DEF ConsoleAssumption
  <1>4. i \in Instances /\ n \in Nat /\ n <= Len(Listing)
    BY <1>1, <1>3, ListingNames
  <1>5. row \in ReadRow /\ RowSeen(row, load.seen.rows[i])
    <2>1. world.rows[i] \in TrueRow /\ world.rows[i] \in load.seen.rows[i]
      BY <1>1, <1>4 DEF IInv, Worlds, Includes
    <2>2. row.healthy = world.rows[i].healthy /\ row.circuit = "unread"
          /\ row.failures = Unread /\ row.healthy \in BOOLEAN
      BY <2>1 DEF TrueRow
    <2>3. row \in ReadRow
      BY <2>2 DEF ReadRow
    <2> HIDE DEF row
    <2> QED
      BY <2>1, <2>2, <2>3 DEF RowSeen
  <1> HIDE DEF row
  <1>6. /\ rows \in Seq(ReadRow) /\ Len(rows) = n /\ rows[n] = row
        /\ \A k \in 1..Len(load.rows) : rows[k] = load.rows[k]
    BY <1>3, <1>5
  <1> HIDE DEF rows
  <1>7. \A k \in 1..Len(rows) :
            /\ RowSeen(rows[k], load.seen.rows[Listing[k]])
            /\ k < Len(rows) => rows[k].failures # Unread
    <2> TAKE k \in 1..Len(rows)
    <2>1. CASE k = n
      BY <1>4, <1>5, <1>6, <2>1
    <2>2. CASE k # n
      <3>1. k \in 1..Len(load.rows) /\ rows[k] = load.rows[k]
        BY <1>3, <1>6, <2>2
      <3>2. RowSeen(load.rows[k], load.seen.rows[Listing[k]])
        BY <1>1, <3>1, HonestParts
      <3>3. load.rows[k].failures # Unread
        BY <1>1, <1>3, <3>1 DEF Complete
      <3> QED
        BY <3>1, <3>2, <3>3
    <2> QED
      BY <2>1, <2>2
  <1> HIDE DEF n, i
  <1>8. Honest(load') /\ load'.seen = load.seen
    <2>1. Len(rows) <= Len(Listing)
      BY <1>4, <1>6
    <2> QED
      BY <1>1, <1>2, <1>6, <1>7, <2>1, OtherRows
  <1>9. world' = world /\ data' = data /\ world' \in Worlds
    BY DEF ReadHealthy, IInv
  <1> QED
    BY <1>1, <1>8, <1>9, LoadKeeps

\* More is read of the last row, of a world the load has seen.
LEMMA LastRow ==
    ASSUME NEW l, Honest(l), l.rows # << >>,
           NEW n, n = Len(l.rows),
           NEW row \in ReadRow, RowSeen(row, l.seen.rows[Listing[n]]),
           NEW m, m = [l EXCEPT !.rows = [l.rows EXCEPT ![n] = row]]
    PROVE  Honest(m) /\ m.seen = l.seen
  <1> DEFINE rows == [l.rows EXCEPT ![n] = row]
  <1>1. /\ l.rows \in Seq(ReadRow) /\ n \in Nat /\ n <= Len(Listing)
        /\ l.redis # Unread
        /\ \A k \in 1..n : /\ RowSeen(l.rows[k], l.seen.rows[Listing[k]])
                           /\ k < n => l.rows[k].failures # Unread
    BY HonestParts
  <1>2. n > 0
    BY <1>1
  <1>3. /\ rows \in Seq(ReadRow) /\ Len(rows) = n /\ rows[n] = row
        /\ \A k \in 1..n : k # n => rows[k] = l.rows[k]
    BY <1>1, <1>2
  <1> HIDE DEF rows
  <1>4. \A k \in 1..Len(rows) :
           /\ RowSeen(rows[k], l.seen.rows[Listing[k]])
           /\ k < Len(rows) => rows[k].failures # Unread
    <2> TAKE k \in 1..Len(rows)
    <2>1. CASE k = n
      BY <1>1, <1>3, <2>1
    <2>2. CASE k # n
      <3>1. k \in 1..n /\ rows[k] = l.rows[k]
        BY <1>3, <2>2
      <3> QED
        BY <1>1, <1>3, <3>1
    <2> QED
      BY <2>1, <2>2
  <1>5. m = [l EXCEPT !.rows = rows]
    BY DEF rows
  <1> QED
    BY <1>1, <1>3, <1>4, <1>5, OtherRows

\* The last row is not complete.
LEMMA LastIncomplete ==
    ASSUME IInv, load # NoLoad, ~Complete(load.rows), NEW n, n = Len(load.rows)
    PROVE  /\ load.rows # << >> /\ n \in 1..Len(Listing) /\ Listing[n] \in Instances
           /\ load.rows \in Seq(ReadRow) /\ load.rows[n] \in ReadRow
           /\ RowSeen(load.rows[n], load.seen.rows[Listing[n]])
  <1>1. Honest(load)
    BY DEF IInv
  <1>2. /\ load.rows \in Seq(ReadRow) /\ n \in Nat /\ n <= Len(Listing)
        /\ DOMAIN load.rows = 1..n /\ Len(Listing) \in Nat
    BY <1>1, HonestParts, ConsoleAssumption DEF ConsoleAssumption
  <1>3. load.rows # << >> /\ n # 0
    <2>1. \E k \in 1..n : TRUE
      BY <1>2 DEF Complete
    <2> QED
      BY <1>2, <2>1
  <1>4. n \in 1..n /\ n \in 1..Len(Listing)
    BY <1>2, <1>3
  <1> QED
    BY <1>1, <1>2, <1>3, <1>4, HonestParts

\* The breaker is asked for its state, which may move it.
LEMMA StateKeeps ==
    ASSUME IInv, ReadState
    PROVE  IInv' /\ load' # NoLoad
  <1> DEFINE n == Len(load.rows)
             i == Listing[n]
             c == State(world.rows[i].circuit)
             w == [world EXCEPT !.rows[i].circuit = c]
             m == [load EXCEPT !.seen = Saw(@, w)]
             row == [load.rows[n] EXCEPT !.circuit = c]
  <1>1. /\ load # NoLoad /\ Honest(load) /\ ~Complete(load.rows) /\ world \in Worlds
        /\ load.rows[n].circuit = "unread"
    BY DEF ReadState, Reading, IInv
  <1>2. /\ load.rows # << >> /\ n \in 1..Len(Listing) /\ i \in Instances
        /\ load.rows \in Seq(ReadRow) /\ load.rows[n] \in ReadRow
        /\ RowSeen(load.rows[n], load.seen.rows[i])
    BY <1>1, LastIncomplete
  <1>3. world' = w /\ load' = [load EXCEPT !.rows[n].circuit = c, !.seen = Saw(@, w)]
    BY DEF ReadState
  <1>4. c \in Circuits
    <2>1. world.rows[i].circuit \in Circuits \cup {"rested"}
      BY <1>1, <1>2 DEF Worlds, TrueRow
    <2> QED
      BY <2>1 DEF State, Circuits
  <1> HIDE DEF c
  <1>5. w \in Worlds /\ w.rows[i].circuit = c
    <2>1. world \in Worlds /\ i \in Instances /\ c \in Circuits \cup {"rested"}
      BY <1>1, <1>2, <1>4
    <2> HIDE DEF i
    <2>2. /\ [world EXCEPT !.rows[i].circuit = c] \in Worlds
          /\ [world EXCEPT !.rows[i].circuit = c].rows[i].circuit = c
      BY <2>1, StateChanges
    <2> QED
      BY <2>2
  <1> HIDE DEF w
  <1>6. Honest(m) /\ Includes(m.seen, w)
    BY <1>1, <1>5, SeesMore
  <1>7. load = [seen |-> load.seen, rateLimit |-> load.rateLimit, redis |-> load.redis,
                rows |-> load.rows]
    BY <1>1 DEF Honest
  <1>8. m.rows = load.rows /\ m.seen = Saw(load.seen, w)
    BY <1>7
  <1>9. load' = [m EXCEPT !.rows = [m.rows EXCEPT ![n] = row]]
    BY <1>3, <1>7
  <1>10. row \in ReadRow /\ row.healthy = load.rows[n].healthy /\ row.circuit = c
         /\ row.failures = load.rows[n].failures
    BY <1>2, <1>4 DEF ReadRow
  <1>11. RowSeen(row, m.seen.rows[i])
    <2>1. load.seen \in Seens
      BY <1>1, HonestParts
    <2>2. load.seen.rows[i] \subseteq m.seen.rows[i]
      BY <1>2, <1>5, <1>8, <2>1, SawMore
    <2>3. RowSeen(load.rows[n], m.seen.rows[i])
      BY <1>2, <2>2, RowStaysSeen
    <2>4. w.rows[i] \in m.seen.rows[i]
      BY <1>2, <1>6 DEF Includes
    <2>5. load.rows[n].failures = Unread
      BY <1>1, <2>3 DEF RowSeen
    <2> HIDE DEF row, m
    <2> QED
      BY <1>5, <1>10, <2>3, <2>4, <2>5 DEF RowSeen
  <1>12. Honest(load') /\ load'.seen = m.seen
    <2>1. n = Len(m.rows) /\ m.rows # << >>
      BY <1>2, <1>8
    <2> HIDE DEF row, m, n
    <2> QED
      BY <1>6, <1>9, <1>10, <1>11, <2>1, LastRow
  <1>13. data' = data /\ world' = w
    BY <1>3 DEF ReadState
  <1> HIDE DEF m
  <1> QED
    BY <1>5, <1>6, <1>12, <1>13, LoadKeeps

\* The breaker is asked for its failures; with the last one the request is counted.
LEMMA FailuresKeep ==
    ASSUME IInv, ReadFailures
    PROVE  IInv' /\ load' # NoLoad
  <1> DEFINE n == Len(load.rows)
             i == Listing[n]
             now == <<world.rows[i].failures>>
             w == [world EXCEPT !.counters =
                      @ \cup (IF n = Len(Listing) THEN {"http"} ELSE {})]
             m == [load EXCEPT !.seen = Saw(@, w)]
             row == [load.rows[n] EXCEPT !.failures = now]
  <1>1. /\ load # NoLoad /\ Honest(load) /\ ~Complete(load.rows) /\ world \in Worlds
        /\ load.rows[n].circuit # "unread"
    BY DEF ReadFailures, Reading, IInv
  <1>2. /\ load.rows # << >> /\ n \in 1..Len(Listing) /\ i \in Instances
        /\ load.rows \in Seq(ReadRow) /\ load.rows[n] \in ReadRow
        /\ RowSeen(load.rows[n], load.seen.rows[i])
    BY <1>1, LastIncomplete
  <1>3. world' = w /\ load' = [load EXCEPT !.rows[n].failures = now, !.seen = Saw(@, w)]
    BY DEF ReadFailures
  <1>4. w \in Worlds /\ w.rows[i].failures = world.rows[i].failures
    <2>1. world.counters \cup (IF n = Len(Listing) THEN {"http"} ELSE {}) \in SUBSET Counters
      BY <1>1 DEF Worlds, Counters
    <2>2. w \in Worlds
      BY <1>1, <2>1, WorldsChange
    <2>3. w.rows = world.rows
      BY <1>1 DEF Worlds
    <2> QED
      BY <2>2, <2>3
  <1>5. now \in {<<b>> : b \in BOOLEAN} /\ now # Unread
    <2>1. world.rows[i].failures \in BOOLEAN
      BY <1>1, <1>2 DEF Worlds, TrueRow
    <2> QED
      BY <2>1 DEF Unread
  <1>6. now = <<w.rows[i].failures>>
    BY <1>4
  <1> HIDE DEF now, w
  <1>7. Honest(m) /\ Includes(m.seen, w)
    BY <1>1, <1>4, SeesMore
  <1>8. load = [seen |-> load.seen, rateLimit |-> load.rateLimit, redis |-> load.redis,
                rows |-> load.rows]
    BY <1>1 DEF Honest
  <1>9. m.rows = load.rows /\ m.seen = Saw(load.seen, w)
    BY <1>8
  <1>10. load' = [m EXCEPT !.rows = [m.rows EXCEPT ![n] = row]]
    BY <1>3, <1>8
  <1>11. row \in ReadRow /\ row.healthy = load.rows[n].healthy
         /\ row.circuit = load.rows[n].circuit /\ row.failures = now
    BY <1>2, <1>5 DEF ReadRow
  <1>12. RowSeen(row, m.seen.rows[i])
    <2>1. load.seen \in Seens
      BY <1>1, HonestParts
    <2>2. load.seen.rows[i] \subseteq m.seen.rows[i]
      BY <1>2, <1>4, <1>9, <2>1, SawMore
    <2>3. RowSeen(load.rows[n], m.seen.rows[i])
      BY <1>2, <2>2, RowStaysSeen
    <2>4. w.rows[i] \in m.seen.rows[i]
      BY <1>2, <1>7 DEF Includes
    <2> HIDE DEF row, m
    <2> QED
      BY <1>1, <1>6, <1>11, <2>3, <2>4 DEF RowSeen
  <1>13. Honest(load') /\ load'.seen = m.seen
    <2>1. n = Len(m.rows) /\ m.rows # << >>
      BY <1>2, <1>9
    <2> HIDE DEF row, m, n
    <2> QED
      BY <1>7, <1>10, <1>11, <1>12, <2>1, LastRow
  <1>14. data' = data /\ world' = w
    BY <1>3 DEF ReadFailures
  <1> HIDE DEF m
  <1> QED
    BY <1>4, <1>7, <1>13, <1>14, LoadKeeps

\* What the load has read of instance i.
ReadOf(i) == RowOf(load.rows[CHOOSE k \in DOMAIN Listing : Listing[k] = i])

\* A load that is complete has read every instance, each part of it as it was at a
\* moment seen.
LEMMA CompleteLoad ==
    ASSUME IInv, load # NoLoad,
           Len(load.rows) = Len(Listing), Complete(load.rows)
    PROVE  /\ \A i \in Instances :
                 /\ ReadOf(i) \in Rows
                 /\ \E r \in load.seen.rows[i] : ReadOf(i).healthy <=> r.healthy
                 /\ \E r \in load.seen.rows[i] : ReadOf(i).circuit = r.circuit
                 /\ \E r \in load.seen.rows[i] : ReadOf(i).failures <=> r.failures
           /\ load.redis[1] \in load.seen.redis /\ load.redis[1] \in BOOLEAN
           /\ \E b \in load.seen.redis : load.rateLimit \in HeadersIn(b)
  <1>1. Honest(load) /\ load.seen \in Seens
    BY HonestParts DEF IInv
  <1>2. ASSUME NEW i \in Instances
        PROVE  /\ ReadOf(i) \in Rows
               /\ \E r \in load.seen.rows[i] : ReadOf(i).healthy <=> r.healthy
               /\ \E r \in load.seen.rows[i] : ReadOf(i).circuit = r.circuit
               /\ \E r \in load.seen.rows[i] : ReadOf(i).failures <=> r.failures
    <2> DEFINE k == CHOOSE k \in DOMAIN Listing : Listing[k] = i
               row == load.rows[k]
    <2>1. Listing \in Seq(Instances) /\ Range(Listing) = Instances
      BY ConsoleAssumption DEF ConsoleAssumption
    <2>2. \E j \in DOMAIN Listing : Listing[j] = i
      BY <2>1 DEF Range
    <2>3. k \in DOMAIN Listing /\ Listing[k] = i
      BY <2>2
    <2>4. DOMAIN Listing = 1..Len(Listing) /\ DOMAIN load.rows = 1..Len(load.rows)
      BY <1>1, <2>1, HonestParts
    <2>5. ReadOf(i) = [row EXCEPT !.failures = @[1]]
      BY DEF ReadOf, RowOf
    <2> HIDE DEF k
    <2>6. k \in 1..Len(load.rows) /\ row.failures # Unread
      BY <2>3, <2>4 DEF Complete
    <2>7. row \in ReadRow /\ RowSeen(row, load.seen.rows[i])
      BY <1>1, <2>3, <2>6, HonestParts
    <2> HIDE DEF row
    <2>8. /\ row.circuit # "unread"
          /\ \E r \in load.seen.rows[i] : row.healthy <=> r.healthy
          /\ \E r \in load.seen.rows[i] : row.circuit = r.circuit
          /\ \E r \in load.seen.rows[i] : row.failures = <<r.failures>>
      BY <2>6, <2>7 DEF RowSeen
    <2>9. PICK b \in BOOLEAN : row.failures = <<b>>
      BY <2>6, <2>7 DEF ReadRow
    <2>10. /\ ReadOf(i).healthy = row.healthy /\ ReadOf(i).circuit = row.circuit
           /\ ReadOf(i).failures = b /\ ReadOf(i) \in Rows
      BY <2>5, <2>7, <2>8, <2>9 DEF ReadRow, Rows
    <2>11. \E r \in load.seen.rows[i] : b = r.failures
      BY <2>8, <2>9
    <2> QED
      BY <2>8, <2>10, <2>11
  <1>3. load.redis # Unread /\ load.rateLimit # Unread
    <2>1. Len(Listing) # 0
      <3>1. Listing \in Seq(Instances) /\ Range(Listing) = Instances /\ Instances # {}
        BY ConsoleAssumption, ViewsAssumption DEF ConsoleAssumption, ViewsAssumption
      <3>2. \E j \in DOMAIN Listing : TRUE
        BY <3>1 DEF Range
      <3> QED
        BY <3>1, <3>2
    <2>2. load.rows # << >>
      BY <2>1
    <2> QED
      BY <1>1, <2>2, HonestParts
  <1>4. \E b \in load.seen.redis : load.rateLimit \in HeadersIn(b)
    BY <1>1, <1>3, HonestParts
  <1>5. PICK b \in load.seen.redis : load.redis = <<b>>
    BY <1>1, <1>3, HonestParts
  <1>6. b \in BOOLEAN /\ load.redis[1] = b
    BY <1>1, <1>5 DEF Seens
  <1> QED
    BY <1>2, <1>4, <1>5, <1>6

\* Everything has answered.
LEMMA SucceedKeeps ==
    ASSUME IInv, Succeed
    PROVE  IInv'
  <1> DEFINE rows == [i \in Instances |-> ReadOf(i)]
  <1>1. /\ load # NoLoad /\ Len(load.rows) = Len(Listing) /\ Complete(load.rows)
        /\ load' = NoLoad /\ world' = world /\ world \in Worlds
    BY DEF Succeed, Reading, IInv
  <1>2. \E up, metrics, totals, headers :
           data' = [ topology |-> TopologyOf(load.redis[1], rows), prometheusUp |-> up,
                     metrics |-> metrics, serviceTotals |-> totals, rateLimit |-> headers,
                     loading |-> FALSE, error |-> FALSE ]
    BY DEF Succeed, ReadOf
  <1>3. rows \in [Instances -> Rows] /\ load.redis[1] \in BOOLEAN
    BY <1>1, CompleteLoad
  <1> HIDE DEF rows
  <1>4. data'.topology = TopologyOf(load.redis[1], rows) /\ Shape(data')
    BY <1>2 DEF Shape
  <1>5. data'.topology \in Topologies
    BY <1>3, <1>4 DEF Topologies
  <1>6. (data.topology \in Topologies)'
    BY <1>5 DEF Topologies
  <1>7. Shape(data)'
    BY <1>4 DEF Shape
  <1> QED
    BY <1>1, <1>6, <1>7 DEF IInv

\* Something is down: what is shown stays, under the banner.
LEMMA FailKeeps ==
    ASSUME IInv, Fail
    PROVE  IInv' /\ data'.error
  <1>1. load' = NoLoad /\ world' = world /\ world \in Worlds /\ data' = Failed(data)
    BY DEF Fail, IInv
  <1>2. Shape(data)
    BY DEF IInv
  <1>3. data' = [ topology |-> data.topology, prometheusUp |-> data.prometheusUp,
                  metrics |-> data.metrics, serviceTotals |-> data.serviceTotals,
                  rateLimit |-> data.rateLimit, loading |-> FALSE, error |-> TRUE ]
    BY <1>1, <1>2 DEF Failed, Shape
  <1>4. data'.topology = data.topology /\ Shape(data') /\ data'.error
    BY <1>3 DEF Shape
  <1>5. data.topology \in Topologies
    BY DEF IInv
  <1>6. (data.topology \in Topologies)'
    BY <1>4, <1>5 DEF Topologies
  <1>7. Shape(data)'
    BY <1>4 DEF Shape
  <1> QED
    BY <1>1, <1>4, <1>6, <1>7 DEF IInv

\* The invariant holds at first and after every step.
LEMMA Inductive ==
    /\ Init => IInv
    /\ IInv /\ [Next]_vars => IInv'
  <1>1. ASSUME Init PROVE IInv
    <2>1. world \in Worlds
      <3>1. Fresh \in [Instances -> TrueRow] /\ Nothing \in Helds
        BY DEF Fresh, TrueRow, Circuits, Nothing, Helds, Targets, Rates
      <3> QED
        BY <1>1, <3>1 DEF Init, Worlds
    <2>2. load = NoLoad
      BY <1>1 DEF Init
    <2>3. data.topology = NoTopology /\ Shape(data)
      BY <1>1 DEF Init, EMPTY, Shape
    <2> QED
      BY <2>1, <2>2, <2>3 DEF IInv, Topologies
  <1>2. ASSUME IInv, [Next]_vars PROVE IInv'
    <2>1. CASE UNCHANGED vars
      BY <1>2, <2>1 DEF vars, IInv, Honest, RowSeen, Includes, Shape, Topologies
    <2>2. CASE Step
      BY <1>2, <2>2, StartKeeps, HeadersKeep, PingKeeps, HealthyKeeps, StateKeeps,
         FailuresKeep, SucceedKeeps, FailKeeps DEF Step
    <2>3. CASE Environment
      BY <1>2, <2>3, EnvironmentKeeps
    <2> QED
      BY <1>2, <2>1, <2>2, <2>3 DEF Next
  <1> QED
    BY <1>1, <1>2

\* What the load in flight has read was so while it read (ReadHeaders, PingRedis,
\* ReadHealthy, ReadState and ReadFailures of the topology endpoint), and what is shown
\* is such an answer.
THEOREM ConsoleInvariant == Spec => []IInv
  BY Inductive, PTL DEF Spec

\* PagesAgree, for every deployment: header, sidebar, topology card, services and
\* breaker pages tell one story, whatever the topology endpoint has answered.
THEOREM PagesTellOneStory == Spec => []PagesAgree
  BY ConsoleInvariant, InvariantPages, PTL

-----------------------------------------------------------------------------
(* Nothing is invented. *)

\* The scalar of an answer of one value or none.
LEMMA ScalarOfNone == queryScalar(<< >>) = Null
  BY DEF queryScalar, queryVector

\* An answer that is no number has none.
LEMMA ScalarOfNaN == queryScalar(<<NaN>>) = Null
  <1>1. queryVector(<<NaN>>) = {}
    BY DEF queryVector
  <1> QED
    BY <1>1 DEF queryScalar

\* An answer of one number is that number.
LEMMA ScalarOfOne ==
    ASSUME NEW v, v # NaN
    PROVE  queryScalar(<<v>>) = v
  <1>1. queryVector(<<v>>) = {1}
    BY DEF queryVector
  <1>2. Min({1}) = 1
    BY DEF Min
  <1> QED
    BY <1>1, <1>2 DEF queryScalar

\* What the cards and the chip make of the answers.
LEMMA Printed ==
    ASSUME NEW h \in Helds
    PROVE  /\ fmt(queryScalar(Total(h))) = IF "http" \in h.series THEN "1" ELSE NA
           /\ fmt(queryScalar(Limited(h))) = IF "429" \in h.series THEN "1" ELSE "0"
           /\ fmt(queryScalar(Share(h))) = IF h.rate \in {"none", "idle"} THEN NA
                                           ELSE IF h.rate = "clean" THEN "0" ELSE "1"
           /\ queryTargetUp(Up(h)) = IF h.target = "none" THEN "unknown" ELSE h.target
  <1>1. queryScalar(<< 0 >>) = 0 /\ queryScalar(<< 1 >>) = 1
    BY ScalarOfOne DEF NaN
  <1>2. fmt(Null) = NA /\ fmt(0) = "0" /\ fmt(1) = "1"
    BY DEF fmt, Null, NaN
  <1>3. fmt(queryScalar(Total(h))) = IF "http" \in h.series THEN "1" ELSE NA
    BY <1>1, <1>2, ScalarOfNone DEF Total
  <1>4. fmt(queryScalar(Limited(h))) = IF "429" \in h.series THEN "1" ELSE "0"
    BY <1>1, <1>2 DEF Limited
  <1>5. fmt(queryScalar(Share(h))) = IF h.rate \in {"none", "idle"} THEN NA
                                    ELSE IF h.rate = "clean" THEN "0" ELSE "1"
    <2>1. CASE h.rate = "none"
      BY <1>2, <2>1, ScalarOfNone DEF Share
    <2>2. CASE h.rate = "idle"
      BY <1>2, <2>2, ScalarOfNaN DEF Share
    <2>3. CASE h.rate = "clean"
      BY <1>1, <1>2, <2>3 DEF Share
    <2>4. CASE h.rate = "failing"
      BY <1>1, <1>2, <2>4 DEF Share
    <2> QED
      BY <2>1, <2>2, <2>3, <2>4 DEF Helds, Rates
  <1>6. queryTargetUp(Up(h)) = IF h.target = "none" THEN "unknown" ELSE h.target
    <2>1. CASE h.target = "none"
      BY <2>1, ScalarOfNone DEF queryTargetUp, Up
    <2>2. CASE h.target = "up"
      BY <1>1, <2>2 DEF queryTargetUp, Up, Null
    <2>3. CASE h.target = "down"
      BY <1>1, <2>3 DEF queryTargetUp, Up, Null
    <2> QED
      BY <2>1, <2>2, <2>3 DEF Helds, Targets
  <1> QED
    BY <1>3, <1>4, <1>5, <1>6

\* MapThenSumSet of a function, unfolded.
SumsOf(f, S) ==
    (CHOOSE h : h = [T \in SUBSET S |->
        IF T = {} THEN 0 ELSE f[CHOOSE y \in T : TRUE] + h[T \ {CHOOSE y \in T : TRUE}]])[S]

\* The sum of the slices: there is at most one.
LEMMA Slices ==
    ASSUME NEW f, NEW x
    PROVE  /\ SumsOf(f, {}) = 0
           /\ f[x] \in Int => SumsOf(f, {x}) = f[x]
  <1> DEFINE Sums(S, h) == h = [T \in SUBSET S |->
                IF T = {} THEN 0 ELSE f[CHOOSE y \in T : TRUE] + h[T \ {CHOOSE y \in T : TRUE}]]
  <1>1. \A S : SumsOf(f, S) = (CHOOSE h : Sums(S, h))[S]
    BY DEF SumsOf
  <1>2. SumsOf(f, {}) = 0
    <2> DEFINE h == CHOOSE h : Sums({}, h)
               g == [T \in SUBSET {} |-> 0]
    <2>1. Sums({}, g)
      OBVIOUS
    <2>2. Sums({}, h)
      BY <2>1
    <2>3. h[{}] = 0
      BY <2>2
    <2> QED
      BY <1>1, <2>3
  <1>3. ASSUME f[x] \in Int
        PROVE  SumsOf(f, {x}) = f[x]
    <2> DEFINE h == CHOOSE h : Sums({x}, h)
               g == [T \in SUBSET {x} |-> IF T = {} THEN 0 ELSE f[x]]
    <2>1. SUBSET {x} = {{}, {x}} /\ (CHOOSE y \in {x} : TRUE) = x /\ {x} \ {x} = {}
      OBVIOUS
    <2>2. Sums({x}, g)
      BY <1>3, <2>1
    <2>3. Sums({x}, h)
      BY <2>2
    <2> DEFINE one == {x}
               rest == {x} \ {x}
    <2>4. h[one] = f[x] + h[rest] /\ h[{}] = 0
      <3>1. h = [T \in SUBSET {x} |->
                   IF T = {} THEN 0 ELSE f[CHOOSE y \in T : TRUE] + h[T \ {CHOOSE y \in T : TRUE}]]
        BY <2>3
      <3> HIDE DEF h
      <3>2. h[one] = f[CHOOSE y \in one : TRUE] + h[one \ {CHOOSE y \in one : TRUE}]
        BY <3>1
      <3>3. h[{}] = 0
        BY <3>1
      <3> QED
        BY <2>1, <3>2, <3>3
    <2>5. rest = {}
      OBVIOUS
    <2>6. SumsOf(f, {x}) = h[one]
      BY <1>1
    <2> HIDE DEF h, rest, one
    <2> QED
      BY <1>3, <2>4, <2>5, <2>6
  <1> QED
    BY <1>2, <1>3

\* The rate-limiting page shows what was used when there were headers.
LEMMA UsedShown ==
    ASSUME NEW d, NEW h \in Headers \cup NoHeaders, d.rateLimit = h, Loaded(d)
    PROVE  /\ RateLimitingPage(d).used # Null <=> h \in Headers
           /\ RateLimitingPage(d).used # Null => RateLimitingPage(d).used \in 1..Limit
  <1>1. Limit \in Nat /\ Limit >= 1
    BY ViewsAssumption DEF ViewsAssumption
  <1>2. CASE h \in Headers
    <2>1. h.limit = Limit /\ h.remaining \in 0..(Limit - 1)
      BY <1>2 DEF Headers
    <2> DEFINE used == Limit - h.remaining
    <2>2. used \in 1..Limit
      BY <1>1, <2>1
    <2>3. Max({0, used}) = used
      <3> HIDE DEF used
      <3> QED
        BY <1>1, <2>2 DEF Max
    <2>4. Limit # Null /\ h.remaining # Null
      BY <1>1, <2>1 DEF Null
    <2>5. RateLimitingPage(d).used = used
      BY <2>1, <2>3, <2>4 DEF RateLimitingPage
    <2>6. used # Null
      BY <2>2 DEF Null
    <2> HIDE DEF used
    <2> QED
      BY <1>2, <2>2, <2>5, <2>6
  <1>3. CASE h \in NoHeaders
    <2>1. h.limit = Null /\ h.remaining = Null
      BY <1>3 DEF NoHeaders
    <2>2. h \notin Headers
      <3>1. \A g \in Headers : g.limit = Limit
        BY DEF Headers
      <3> QED
        BY <1>1, <2>1, <3>1 DEF Null
    <2>3. RateLimitingPage(d).used = Null
      BY <2>1 DEF RateLimitingPage
    <2> QED
      BY <2>2, <2>3
  <1> QED
    BY <1>2, <1>3

\* The centre of the donut.
LEMMA CentreShown ==
    ASSUME NEW d, NEW h, d.serviceTotals = PerService(h)
    PROVE  TrafficDistribution(d).centre = NA <=> "upstream" \notin h.series
  <1> DEFINE f == d.serviceTotals
             named == {s \in DOMAIN f : f[s] # Null}
             total == SumsOf(f, named)
  <1>1. TrafficDistribution(d).centre = IF total <= 0 THEN NA ELSE fmt(total)
    BY DEF TrafficDistribution, MapThenSumSet, MapThenFoldSet, SumsOf
  <1>2. f = [s \in (IF "upstream" \in h.series THEN {Fanned} ELSE {}) |-> 1]
    BY DEF PerService
  <1>3. CASE "upstream" \notin h.series
    <2>1. named = {}
      BY <1>2, <1>3
    <2> HIDE DEF f, named
    <2>2. total = 0
      BY <2>1, Slices
    <2> HIDE DEF total
    <2> QED
      BY <1>1, <1>3, <2>2
  <1>4. CASE "upstream" \in h.series
    <2>1. named = {Fanned} /\ f[Fanned] = 1
      BY <1>2, <1>4 DEF Null
    <2> HIDE DEF f, named
    <2>2. total = 1
      BY <2>1, Slices
    <2>3. fmt(1) = "1" /\ "1" # NA
      BY DEF fmt, Null, NaN, NA
    <2> HIDE DEF total
    <2> QED
      BY <1>1, <1>4, <2>2, <2>3
  <1> QED
    BY <1>3, <1>4

\* What the cards, the chip and the donut show of the answers.
LEMMA NumbersShown ==
    ASSUME NEW d, NEW up \in Helds, NEW total \in Helds, NEW share \in Helds,
           NEW limited \in Helds, NEW perService \in Helds,
           d.prometheusUp = queryTargetUp(Up(up)),
           d.metrics = [ totalRequests    |-> queryScalar(Total(total)),
                         errorRate        |-> queryScalar(Share(share)),
                         rateLimitedTotal |-> queryScalar(Limited(limited)) ],
           d.serviceTotals = PerService(perService)
    PROVE  /\ PrometheusChip(d) = (IF up.target = "none" THEN "unknown" ELSE up.target)
           /\ CardReads(d, total, "totalRequests")
           /\ CardReads(d, share, "errorRate")
           /\ CardReads(d, limited, "rateLimitedTotal")
           /\ TrafficDistribution(d).centre = NA <=> "upstream" \notin perService.series
  <1>1. PrometheusChip(d) = (IF up.target = "none" THEN "unknown" ELSE up.target)
    BY Printed DEF PrometheusChip
  <1>2. /\ KpiCards(d)["totalRequests"] = fmt(queryScalar(Total(total)))
        /\ KpiCards(d)["errorRate"] = fmt(queryScalar(Share(share)))
        /\ KpiCards(d)["rateLimitedTotal"] = fmt(queryScalar(Limited(limited)))
    BY DEF KpiCards
  <1>3. CardReads(d, total, "totalRequests")
    <2>1. fmt(queryScalar(Total(total))) = IF "http" \in total.series THEN "1" ELSE NA
      BY Printed
    <2> QED
      BY <1>2, <2>1 DEF CardReads
  <1>4. CardReads(d, share, "errorRate")
    <2>1. fmt(queryScalar(Share(share))) = IF share.rate \in {"none", "idle"} THEN NA
                                          ELSE IF share.rate = "clean" THEN "0" ELSE "1"
      BY Printed
    <2> QED
      BY <1>2, <2>1 DEF CardReads
  <1>5. CardReads(d, limited, "rateLimitedTotal")
    <2>1. fmt(queryScalar(Limited(limited))) = IF "429" \in limited.series THEN "1" ELSE "0"
      BY Printed
    <2> QED
      BY <1>2, <2>1 DEF CardReads
  <1>6. TrafficDistribution(d).centre = NA <=> "upstream" \notin perService.series
    BY CentreShown
  <1> QED
    BY <1>1, <1>3, <1>4, <1>5, <1>6

\* What a load that succeeds puts on the pages.
LEMMA SucceedFits ==
    ASSUME IInv, Succeed
    PROVE  Fits(data', load.seen)
  <1> DEFINE seen == load.seen
             rows == [i \in Instances |-> ReadOf(i)]
             d == data'
  <1>1. /\ load # NoLoad /\ Len(load.rows) = Len(Listing) /\ Complete(load.rows)
        /\ seen \in Seens
    BY HonestParts DEF Succeed, Reading, IInv
  <1>2. PICK up, total, share, limited, perService \in seen.held :
           d = [ topology |-> TopologyOf(load.redis[1], rows),
                 prometheusUp |-> queryTargetUp(Up(up)),
                 metrics |-> [ totalRequests    |-> queryScalar(Total(total)),
                               errorRate        |-> queryScalar(Share(share)),
                               rateLimitedTotal |-> queryScalar(Limited(limited)) ],
                 serviceTotals |-> PerService(perService),
                 rateLimit |-> load.rateLimit,
                 loading |-> FALSE, error |-> FALSE ]
    BY DEF Succeed, ReadOf
  <1>3. /\ d.topology = TopologyOf(load.redis[1], rows)
        /\ d.prometheusUp = queryTargetUp(Up(up))
        /\ d.metrics = [ totalRequests    |-> queryScalar(Total(total)),
                         errorRate        |-> queryScalar(Share(share)),
                         rateLimitedTotal |-> queryScalar(Limited(limited)) ]
        /\ d.serviceTotals = PerService(perService)
        /\ d.rateLimit = load.rateLimit
    BY <1>2
  <1>4. /\ \A i \in Instances :
              /\ ReadOf(i) \in Rows
              /\ \E r \in seen.rows[i] : ReadOf(i).healthy <=> r.healthy
              /\ \E r \in seen.rows[i] : ReadOf(i).circuit = r.circuit
              /\ \E r \in seen.rows[i] : ReadOf(i).failures <=> r.failures
        /\ load.redis[1] \in seen.redis /\ load.redis[1] \in BOOLEAN
        /\ \E b \in seen.redis : load.rateLimit \in HeadersIn(b)
    BY <1>1, CompleteLoad
  <1>5. /\ up \in Helds /\ total \in Helds /\ share \in Helds /\ limited \in Helds
        /\ perService \in Helds /\ seen.redis \in SUBSET BOOLEAN
    BY <1>1, <1>2 DEF Seens
  <1>6. rows \in [Instances -> Rows] /\ \A i \in Instances : rows[i] = ReadOf(i)
    BY <1>4
  <1> DEFINE redis == load.redis[1]
             h == load.rateLimit
  <1> HIDE DEF rows, seen, d, redis, h
  <1>7. redis \in BOOLEAN /\ redis \in seen.redis /\ d.topology = TopologyOf(redis, rows)
    BY <1>3, <1>4 DEF redis
  <1>8. Loaded(d) /\ d.topology.rows = rows /\ d.topology.redis = redis
    BY <1>6, <1>7, Answered
  <1>9. \A i \in Instances :
           /\ ServicesPage(d).instances[i] = CurrentStatus(rows[i])
           /\ CircuitBreakerTable(d)[i] = rows[i].circuit
           /\ i \in FailuresShown(d) <=> rows[i].failures
    BY <1>8 DEF ServicesPage, CircuitBreakerTable, FailuresShown
  <1>10. \A i \in Instances : \E healthy, broken, failing \in seen.rows[i] :
            /\ healthy.healthy <=> ServicesPage(d).instances[i] # "Down (health check failed)"
            /\ broken.circuit = CircuitBreakerTable(d)[i]
            /\ failing.failures <=> i \in FailuresShown(d)
    <2> TAKE i \in Instances
    <2>1. /\ rows[i] \in Rows
          /\ \E r \in seen.rows[i] : rows[i].healthy <=> r.healthy
          /\ \E r \in seen.rows[i] : rows[i].circuit = r.circuit
          /\ \E r \in seen.rows[i] : rows[i].failures <=> r.failures
      BY <1>4, <1>6
    <2>2. CurrentStatus(rows[i]) = "Down (health check failed)" <=> ~rows[i].healthy
      BY <2>1, InstancesAgree
    <2>3. \E r \in seen.rows[i] :
             r.healthy <=> ServicesPage(d).instances[i] # "Down (health check failed)"
      BY <1>9, <2>1, <2>2
    <2>4. \E r \in seen.rows[i] : r.circuit = CircuitBreakerTable(d)[i]
      BY <1>9, <2>1
    <2>5. \E r \in seen.rows[i] : r.failures <=> i \in FailuresShown(d)
      BY <1>9, <2>1
    <2> QED
      BY <2>3, <2>4, <2>5
  <1>11. (ServicesPage(d).redis = "ok") \in seen.redis
    <2>1. (ServicesPage(d).redis = "ok") = redis
      <3>1. CASE redis = TRUE
        BY <1>8, <3>1 DEF ServicesPage
      <3>2. CASE redis = FALSE
        BY <1>8, <3>2 DEF ServicesPage
      <3> QED
        BY <1>7, <3>1, <3>2
    <2> QED
      BY <1>7, <2>1
  <1>12. PICK b \in seen.redis : h \in HeadersIn(b)
    BY <1>4 DEF h
  <1>13. /\ b \in BOOLEAN /\ (b => h \in Headers) /\ (~b => h \in NoHeaders)
    BY <1>5, <1>12 DEF HeadersIn
  <1>14. d.rateLimit = h /\ h \in Headers \cup NoHeaders
    BY <1>3, <1>13 DEF h
  <1>15. /\ RateLimitingPage(d).used # Null <=> h \in Headers
         /\ RateLimitingPage(d).used # Null => RateLimitingPage(d).used \in 1..Limit
    BY <1>8, <1>14, UsedShown
  <1>16. h \in NoHeaders => h \notin Headers
    <2>1. \A g \in Headers : g.limit = Limit
      BY DEF Headers
    <2>2. \A g \in NoHeaders : g.limit = Null
      BY DEF NoHeaders
    <2>3. Limit # Null
      BY ViewsAssumption DEF ViewsAssumption, Null
    <2> QED
      BY <2>1, <2>2, <2>3
  <1>17. (RateLimitingPage(d).used # Null) = b
    <2>1. CASE b = TRUE
      BY <1>13, <1>15, <2>1
    <2>2. CASE b = FALSE
      BY <1>13, <1>15, <1>16, <2>2
    <2> QED
      BY <1>13, <2>1, <2>2
  <1>18. /\ PrometheusChip(d) = (IF up.target = "none" THEN "unknown" ELSE up.target)
         /\ CardReads(d, total, "totalRequests")
         /\ CardReads(d, share, "errorRate")
         /\ CardReads(d, limited, "rateLimitedTotal")
         /\ TrafficDistribution(d).centre = NA <=> "upstream" \notin perService.series
    BY <1>3, <1>5, NumbersShown
  <1>19. \A k \in Metrics : \E held \in seen.held : CardReads(d, held, k)
    BY <1>2, <1>18 DEF Metrics
  <1>20. Fits(d, seen)
    BY <1>2, <1>8, <1>10, <1>11, <1>12, <1>15, <1>17, <1>18, <1>19 DEF Fits
  <1> QED
    BY <1>20 DEF d, seen

\* NothingInvented, for every deployment: what a load that succeeds puts on the pages
\* was the case, part by part, while it was reading; a load that fails shows the banner.
THEOREM NothingIsInvented == Spec => NothingInvented
  <1>1. ASSUME IInv, [Next]_vars, load # NoLoad, load' = NoLoad
        PROVE  data'.error \/ Fits(data', load.seen)
    <2>1. CASE UNCHANGED vars
      BY <1>1, <2>1 DEF vars
    <2>2. CASE Environment
      BY <1>1, <2>2, EnvironmentKeeps
    <2>3. CASE Start
      BY <1>1, <2>3 DEF Start
    <2>4. CASE ReadHeaders \/ PingRedis \/ ReadHealthy \/ ReadState \/ ReadFailures
      BY <1>1, <2>4, HeadersKeep, PingKeeps, HealthyKeeps, StateKeeps, FailuresKeep
    <2>5. CASE Succeed
      BY <1>1, <2>5, SucceedFits
    <2>6. CASE Fail
      BY <1>1, <2>6, FailKeeps
    <2> QED
      BY <1>1, <2>1, <2>2, <2>3, <2>4, <2>5, <2>6 DEF Next, Step
  <1>2. IInv /\ [Next]_vars =>
           [load # NoLoad /\ load' = NoLoad => data'.error \/ Fits(data', load.seen)]_vars
    BY <1>1
  <1> QED
    BY <1>2, ConsoleInvariant, PTL DEF Spec, NothingInvented

================================================================================
