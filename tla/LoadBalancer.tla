----------------------------- MODULE LoadBalancer -----------------------------
(***************************************************************************)
(* The load-balanced reverse proxy of one service: the handlers that       *)
(* internal/proxy.NewLoadBalancedProxy runs, one per request, over the     *)
(* instances internal/registry keeps, each with its own circuit breaker.   *)
(*                                                                         *)
(* Registry.Next holds r.mu through its whole scan, but reads an           *)
(* instance's health and asks its breaker under two other locks, so health *)
(* probes, reports of other requests, topology polls and the clock move    *)
(* between the iterations of a scan and inside each.  Later the handler    *)
(* reports to the breaker, reads its state and publishes it in a gauge:    *)
(* three more separate steps.                                              *)
(*                                                                         *)
(* r.next is kept modulo the number of instances.  The code keeps a        *)
(* uint64 and takes it modulo the same number on use; the two differ only  *)
(* when the counter wraps at 2^64.                                         *)
(***************************************************************************)
EXTENDS Breaker, FiniteSets

CONSTANTS
    N,          \* number of instances of the service
    Requests,   \* handlers that can be active at once; each serves requests
                \* one after the other
    Outcomes,   \* how forwarding may end: a subset of AllOutcomes
    BadAddrs,   \* instances whose address url.Parse refuses
    Nobody

Instances == 0..N-1

\* "success": the upstream's answer, below 500, was copied to the client.
\* "failure": an answer of 500 or more, or ErrorHandler ran (connection refused
\*            or lost, request cancelled by the client).
\* "abort":   copying the upstream's body failed and ServeHTTP panicked with
\*            http.ErrAbortHandler.
AllOutcomes == {"success", "failure", "abort"}

ASSUME LoadBalancerAssumption ==
    /\ N \in Nat \ {0}
    /\ Outcomes \subseteq AllOutcomes
    /\ BadAddrs \subseteq Instances
    /\ Nobody \notin Requests

VARIABLES
    breaker,   \* instance -> Breaker
    healthy,   \* instance -> i.healthy
    next,      \* r.next % len(r.instances)
    mu,        \* the request that holds r.mu, or Nobody
    gauge,     \* instance -> gateway_circuit_breaker_state, "none" until set
    req,       \* request -> where its handler is, and its local variables

    \* History variables, read by no guard.
    examined,  \* request -> instances its scan has looked at, until it ends
    passed     \* instance -> selections of others while this one was
               \* available without interruption

history == <<examined, passed>>
vars == <<breaker, healthy, next, mu, gauge, req, examined, passed>>

PCs == {"idle", "lock", "scan", "allow", "reject", "forward", "record",
        "observe", "publish"}

\* inst: the instance being tried or used; tried: iterations done in Next;
\* outcome: upstreamFailed; seen: what State() returned.
Idle == [pc |-> "idle", inst |-> 0, tried |-> 0, outcome |-> "success",
         seen |-> "closed"]

Init ==
    /\ breaker = [i \in Instances |-> New]
    /\ healthy = [i \in Instances |-> TRUE]
    /\ next = 0
    /\ mu = Nobody
    /\ gauge = [i \in Instances |-> "none"]
    /\ req = [r \in Requests |-> Idle]
    /\ examined = [r \in Requests |-> {}]
    /\ passed = [i \in Instances |-> 0]

-----------------------------------------------------------------------------
(* History that follows from the other primed variables. *)

\* What a request that tried instance i now would find.
Available(h, b, i) == h[i] /\ Allows(b[i])

\* The instances of S are selected in this step (one or none).
CountPassed(S) ==
    passed' = [i \in Instances |->
        IF i \in S \/ ~Available(healthy, breaker, i)
                   \/ ~Available(healthy', breaker', i)
        THEN 0
        ELSE IF S = {} THEN passed[i] ELSE Saturate(passed[i] + 1, N)]

-----------------------------------------------------------------------------
(* Registry.Next *)

\* A request arrives and calls Next ...
Arrive(r) ==
    /\ req[r].pc = "idle"
    /\ req' = [req EXCEPT ![r].pc = "lock"]
    /\ UNCHANGED <<breaker, healthy, next, mu, gauge, history>>

\* ... which locks the registry.
Lock(r) ==
    /\ req[r].pc = "lock"
    /\ mu = Nobody
    /\ mu' = r
    /\ req' = [req EXCEPT ![r].pc = "scan"]
    /\ UNCHANGED <<breaker, healthy, next, gauge, history>>

\* r's handler after an instance turned out unavailable: another iteration, or
\* nil and the deferred unlock.
Skipped(l) ==
    IF l.tried + 1 < N
    THEN [Idle EXCEPT !.pc = "scan", !.tried = l.tried + 1]
    ELSE [Idle EXCEPT !.pc = "reject"]

\* Mutants: unlocking before Allow is asked; not unlocking when nil is returned.
ReleaseEarly(r) == mu' = Nobody
ReleaseOnlyFound(r) == mu' = IF req'[r].pc = "forward" THEN Nobody ELSE mu
Release(r) == mu' = IF req'[r].pc \in {"forward", "reject"} THEN Nobody ELSE mu

\* Mutant: the cursor goes back to the first instance.
AdvanceToFirst(n) == 0

\* Where an iteration that takes instance n leaves the cursor.
Advance(n) == (n + 1) % N

\* The head of an iteration, and the Healthy() half of IsAvailable.
ReadHealthy(r) ==
    /\ req[r].pc = "scan"
    /\ LET i == next
       IN  /\ req' = [req EXCEPT ![r] =
                        IF healthy[i]
                        THEN [@ EXCEPT !.pc = "allow", !.inst = i]
                        ELSE Skipped(@)]
           /\ examined' = [examined EXCEPT ![r] = @ \cup {i}]
    /\ next' = Advance(next)
    /\ Release(r)
    /\ UNCHANGED <<breaker, healthy, gauge, passed>>

\* The Breaker.Allow() half.
TryAllow(r) ==
    LET i  == req[r].inst
        ok == Allows(breaker[i])
    IN  /\ req[r].pc = "allow"
        /\ breaker' = [breaker EXCEPT ![i] = AfterAllow(@)]
        /\ req' = [req EXCEPT ![r] = IF ok THEN [@ EXCEPT !.pc = "forward", !.tried = 0]
                                           ELSE Skipped(@)]
        /\ Release(r)
        /\ examined' = [examined EXCEPT ![r] = IF ok THEN {} ELSE @]
        /\ UNCHANGED <<healthy, next, gauge>>
        /\ CountPassed(IF ok THEN {i} ELSE {})

-----------------------------------------------------------------------------
(* The rest of the handler *)

\* Next returned nil: answer 503.
Reject(r) ==
    /\ req[r].pc = "reject"
    /\ req' = [req EXCEPT ![r] = Idle]
    /\ examined' = [examined EXCEPT ![r] = {}]
    /\ UNCHANGED <<breaker, healthy, next, mu, gauge, passed>>

\* url.Parse refuses the address: answer 502 and report nothing.
BadAddress(r) ==
    /\ req[r].pc = "forward"
    /\ req[r].inst \in BadAddrs
    /\ req' = [req EXCEPT ![r] = Idle]
    /\ UNCHANGED <<breaker, healthy, next, mu, gauge, history>>

\* ServeHTTP returns.
Respond(r) ==
    /\ req[r].pc = "forward"
    /\ req[r].inst \notin BadAddrs
    /\ \E o \in Outcomes \ {"abort"} :
          req' = [req EXCEPT ![r].pc = "record", ![r].outcome = o]
    /\ UNCHANGED <<breaker, healthy, next, mu, gauge, history>>

\* ServeHTTP panics; gin.Recovery ends the request above the handler.
Abort(r) ==
    /\ req[r].pc = "forward"
    /\ req[r].inst \notin BadAddrs
    /\ "abort" \in Outcomes
    /\ req' = [req EXCEPT ![r] = Idle]
    /\ UNCHANGED <<breaker, healthy, next, mu, gauge, history>>

\* The report to the breaker (and the per-instance counters).
Record(r) ==
    LET i == req[r].inst
    IN  /\ req[r].pc = "record"
        /\ breaker' = [breaker EXCEPT ![i] =
               IF req[r].outcome = "success" THEN AfterSuccess(@)
                                             ELSE AfterFailure(@)]
        /\ req' = [req EXCEPT ![r] = [Idle EXCEPT !.pc = "observe", !.inst = i]]
        /\ UNCHANGED <<healthy, next, mu, gauge, examined>>
        /\ CountPassed({})

\* instance.Breaker.State(), the argument of the gauge's Set ...
Observe(r) ==
    LET i == req[r].inst
    IN  /\ req[r].pc = "observe"
        /\ breaker' = [breaker EXCEPT ![i] = maybeTransitionToHalfOpen(@)]
        /\ req' = [req EXCEPT ![r].pc = "publish", ![r].seen = breaker'[i].state]
        /\ UNCHANGED <<healthy, next, mu, gauge, examined>>
        /\ CountPassed({})

\* ... and Set itself; the handler returns.
Publish(r) ==
    /\ req[r].pc = "publish"
    /\ gauge' = [gauge EXCEPT ![req[r].inst] = req[r].seen]
    /\ req' = [req EXCEPT ![r] = Idle]
    /\ UNCHANGED <<breaker, healthy, next, mu, history>>

-----------------------------------------------------------------------------
(* Around the handlers *)

\* A health probe of instance i ends and stores its result.
SetHealthy(i, up) ==
    /\ up => i \notin BadAddrs
    /\ healthy' = [healthy EXCEPT ![i] = up]
    /\ UNCHANGED <<breaker, next, mu, gauge, req, examined>>
    /\ CountPassed({})

\* The topology endpoint asks an instance's breaker for its state.
PollState(i) ==
    /\ breaker' = [breaker EXCEPT ![i] = maybeTransitionToHalfOpen(@)]
    /\ UNCHANGED <<healthy, next, mu, gauge, req, examined>>
    /\ CountPassed({})

Tick ==
    /\ breaker' = [i \in Instances |-> AfterTick(breaker[i])]
    /\ UNCHANGED <<healthy, next, mu, gauge, req, examined>>
    /\ CountPassed({})

Scan(r) == Lock(r) \/ ReadHealthy(r) \/ TryAllow(r)

Handle(r) ==
    Reject(r) \/ BadAddress(r) \/ Respond(r) \/ Abort(r)
    \/ Record(r) \/ Observe(r) \/ Publish(r)

Next ==
    \/ \E r \in Requests : Arrive(r) \/ Scan(r) \/ Handle(r)
    \/ \E i \in Instances : PollState(i) \/ \E up \in BOOLEAN : SetHealthy(i, up)
    \/ Tick

Spec == Init /\ [][Next]_vars

(***************************************************************************)
(* Fairness.  A goroutine that can run is run; Go's sync.Mutex hands the   *)
(* lock to a waiter that has starved for a millisecond, so a request that  *)
(* finds r.mu free again and again gets it (strong fairness of Lock); the  *)
(* upstream answers or its connection breaks (an assumption: the transport *)
(* has no response timeout); time passes; requests keep arriving.          *)
(***************************************************************************)
FairSpec ==
    /\ Spec
    /\ WF_vars(Tick)
    /\ \A r \in Requests :
          /\ WF_vars(Arrive(r))
          /\ SF_vars(Lock(r))
          /\ WF_vars(ReadHealthy(r) \/ TryAllow(r))
          /\ WF_vars(Handle(r))

-----------------------------------------------------------------------------
\* The requests that were admitted to instance i and may still report.
InFlight(i) ==
    {r \in Requests : req[r].inst = i /\ req[r].pc \in {"forward", "record"}}

\* No instance is picked behind the lock: a request that is scanning holds
\* r.mu, and no other request is scanning.
ScanIsExclusive ==
    \A r \in Requests : req[r].pc \in {"scan", "allow"} <=> mu = r

\* A request is answered 503 only after its own scan has looked at every
\* instance once, whatever other requests did to the round-robin cursor.
RejectsOnlyAfterFullScan ==
    \A r \in Requests : req[r].pc = "reject" => examined[r] = Instances

\* Round-robin over whoever is available: an instance that stays available is
\* passed over at most once for each other instance before it is selected.
RoundRobin == \A i \in Instances : passed[i] < N

\* A half-open breaker that refuses everybody has a request in flight whose
\* report will move it on (where upstream bodies do not break off).
ProbeHasReporter ==
    \A i \in Instances :
        breaker[i].state = "half_open" /\ breaker[i].probeInFlight
            => InFlight(i) # {}

\* Each instance's breaker keeps the breaker contract when it is driven by the
\* handlers: requests in flight on i are the contract's callers.
Contract(i) == INSTANCE BreakerContract WITH
    Callers  <- Requests,
    phase    <- breaker[i].state,
    permit   <- breaker[i].state = "half_open" /\ ~breaker[i].probeInFlight,
    rested   <- breaker[i].elapsed >= Recovery,
    inFlight <- InFlight(i)

\* Every step of every handler, probe, poll and clock tick is a step of the
\* contract of each instance's breaker or leaves it alone: an instance is only
\* forwarded to through Allow, and each admission reports at most once.
ImplementsContracts ==
    /\ \A i \in Instances : Contract(i)!Init
    /\ [][\A i \in Instances : [Contract(i)!Next]_(Contract(i)!vars)]_vars

\* Every request that arrives is answered.
EveryRequestEnds ==
    \A r \in Requests : req[r].pc # "idle" ~> req[r].pc = "idle"

\* README.md:98: an instance that comes back "rejoins rotation".  Once it stays
\* healthy and its requests succeed, its breaker closes for good (where upstream
\* bodies do not break off: see ProbeHasReporter).
Serves(i) ==
    /\ healthy[i]
    /\ \A r \in InFlight(i) : req[r].outcome = "success"
Rejoins ==
    \A i \in Instances : <>[]Serves(i) => <>[](breaker[i].state = "closed")

==============================================================================
