---------------------------- MODULE CircuitBreaker ----------------------------
(***************************************************************************)
(* One breaker shared by concurrent callers.  A caller is a request the    *)
(* proxy forwards to the guarded instance: it asks Allow, and if admitted  *)
(* it later reports RecordSuccess or RecordFailure - or reports nothing,   *)
(* when the handler is left between the two: httputil.ReverseProxy panics  *)
(* with http.ErrAbortHandler if the upstream body breaks off, and          *)
(* gin.Recovery catches the panic above the proxy.  Between its two calls  *)
(* a caller can be overtaken by any number of others, so a report can      *)
(* arrive in another state, or another half-open period, than the one the  *)
(* caller was admitted in.                                                 *)
(***************************************************************************)
EXTENDS Breaker

CONSTANTS Callers, NoCaller

ASSUME CallersAssumption == NoCaller \notin Callers

VARIABLES
    breaker,    \* the Breaker
    call,       \* caller -> "idle", "admitted", or "probe" when Allow
                \* admitted it in the half-open state

    \* History variables; the code has none of them, and no guard reads them.
    holder,     \* the caller that claimed the probe slot last
    orphaned,   \* it left without reporting in that half-open period
    streak,     \* failures reported since the last reported success
    sinceTrip,  \* ticks since the breaker last entered the open state
    admissions  \* callers admitted in the current half-open period

code == <<breaker, call>>
history == <<holder, orphaned, streak, sinceTrip, admissions>>
vars == <<breaker, call, holder, orphaned, streak, sinceTrip, admissions>>

Init ==
    /\ breaker = New
    /\ call = [c \in Callers |-> "idle"]
    /\ holder = NoCaller
    /\ orphaned = FALSE
    /\ streak = 0
    /\ sinceTrip = Recovery
    /\ admissions = 0

-----------------------------------------------------------------------------
\* History that follows from the step of the breaker alone.
Observe ==
    /\ sinceTrip' = IF breaker'.state = "open" /\ breaker.state # "open"
                    THEN 0 ELSE sinceTrip
    /\ admissions' = IF breaker'.state = "half_open" THEN admissions ELSE 0
    /\ orphaned' = (orphaned /\ breaker'.state = "half_open")

\* Allow returns true.
Admit(c) ==
    /\ call[c] = "idle"
    /\ Allows(breaker)
    /\ breaker' = AfterAllow(breaker)
    /\ LET probing == breaker'.state = "half_open"
       IN  /\ call' = [call EXCEPT ![c] = IF probing THEN "probe" ELSE "admitted"]
           /\ holder' = IF probing THEN c ELSE holder
           /\ orphaned' = FALSE
           /\ admissions' = IF probing THEN Saturate(admissions + 1, 2) ELSE 0
    /\ UNCHANGED <<streak, sinceTrip>>

\* Allow returns false.
Reject(c) ==
    /\ call[c] = "idle"
    /\ ~Allows(breaker)
    /\ breaker' = AfterAllow(breaker)
    /\ Observe
    /\ UNCHANGED <<call, holder, streak>>

RecordSuccess(c) ==
    /\ call[c] # "idle"
    /\ breaker' = AfterSuccess(breaker)
    /\ call' = [call EXCEPT ![c] = "idle"]
    /\ streak' = 0
    /\ Observe
    /\ UNCHANGED holder

RecordFailure(c) ==
    /\ call[c] # "idle"
    /\ breaker' = AfterFailure(breaker)
    /\ call' = [call EXCEPT ![c] = "idle"]
    /\ streak' = Saturate(streak + 1, MaxFails)
    /\ Observe
    /\ UNCHANGED holder

\* The handler is unwound by a panic between Allow and the report.
Abandon(c) ==
    /\ call[c] # "idle"
    /\ call' = [call EXCEPT ![c] = "idle"]
    /\ orphaned' = \/ orphaned
                    \/ /\ breaker.state = "half_open" /\ breaker.probeInFlight
                       /\ holder = c /\ call[c] = "probe"
    /\ UNCHANGED <<breaker, holder, streak, sinceTrip, admissions>>

\* State(): read by the proxy for its gauge and by the topology endpoint.
PollState ==
    /\ breaker' = maybeTransitionToHalfOpen(breaker)
    /\ Observe
    /\ UNCHANGED <<call, holder, streak>>

Tick ==
    /\ breaker' = AfterTick(breaker)
    /\ sinceTrip' = Saturate(sinceTrip + 1, Recovery)
    /\ UNCHANGED <<call, holder, orphaned, streak, admissions>>

Next ==
    \/ \E c \in Callers : \/ Admit(c)
                          \/ Reject(c)
                          \/ RecordSuccess(c)
                          \/ RecordFailure(c)
                          \/ Abandon(c)
    \/ PollState
    \/ Tick

Spec == Init /\ [][Next]_vars

(***************************************************************************)
(* Fairness.  Time passes; an admitted request ends (net/http gives the    *)
(* handler back when the upstream answers or its connection breaks: the    *)
(* transport sets no response timeout, so this is an assumption about the  *)
(* upstreams); and requests keep arriving, so some caller keeps asking.    *)
(***************************************************************************)
Finish(c) == RecordSuccess(c) \/ RecordFailure(c) \/ Abandon(c)

FairSpec ==
    /\ Spec
    /\ WF_vars(Tick)
    /\ WF_vars(\E c \in Callers : Admit(c) \/ Reject(c))
    /\ \A c \in Callers : WF_vars(Finish(c))

-----------------------------------------------------------------------------
TypeOK ==
    /\ breaker \in Breakers
    /\ call \in [Callers -> {"idle", "admitted", "probe"}]
    /\ holder \in Callers \cup {NoCaller}
    /\ orphaned \in BOOLEAN
    /\ streak \in 0..MaxFails
    /\ sinceTrip \in 0..Recovery
    /\ admissions \in 0..2

\* A claimed probe slot is never lost by the breaker's own bookkeeping: while
\* half-open with probeInFlight set, the caller whose Allow set the flag has
\* yet to report, or left without reporting.  Reports of other, overtaken
\* callers may close or reopen the breaker but never leave it half-open with
\* a flag nobody will clear.
SlotAccounted ==
    breaker.state = "half_open" /\ breaker.probeInFlight =>
        /\ holder \in Callers
        /\ orphaned \/ call[holder] = "probe"

\* Allow admits at most one request between entering half-open and leaving it,
\* however many callers race for it.
OneProbePerHalfOpen ==
    /\ admissions <= 1
    /\ breaker.state = "half_open" /\ ~breaker.probeInFlight => admissions = 0

\* A closed breaker's counter is the run of failures that ends the sequence of
\* all reports, in whatever states they arrived, and is short of the threshold:
\* the breaker trips on exactly the Threshold-th consecutive failure, and a
\* breaker that closes again starts from a run of zero.
ClosedCountsRun ==
    breaker.state = "closed" =>
        /\ breaker.fails = streak
        /\ streak < Threshold
        /\ ~breaker.probeInFlight

\* From the report that opens the breaker until RecoveryTimeout has passed, no
\* caller is admitted and the breaker is open, also when the open period
\* follows a failed probe.
CooldownRespected ==
    sinceTrip < Recovery => breaker.state = "open" /\ ~Allows(breaker)

\* What makes OneProbePerHalfOpen and CooldownRespected inductive: a half-open
\* period has admitted exactly the probe its flag stands for, and a breaker that
\* is not open has rested since it last was.
AdmissionsMatchFlag ==
    admissions = IF breaker.state = "half_open" /\ breaker.probeInFlight
                 THEN 1 ELSE 0
ClockMatchesTrip ==
    IF breaker.state = "open" THEN breaker.elapsed = sinceTrip
    ELSE breaker.elapsed = Recovery /\ sinceTrip = Recovery

\* The inductive invariant.
IInv ==
    /\ TypeOK
    /\ SlotAccounted
    /\ AdmissionsMatchFlag
    /\ ClosedCountsRun
    /\ ClockMatchesTrip

\* A breaker leaves open only by becoming half-open (a late success never
\* closes it), and closed only by opening.
NoShortcut ==
    [][ /\ breaker.state = "open" => breaker'.state # "closed"
        /\ breaker.state = "closed" => breaker'.state # "half_open" ]_vars

\* An open breaker does not stay open: once the cooldown is over, the next
\* caller or poll moves it on.
OpenEnds == breaker.state = "open" ~> breaker.state # "open"

\* A half-open period ends, unless its probe left without reporting.
HalfOpenEnds ==
    breaker.state = "half_open" ~> breaker.state # "half_open" \/ orphaned

\* The breaker implements the contract the proxy relies on.
Contract == INSTANCE BreakerContract WITH
    phase    <- breaker.state,
    permit   <- breaker.state = "half_open" /\ ~breaker.probeInFlight,
    rested   <- breaker.elapsed >= Recovery,
    inFlight <- {c \in Callers : call[c] # "idle"}

\* Nobody passes a resting breaker, one caller per trial passes a half-open one,
\* and only a report of a caller in flight closes or opens it, whatever the
\* order in which overlapping requests end.
ImplementsContract == Contract!Spec

-----------------------------------------------------------------------------
(* What the package's comments and the project's documents say. *)

\* README.md:97-98 and circuitbreaker.go:113-114: a half-open breaker waits for
\* its probe to complete and then moves on.
HalfOpenAlwaysEnds == breaker.state = "half_open" ~> breaker.state # "half_open"

==============================================================================
