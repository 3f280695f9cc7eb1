------------------------------- MODULE Breaker -------------------------------
(***************************************************************************)
(* One circuit breaker (internal/circuitbreaker) as a record, and what     *)
(* each of its methods does to that record.  Every method holds b.mu from  *)
(* its first to its last statement, so each is one atomic operator here.   *)
(*                                                                         *)
(*   state          b.state                                                *)
(*   fails          b.consecutiveFails, saturating at MaxFails             *)
(*   elapsed        time.Since(b.openedAt) in ticks, saturating at         *)
(*                  Recovery: the code only compares it with that bound    *)
(*   probeInFlight  b.probeInFlight                                        *)
(*                                                                         *)
(* b.lastStateChange is written with every change of state and read only   *)
(* by the topology endpoint; it carries no control and is left out.        *)
(***************************************************************************)
EXTENDS Integers

CONSTANTS
    FailureThreshold,  \* Options.FailureThreshold, as the caller passes it
    RecoveryTimeout,   \* Options.RecoveryTimeout in ticks, as passed
    DefaultRecovery,   \* the 30 seconds New falls back to, in ticks
    MaxFails           \* bound: where the failure counter saturates

\* The options New stores: out-of-range values are replaced.
Threshold == IF FailureThreshold < 1 THEN 1 ELSE FailureThreshold
Recovery  == IF RecoveryTimeout <= 0 THEN DefaultRecovery ELSE RecoveryTimeout

ASSUME BreakerAssumption ==
    /\ FailureThreshold \in Int
    /\ RecoveryTimeout \in Int
    /\ DefaultRecovery \in Nat \ {0}
    /\ MaxFails \in Nat
    /\ MaxFails > Threshold

States == {"closed", "open", "half_open"}

Breakers == [ state         : States,
              fails         : 0..MaxFails,
              elapsed       : 0..Recovery,
              probeInFlight : BOOLEAN ]

Saturate(n, bound) == IF n > bound THEN bound ELSE n

\* openedAt is Go's zero time until the first trip: long ago.
New == [ state |-> "closed", fails |-> 0, elapsed |-> Recovery,
         probeInFlight |-> FALSE ]

\* Mutant: the elapsed timeout is never resolved.
NeverHalfOpen(b) == b

maybeTransitionToHalfOpen(b) ==
    IF b.state = "open" /\ b.elapsed >= Recovery
    THEN [b EXCEPT !.state = "half_open", !.probeInFlight = FALSE]
    ELSE b

\* Mutant: the flag of the probe in flight is not consulted.
AllowsEveryProbe(b) == maybeTransitionToHalfOpen(b).state # "open"

\* What Allow returns ...
Allows(b) ==
    LET r == maybeTransitionToHalfOpen(b)
    IN  r.state = "closed" \/ (r.state = "half_open" /\ ~r.probeInFlight)

\* ... and the breaker it leaves.
AfterAllow(b) ==
    LET r == maybeTransitionToHalfOpen(b)
    IN  IF r.state = "half_open" THEN [r EXCEPT !.probeInFlight = TRUE] ELSE r

\* Mutants: a success does not clear a partial run of failures; in half-open it
\* resets the counter but not the state.
SuccessKeepsRun(b) ==
    IF b.state = "half_open"
    THEN [b EXCEPT !.state = "closed", !.probeInFlight = FALSE]
    ELSE b
SuccessStaysHalfOpen(b) ==
    IF b.state = "open" THEN b ELSE [b EXCEPT !.fails = 0]

AfterSuccess(b) ==
    CASE b.state = "half_open" -> [b EXCEPT !.state = "closed", !.fails = 0,
                                            !.probeInFlight = FALSE]
      [] b.state = "closed"    -> [b EXCEPT !.fails = 0]
      [] OTHER                 -> b

\* Mutants: a failed probe is counted like any other failure and does not
\* reopen the breaker; it reopens it without a new openedAt.
FailureIgnoresHalfOpen(b) ==
    LET n == Saturate(b.fails + 1, MaxFails)
    IN  IF b.state = "closed" /\ n >= Threshold
        THEN [b EXCEPT !.state = "open", !.fails = n, !.elapsed = 0]
        ELSE IF b.state = "open" THEN b ELSE [b EXCEPT !.fails = n]
FailureKeepsOpenedAt(b) ==
    LET n == Saturate(b.fails + 1, MaxFails)
    IN  IF b.state = "half_open" \/ (b.state = "closed" /\ n >= Threshold)
        THEN [b EXCEPT !.state = "open", !.fails = n, !.probeInFlight = FALSE]
        ELSE IF b.state = "open" THEN b ELSE [b EXCEPT !.fails = n]

AfterFailure(b) ==
    LET n == Saturate(b.fails + 1, MaxFails)
    IN  CASE b.state = "half_open" ->
               [b EXCEPT !.state = "open", !.fails = n, !.elapsed = 0,
                         !.probeInFlight = FALSE]
          [] b.state = "closed" /\ n >= Threshold ->
               [b EXCEPT !.state = "open", !.fails = n, !.elapsed = 0]
          [] b.state = "closed" /\ n < Threshold ->
               [b EXCEPT !.fails = n]
          [] OTHER -> b

\* The clock advances by one tick.
AfterTick(b) == [b EXCEPT !.elapsed = Saturate(b.elapsed + 1, Recovery)]

==============================================================================
