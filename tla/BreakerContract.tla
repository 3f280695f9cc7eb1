---------------------------- MODULE BreakerContract ----------------------------
(***************************************************************************)
(* What a circuit breaker promises the proxy, without counters or clocks:  *)
(* callers pass freely while it is closed, nobody passes while it rests,   *)
(* and after the rest a single caller is granted the trial on whose report *)
(* - or on whose rivals' late reports - the breaker closes or rests again. *)
(***************************************************************************)
CONSTANT Callers

VARIABLES
    phase,     \* "closed", "open" or "half_open"
    permit,    \* half-open, and the trial has not been granted yet
    rested,    \* the recovery timeout has passed since the breaker opened
    inFlight   \* callers that passed and have not ended

vars == <<phase, permit, rested, inFlight>>

Init ==
    /\ phase = "closed"
    /\ permit = FALSE
    /\ rested = TRUE
    /\ inFlight = {}

Pass(c) ==
    /\ c \notin inFlight
    /\ inFlight' = inFlight \cup {c}
    /\ rested' = rested
    /\ permit' = FALSE
    /\ \/ phase = "closed" /\ phase' = "closed"
       \/ phase = "half_open" /\ permit /\ phase' = "half_open"
       \/ phase = "open" /\ rested /\ phase' = "half_open"

OfferTrial ==
    /\ phase = "open" /\ rested
    /\ phase' = "half_open"
    /\ permit' = TRUE
    /\ UNCHANGED <<rested, inFlight>>

Rest ==
    /\ phase = "open" /\ ~rested
    /\ rested' = TRUE
    /\ UNCHANGED <<phase, permit, inFlight>>

\* A caller ends without consequence ...
Leave(c) ==
    /\ c \in inFlight
    /\ inFlight' = inFlight \ {c}
    /\ UNCHANGED <<phase, permit, rested>>

\* ... or its report opens the breaker, which then rests from the beginning,
Trip(c) ==
    /\ c \in inFlight
    /\ inFlight' = inFlight \ {c}
    /\ phase \in {"closed", "half_open"}
    /\ phase' = "open"
    /\ permit' = FALSE
    /\ rested' = FALSE

\* or closes it, which only a half-open breaker does.
Heal(c) ==
    /\ c \in inFlight
    /\ inFlight' = inFlight \ {c}
    /\ phase = "half_open"
    /\ phase' = "closed"
    /\ permit' = FALSE
    /\ rested' = rested

Next ==
    \/ OfferTrial
    \/ Rest
    \/ \E c \in Callers : Pass(c) \/ Leave(c) \/ Trip(c) \/ Heal(c)

Spec == Init /\ [][Next]_vars

==============================================================================
