\* Three overlapping callers are enough for an admission to outlive two
\* half-open periods; a threshold above one; a timeout out of range, which New
\* replaces by its default of two ticks.  No symmetry: progress is checked too.
CONSTANTS
    Callers = {c1, c2, c3}
    NoCaller = NoCaller
    FailureThreshold = 2
    RecoveryTimeout = 0
    DefaultRecovery = 2
    MaxFails = 4
SPECIFICATION FairSpec
INVARIANTS
    SlotAccounted
    OneProbePerHalfOpen
    ClosedCountsRun
    CooldownRespected
PROPERTIES
    ImplementsContract
    OpenEnds
    HalfOpenEnds
