CONSTANTS
    Callers = {c1, c2}
    NoCaller = NoCaller
    FailureThreshold = 1
    RecoveryTimeout = 1
    DefaultRecovery = 5
    MaxFails = 3
SPECIFICATION FairSpec
PROPERTY HalfOpenAlwaysEnds
