\* Two instances, one of them with an unusable address, two overlapping
\* requests, fairness, no broken response bodies, which HalfOpenAlwaysEnds
\* covers; no symmetry.
CONSTANTS
    N = 2
    Requests = {r1, r2}
    Outcomes = {"success", "failure"}
    BadAddrs = {1}
    Nobody = Nobody
    FailureThreshold = 1
    RecoveryTimeout = 1
    DefaultRecovery = 5
    MaxFails = 2
SPECIFICATION FairSpec
INVARIANT ProbeHasReporter
PROPERTIES
    EveryRequestEnds
    Rejoins
