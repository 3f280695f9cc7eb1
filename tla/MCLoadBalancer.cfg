\* Two overlapping requests over two instances; every way a request can end.
CONSTANTS
    N = 2
    Requests = {r1, r2}
    Outcomes = {"success", "failure", "abort"}
    BadAddrs = {}
    Nobody = Nobody
    FailureThreshold = 1
    RecoveryTimeout = 1
    DefaultRecovery = 5
    MaxFails = 2
SPECIFICATION Spec
SYMMETRY RequestSymmetry
INVARIANTS
    RejectsOnlyAfterFullScan
    RoundRobin
PROPERTIES
    ImplementsContracts
