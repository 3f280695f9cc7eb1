\* Two connections, three requests, a log of two: it wraps and evicts.  The
\* process may end, so a state without a successor is no error.
SPECIFICATION FairSpec
CONSTANTS
    Conns = {c1, c2}
    MaxRequests = 3
    Pings = 2
    Drain = 1
    Capacity = 2
    Requests <- MCRequests
    Limits <- MCLimits
    NoRequest = NoRequest
CHECK_DEADLOCK FALSE
INVARIANTS
    OnlyPanicsUncounted
    GaugeIsInside
    RecordedThenCounted
    DrainedBeforeClose
PROPERTIES
    ImplementsLog
    SignalEndsProcess
    Starts
