\* Two overlapping requests, a window of two seconds of three ticks, one lost
\* reply or timeout each, one stray script, one restart of Redis.  Requests may
\* keep coming, and Redis may never answer.  No symmetry: progress is checked.
CONSTANTS
    Requests = {r1, r2}
    Limit = 2
    Window = 6
    Second = 3
    Retries = 1
    MaxCount = 3
    MaxStrays = 1
    MaxRestarts = 1
SPECIFICATION FairSpec
INVARIANTS
    WindowAccounted
    SlidingBound
    RetryAfterClose
PROPERTIES
    WindowEnds
    EveryCallEnds
