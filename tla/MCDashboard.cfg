\* Two ranges, refreshing off or every three ticks, loads that answer before
\* the interval fires unless the user overlaps them, three clicks.
CONSTANTS
    Ranges = {"5m", "1h"}
    Periods = {0, 3}
    Slowest = 2
    MaxClicks = 3
SPECIFICATION FairSpec
INVARIANTS
    NeverBackwards
    SettledOnRange
PROPERTIES
    LoadingEnds
    RangeIsShown
\* With refreshing off and nothing in flight the page waits for the user.
CHECK_DEADLOCK FALSE
