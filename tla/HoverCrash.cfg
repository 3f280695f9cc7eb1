SPECIFICATION FairSpec
CONSTANTS
    short = short
    long = long
    orders = orders
    FirstRange = short
    FirstPeriod = 3
    TimeRanges = {short, long}
    Samples <- MCSamples
    Periods = {0, 1, 3}
    Slowest = 2
    MaxRequests = 2
    MaxSwitches = 2
    Methods = {"GET", "POST"}
    WithBody = {"POST"}
    Paths = {orders}
    Default <- MCDefault
    MaxSends = 2
    RoundsUp = {}
INVARIANTS NeverBlank
