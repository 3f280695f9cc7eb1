\* A load may take as long as the interval, or longer; nobody clicks.
CONSTANTS
    Ranges = {"5m", "1h"}
    Periods = {2}
    Slowest = 3
    MaxClicks = 0
SPECIFICATION FairSpec
PROPERTY LoadingEnds
