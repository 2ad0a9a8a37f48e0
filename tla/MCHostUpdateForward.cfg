SPECIFICATION HostSpec
CHECK_DEADLOCK FALSE
CONSTANTS
    Newest = 2
    Tagged = {1, 2}
    MaxRuns = 3
    MaxStops = 2
    MaxOwn = 1
    MaxDeeds = 1
INVARIANTS
    OnlyForward
