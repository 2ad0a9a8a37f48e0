SPECIFICATION BridgedSpec
CHECK_DEADLOCK FALSE
CONSTANTS
    Callers <- OneCaller
    Actions <- JustDelete
    Counted <- JustDelete
    Issues <- TwoIssues
    MaxCards = 2
    MaxRows = 1
    MaxClock = 3
    MaxHops = 20
    TTL = 1
    Grace = 1
    Calls <- CallPair
    Links = {l1}
    Allowance <- Few
    Span = 2
    LimitedWindows = 3
    Mismatches = 2
    SaveWait = 2
    CallWait = 3
    LastVersion = 2
    MaxTick = 8
    MaxMounts = 2
    MaxPosts = 1
    a1 = a1
    a2 = a2
    c1 = c1
    c2 = c2
    del = del
    drop = drop
    i1 = i1
    i2 = i2
SYMMETRY CallsAlike
INVARIANTS
    TypeOK
    ReplacementIsKept
    ModelReleasesNothingHeld
    RunsWhatAPersonAllowed
    FramesAreBridged
