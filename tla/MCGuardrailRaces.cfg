SPECIFICATION GuardedSpec
CHECK_DEADLOCK FALSE
CONSTANTS
    Callers <- CallerPair
    Actions <- JustDelete
    Counted <- JustDelete
    Issues <- OneIssue
    MaxCards = 2
    MaxRows = 1
    MaxClock = 0
    MaxHops = 20
    TTL = 2
    Grace = 1
    Askers <- CallerPair
    Teams <- TeamPair
    CacheMs = 2
    ListTimeout = 1
    MaxGroups = 1
    MaxAsked = 3
    MaxMoves = 1
    c1 = c1
    c2 = c2
    t1 = t1
    t2 = t2
    del = del
    drop = drop
    i1 = i1
    i2 = i2
SYMMETRY Alike
INVARIANTS
    OneRunPerApproval
    RunsNoMoreRowsThanShown
    RetryRaisesNoSecondCard
    AccessIsRight
PROPERTIES
    ImplementsApprovals
