SPECIFICATION Spec
CONSTANTS
    Callers <- CallerPair
    Actions <- JustDelete
    Counted <- JustDelete
    Issues <- OneIssue
    MaxCards = 2
    MaxRows = 1
    MaxClock = 0
    MaxHops = 20
    TTL = 2
    Grace = 1
    c1 = c1
    c2 = c2
    del = del
    drop = drop
    i1 = i1
    i2 = i2
SYMMETRY CallersAlike
INVARIANTS
    OnlyAPersonReleasesAHeldAction
