SPECIFICATION Spec
CONSTANTS
    Writers <- OneWriter
    MaxRows = 1
    Sources <- OneSource
    Questions <- OneQuestion
    Lag = 1
    WriteLimit = 1
    ScanPage = 1
    Budget = 1
    MaxClock = 3
    LastWrite = 2
    MaxAsks = 1
    MaxDeletes = 0
    w1 = w1
    w2 = w2
    q1 = q1
    q2 = q2
    s1 = s1
    s2 = s2
INVARIANTS
    RefillAsksAgain
