SPECIFICATION Spec
CONSTANTS
    Writers <- OneWriter
    MaxRows = 1
    Sources <- SourcePair
    Questions <- QuestionPair
    Lag = 1
    WriteLimit = 1
    ScanPage = 1
    Budget = 1
    MaxClock = 4
    LastWrite = 2
    MaxAsks = 2
    MaxDeletes = 1
    w1 = w1
    w2 = w2
    q1 = q1
    q2 = q2
    s1 = s1
    s2 = s2
SYMMETRY DataAlike
INVARIANTS
    NothingLeftBehind
    RecordedValueStands
    RequestedFillHappens
