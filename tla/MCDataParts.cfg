SPECIFICATION DataSpec
CHECK_DEADLOCK FALSE
CONSTANTS
    Writers <- Pair
    MaxRows = 2
    Sources = {s1}
    Questions = {q1}
    Lag = 2
    WriteLimit = 1
    ScanPage = 1
    Budget = 1
    MaxClock = 5
    LastWrite = 3
    MaxAsks = 0
    MaxDeletes = 0
    Callers <- Pair
    Companies = {a, b}
    RowIds <- OtherPair
    PoolSizes = {1, 2}
    MaxAffected = 1
    MaxCalls = 2
    MaxFaults = 1
    Persons <- ThreePeople
    Operators <- Pair
    FreeSeats = 2
    Licences <- Keys
    MaxDay = 1
    MaxCommands = 2
    x1 = x1
    x2 = x2
    y1 = y1
    y2 = y2
    third = third
SYMMETRY Alike
INVARIANTS
    ColumnsAreFilled
    RowCallsAreWhole
    AccountsHold
