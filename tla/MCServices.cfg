SPECIFICATION ServicesSpec
CHECK_DEADLOCK FALSE
CONSTANTS
    Sessions <- Pair
    NoSession = none
    Users <- UserPair
    Polls = {p1}
    Companies = {co}
    MaxPerUser = 1
    EventUnits = 2
    Scrollback = 3
    ExitUnits = 1
    IdleTimeout = 1
    Retention = 1
    MaxWritten = 3
    MaxClock = 1
    People <- UserPair
    Devices = {d1, d2}
    Errands <- Pair
    MaxDevices = 1
    RecentEvents = 1
    Window = 1
    MaxErrands = 4
    MaxNews = 2
    MaxHour = 1
    Visits <- Pair
    Paths <- PathPair
    RoleCacheMs = 2
    RoleTimeout = 1
    MaxMoment = 4
    MaxStamp = 3
    MaxVisits = 3
    MaxTyped = 1
    Setups <- Pair
    MaxStarts = 1
    MaxHands = 1
    MaxTries = 2
    u1 = u1
    u2 = u2
    x1 = x1
    x2 = x2
    y1 = y1
    y2 = y2
SYMMETRY Alike
INVARIANTS
    SessionOutputIsWhole
    AnswersWakeAndTell
    NoticesReachTheirPeople
    FilesAreKept
    BootstrapHolds
