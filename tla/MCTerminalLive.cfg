SPECIFICATION FairSpec
CONSTANTS
    Sessions <- OneSession
    Polls <- OnePoll
    Me <- MyPage
    Users = {u1}
    Companies = {co}
    NoSession = none
    MaxPerUser = 1
    EventUnits = 1
    Scrollback = 1
    ExitUnits = 1
    IdleTimeout = 1
    Retention = 1
    MaxWritten = 2
    MaxClock = 1
    MaxGen = 1
    s1 = s1
    s2 = s2
    u1 = u1
    co = co
    p1 = p1
    p2 = p2
PROPERTIES
    OutputArrives
    EndArrives
CHECK_DEADLOCK FALSE
