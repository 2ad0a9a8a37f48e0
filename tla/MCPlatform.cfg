SPECIFICATION PlatformSpec
CHECK_DEADLOCK FALSE
CONSTANTS
    Editors = {p1, p2}
    Viewers = {v1}
    TaskAgents = {q1, q2}
    Manifests <- TwoManifests
    MaxApps = 2
    MaxVersions = 2
    Requests = {p1, p2}
    Lookups = {q1, q2}
    Ttl = 2
    CallRetry = 1
    RpcTimeout = 1
    MaxSaves = 1
    MaxRotations = 1
    MaxTime = 2
    Workers = {p1, p2}
    Others = {o1}
    BatchRows = 2
    RequestDeadline = 2
    BatchDeadline = 2
    MaxRetries = 1
    Delays = {1}
    Caps = {9, 10}
    UsedBefore = {8}
    MaxCapChanges = 1
    MaxInstant = 3
    MaxQuestions = 1
    Listeners = {p1, p2}
    Tasks = {q1, q2}
    Slots = 1
    FinalVersion = 3
    MaxWatches = 2
    MaxPosted = 2
    Clients = {p1, p2}
    Names = {a, b}
    Fields = {f}
    Choices = {1, 2}
    MaxTables = 2
    MaxCalls = 4
    Retention = 1
    LastDay = 1
    Agents = {"a", "b"}
    Teams <- ThreeTeams
    ChangeKeys = {"configure"}
    MaxRulesCalls = 3
    MaxEvents = 1
    Staff = {"a", "b"}
    MaxIncidents = 2
    Processes = {p1, p2}
    Values = {"any", "agents"}
    MaxPasses = 3
    MaxChanges = 2
    Newest = 2
    Tagged = {1, 2}
    MaxRuns = 3
    MaxStops = 2
    MaxOwn = 1
    MaxDeeds = 1
SYMMETRY Alike
INVARIANTS
    OnlyConfirmedGoesOut
    SecretsAreCurrent
    BudgetIsKept
    WatchesWork
    TablesAgree
    AgentRulesHold
    UpdatesAreSafe
PROPERTIES
    FramesGoForward
