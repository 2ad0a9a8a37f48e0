SPECIFICATION ScenesSpec
CONSTANTS
    Callers <- CallerPair
    People <- AnnAndBob
    Managers <- OnePerson
    Methods = {"start", "cancel", "get"}
    MaxIssues = 2
    OpenLimit = 1
    StartLimit = 1
    Window = 1
    MaxClock = 1
    MaxReopened = 1
    c1 = c1
    c2 = c2
    ann = ann
    bob = bob
SYMMETRY CallersAlike
INVARIANTS
    WokenOnlyWithItsLink
    ClosedHasBeenFinal
    CancelSparesTheFinished
    LimitsHold
