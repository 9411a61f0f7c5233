CONSTANTS
    l1 = l1
    l2 = l2
    r1 = r1
    r2 = r2
    Loads = {l1}
    Runs = {r1, r2}
    Presses = {p1}
    NoRun = NoRun
    NoLoad = NoLoad
    SendLoads = {l1}
    Sending = TRUE
    TriggerMode = FALSE
    Overlaps = FALSE
    N8n = FALSE
    MaxNumber = 2
    RetryLimit = 1
    WaitLimit = 1
    SearchLimit = 2
    MaxCrashes = 1
    MaxOverruns = 1
SPECIFICATION Spec
SYMMETRY RunSymmetry
CHECK_DEADLOCK FALSE
INVARIANTS TypeOK AtMostOneSend OneSideWins RecordsTrue NothingForgotten SendInv
PROPERTIES OnlySearchConfirms KeepsPromise
