CONSTANTS
    l1 = l1
    l2 = l2
    r1 = r1
    r2 = r2
    Loads = {l1}
    Runs = {r1, r2}
    Presses = {}
    Taps = {}
    NoRun = NoRun
    NoLoad = NoLoad
    SendLoads = {l1}
    Sending = TRUE
    TriggerMode = TRUE
    Overlaps = TRUE
    N8n = FALSE
    MaxNumber = 1
    RetryLimit = 1
    WaitLimit = 1
    SearchLimit = 1
    RunsPerLine = 1
    MaxRestarts = 1
    MaxBills = 1
    PowerLosses = TRUE
SPECIFICATION FairSpec
CHECK_DEADLOCK FALSE
INVARIANTS AtMostOneSend
PROPERTIES NoSendOverBilled NothingLeftBehind
