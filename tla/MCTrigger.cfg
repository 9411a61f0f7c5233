CONSTANTS
    l1 = l1
    l2 = l2
    r1 = r1
    r2 = r2
    Loads = {l1}
    Runs = {r1, r2}
    Presses = {}
    Taps = {t1}
    NoRun = NoRun
    NoLoad = NoLoad
    SendLoads = {l1}
    Sending = TRUE
    TriggerMode = TRUE
    Overlaps = TRUE
    N8n = FALSE
    MaxNumber = 1
    RetryLimit = 1
    WaitLimit = 1
    SearchLimit = 2
    RunsPerLine = 2
    MaxRestarts = 1
    MaxBills = 1
    PowerLosses = FALSE
SPECIFICATION Spec
SYMMETRY RunSymmetry
CHECK_DEADLOCK FALSE
INVARIANTS TypeOK RecordedIsInGmail NothingForgotten MaybeSentIsUnfound
PROPERTIES OnlySearchConfirms SendOnlyAsked NoSendOverBilled KeepsPromise
