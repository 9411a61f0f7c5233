CONSTANTS
    l1 = l1
    l2 = l2
    r1 = r1
    r2 = r2
    Loads = {l1}
    Runs = {r1, r2}
    Presses = {p1}
    Taps = {t1}
    NoRun = NoRun
    NoLoad = NoLoad
    SendLoads = {l1}
    Sending = TRUE
    TriggerMode = TRUE
    Overlaps = TRUE
    N8n = FALSE
    MaxNumber = 2
    RetryLimit = 1
    WaitLimit = 1
    SearchLimit = 1
    RunsPerLine = 1
    MaxRestarts = 0
    MaxBills = 0
    PowerLosses = FALSE
SPECIFICATION Spec
SYMMETRY RunSymmetry
CHECK_DEADLOCK FALSE
INVARIANTS FactoredNeverSent OneSideWins NothingForgotten
