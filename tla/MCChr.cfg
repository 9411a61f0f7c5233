CONSTANTS
    l1 = l1
    l2 = l2
    NoLoad = NoLoad
    Loads = {l1, l2}
    RowStatuses = {"before", "transit"}
    RowSources = {"manual"}
    SheetVerdicts = {"chr", "skip", "other"}
    Pages = {"live", "pilot"}
    ArrivalOn = FALSE
    Batch = 1
    BreakerFails = 2
    MaxHistory = 2
    MaxRestarts = 1
    MaxEdits = 2
SPECIFICATION Spec
CHECK_DEADLOCK FALSE
INVARIANTS OutboxInv RevertsReachAll NothingMissed
PROPERTIES NothingOld StopsAtOnce KeepsOnce
