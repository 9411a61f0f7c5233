CONSTANTS
    l1 = l1
    l2 = l2
    NoLoad = NoLoad
    Loads = {l1}
    RowStatuses = {"before", "transit"}
    RowSources = {"manual"}
    SheetVerdicts = {"chr"}
    Pages = {"live"}
    ArrivalOn = FALSE
    Batch = 1
    BreakerFails = 2
    MaxHistory = 1
    MaxRestarts = 1
    MaxEdits = 3
SPECIFICATION FairSpec
CHECK_DEADLOCK FALSE
PROPERTIES NothingLingers
