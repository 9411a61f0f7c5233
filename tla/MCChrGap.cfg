CONSTANTS
    l1 = l1
    l2 = l2
    NoLoad = NoLoad
    Loads = {l1}
    RowStatuses = {"before", "transit"}
    RowSources = {"manual"}
    SheetVerdicts = {"chr"}
    Pages = {"live"}
    ArrivalOn = FALSE
    Batch = 2
    BreakerFails = 2
    MaxHistory = 2
    MaxRestarts = 1
    MaxEdits = 3
SPECIFICATION Spec
CHECK_DEADLOCK FALSE
PROPERTIES SendsOnlyLive
