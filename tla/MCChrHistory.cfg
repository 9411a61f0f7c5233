CONSTANTS
    l1 = l1
    Loads = {l1}
    RowStatuses = {"before", "shipper", "loading", "transit", "receiver", "delivered", "cancelled"}
    RowSources = {"manual", "override", "phase"}
    MaxHistory = 4
SPECIFICATION Spec
CHECK_DEADLOCK FALSE
INVARIANTS DeliveredLast
PROPERTIES VoidedForGood OverrideTakesBack
