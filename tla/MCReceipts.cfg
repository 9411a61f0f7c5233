CONSTANTS
    m1 = m1
    s1 = s1
    c1 = c1
    c2 = c2
    Now = Now
    Months = {m1}
    Slips = {s1}
    Dated = {m1}
    Clients = {c1, c2}
    MaxReceipts = 2
    MaxEdits = 2
    MaxReadWaits = 1
    MaxRestarts = 1
SPECIFICATION Spec
SYMMETRY Symmetry
CHECK_DEADLOCK FALSE
INVARIANTS TypeOK FrozenIsCounted OneCopyStands
PROPERTIES ApprovesOnlyFree UndoLeavesPeople
