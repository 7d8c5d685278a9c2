SPECIFICATION Spec
CONSTANTS
    Ids = {m1, m2}
    Clients = {c1, c2}
    Builders = {b1, b2}
    PendingCap = 1
    ExpireCap = 1
    Tolerance = 0
    MaxWrites = 3
    MaxPanics = 1
    MaxRestarts = 1
INVARIANTS IndexCoversRows DeletedStaysOut
PROPERTY RebuildEnds
CHECK_DEADLOCK FALSE
