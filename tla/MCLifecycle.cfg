SPECIFICATION FairSpec
CONSTANTS
    cfg = cfg
    f = f
    Paths = {cfg, f}
    ConfigPath = cfg
    Workers = {w1}
    WorkCap = 1
    ParseCap = 2
    BacklogThreshold = 1
    CoalesceThreshold = 1
    MaxRestarts = 1
    MaxEvents = 3
    MaxPanics = 2
CHECK_DEADLOCK FALSE
INVARIANTS
    WaitGroupCounts
    StopDrains
    NobodyStuck
PROPERTIES
    NoAddFromZero
    StopReturns
    BacklogDrains
