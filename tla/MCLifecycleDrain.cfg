SPECIFICATION Spec
CONSTANTS
    cfg = cfg
    f = f
    Paths = {cfg, f}
    ConfigPath = cfg
    Workers = {w1}
    WorkCap = 1
    ParseCap = 2
    BacklogThreshold = 1
    CoalesceThreshold = 1
    MaxRestarts = 1
    MaxEvents = 2
    MaxPanics = 0
CHECK_DEADLOCK FALSE
INVARIANT StopWaitsForAll
