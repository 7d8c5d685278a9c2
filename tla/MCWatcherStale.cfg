SPECIFICATION Spec
CONSTANTS
    Files = {f1}
    Workers = {w1, w2}
    MaxEdits = 3
    MaxTotalEdits = 3
    WorkCap = 1
    ParseCap = 1
    BacklogThreshold = 2
    MaxIOErrors = 0
    Quality <- MCClean
    NoFile = NoFile
CHECK_DEADLOCK FALSE
INVARIANT PresentFilesCurrent
