SPECIFICATION FairSpec
CONSTANTS
    Files = {f1, f2}
    Workers = {w1}
    MaxEdits = 2
    MaxTotalEdits = 3
    WorkCap = 1
    ParseCap = 1
    BacklogThreshold = 1
    MaxIOErrors = 1
    Quality <- MCFails
    NoFile = NoFile
CHECK_DEADLOCK FALSE
PROPERTY EventuallyDelivered
