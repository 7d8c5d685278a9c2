SPECIFICATION Spec
CONSTANTS
    Files = {f1, f2}
    Workers = {w1, w2}
    MaxEdits = 3
    MaxTotalEdits = 3
    WorkCap = 1
    ParseCap = 1
    BacklogThreshold = 1
    MaxIOErrors = 2
    Quality <- MCQuality
    NoFile = NoFile
CHECK_DEADLOCK FALSE
SYMMETRY Symmetry
INVARIANTS
    NoLostUpdate
    MirrorAtRest
