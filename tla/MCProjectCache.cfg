SPECIFICATION Spec
CONSTANTS
    Files = {f1, f2}
    MaxEdits = 2
    MaxTotalEdits = 3
    MaxBoots = 3
CHECK_DEADLOCK FALSE
SYMMETRY Symmetry
INVARIANTS
    TypeOK
    LoadMirrorsDisk
    SkipIsSound
