SPECIFICATION Spec
CONSTANTS
    Cap = 3
    MaxEvents = 6
INVARIANTS
    CollectorOK
    EveryEventOnce
    StopFlushes
PROPERTIES
    StopEnds
    RingIsQueue
CHECK_DEADLOCK FALSE
