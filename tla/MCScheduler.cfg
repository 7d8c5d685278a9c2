SPECIFICATION FairSpec
CONSTANTS
    p1 = p1
    p2 = p2
    i1 = i1
    i2 = i2
    Keys = {p1, p2, i1, i2}
    Prio <- MCPrio
    Callers = {c1}
    QueueMax = 2
    TTL <- MCTTL
    GateAnswers = {TRUE, FALSE}
    MaxStamp = 3
    MaxTime = 1
CHECK_DEADLOCK FALSE
INVARIANTS
    QueueInvariant
    NoWakeupLost
PROPERTIES
    QueueIsWorkSet
    P1NeverEvicted
    EveryTaskLeaves
    StopReturns
