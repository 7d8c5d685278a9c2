SPECIFICATION Spec
CONSTANTS
    p1 = p1
    p2 = p2
    t1 = t1
    t2 = t2
    t3 = t3
    Agents = {a1, a2}
    Tasks = {t1, t2, t3}
    Plans = {p1, p2}
    PlanOf <- MCPlanOf
    Unknown = Unknown
    None = None
    MaxCalls = 3
SYMMETRY Symmetry
CHECK_DEADLOCK FALSE
INVARIANTS
    PlanCompletes
    CompletedOnce
    UnblockReported
PROPERTIES
    CompletesWhenTerminal
    ListingNeverSteals
