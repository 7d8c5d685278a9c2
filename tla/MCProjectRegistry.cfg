SPECIFICATION RegistrySpec
CONSTANTS
    Projects = {p, q, r}
    Callers = {c1, c2}
    MaxActive = 2
    MaxInstances = 3
INVARIANTS
    NoneForgotten
    CapHolds
PROPERTY CallsReturn
CHECK_DEADLOCK FALSE
