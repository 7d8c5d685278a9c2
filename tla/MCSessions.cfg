SPECIFICATION Spec
CONSTANTS
    h1 = h1
    h2 = h2
    c1 = c1
    stdio = stdio
    sock = sock
    Clients <- MCClients
    Keys <- MCKeys
    KeyOf <- MCKeyOf
    Stdio = stdio
    Agents = {a}
    Rows = {s1, s2}
    Reconnect = 2
    Hibernate = 4
    Stale = 0
    Retention = 3
    Oldest = 4
SYMMETRY Symmetry
INVARIANTS SharedOnlyAfterIdling OneLiveSession
PROPERTY LiveSessionsKept
CHECK_DEADLOCK FALSE
