CONSTANTS
    a = a
    b = b
    p = p
    u = u
    v = v
    Roles = {a, b}
    Perms = {p}
    Accounts = {u, v}
    Default = b
    Sessions <- TheSessions
SPECIFICATION Spec
INVARIANTS TypeOK BusyIsAnswered
PROPERTIES AskedOnly EditsAreKept
CHECK_DEADLOCK FALSE
