SPECIFICATION Spec
CONSTANTS
    NoDevice = NoDevice
    NoRequest = NoRequest
    Users = {u1}
    Requests = {r1, r2}
    Devices = {}
    MaxToken = 3
    MaxEvents = 1
    Cap = 2
    LeaseOutlived = FALSE
SYMMETRY Symmetry
INVARIANTS OneLivePerFamily OnlyRealReuseKills
PROPERTY ImplementsChain
CHECK_DEADLOCK FALSE
