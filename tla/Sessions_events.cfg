CONSTANTS
    NoDevice = NoDevice
    NoRequest = NoRequest
    Users = {u1}
    Requests = {r1, r2}
    Devices = {}
    MaxToken = 2
    MaxEvents = 2
    Cap = 1
    LeaseOutlived = TRUE
CHECK_DEADLOCK FALSE
SPECIFICATION Spec
SYMMETRY Symmetry
INVARIANTS EndedStaysEnded CapHolds
PROPERTY RevocationIsFinal
