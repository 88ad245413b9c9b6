CONSTANTS
    NoDevice = NoDevice
    NoRequest = NoRequest
    Users = {u1}
    Requests = {r1, r2}
    Devices = {}
    MaxToken = 2
    MaxEvents = 1
    Cap = 2
    LeaseOutlived = FALSE
CHECK_DEADLOCK FALSE
SPECIFICATION FairSpec
PROPERTY LockIsReleased
