SPECIFICATION FairSpec
CONSTANTS
    Replicas = {a, b}
    NoOne = NoOne
    Lost = Lost
    Third = 3
    CallTime = 2
    StopTime = 1
    MaxEvents = 3
INVARIANTS OnlyOwnerWorks
PROPERTIES LeadershipReturns
