SPECIFICATION Spec
CONSTANTS
    Ids = {1, 2}
    Registered = {1, 2}
    Queries <- TwoQueries
    PageSize = 2
    MaxBatch = 2
    MaxMoves = 1
    MaxFaults = 1
    MaxOthers = 0
INVARIANTS HiddenIsQueued NoDoubleDelete DeletedStaysHidden
CHECK_DEADLOCK FALSE
