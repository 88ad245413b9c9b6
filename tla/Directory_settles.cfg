SPECIFICATION FairSpec
CONSTANTS
    Ids = {1, 2, 3}
    Registered = {1, 2}
    Queries <- OneQuery
    PageSize = 1
    MaxBatch = 1
    MaxMoves = 1
    MaxFaults = 1
    MaxOthers = 1
PROPERTIES DeletionSettles StaleRowsGo
CHECK_DEADLOCK FALSE
