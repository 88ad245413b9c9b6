CONSTANTS
    Workers = {w1, w2}
    NumJobs = 3
    Invalid = {2}
    ReadCount = 2
    MaxAttempts = 2
    MaxFaults = 2
    Slow = FALSE
CHECK_DEADLOCK FALSE
SPECIFICATION FairSpec
 
PROPERTY EveryJobSettles
