CONSTANTS
    Workers = {w1, w2}
    NumJobs = 3
    Invalid = {2}
    ReadCount = 2
    MaxAttempts = 2
    MaxFaults = 2
    Slow = TRUE
CHECK_DEADLOCK FALSE
SPECIFICATION Spec
SYMMETRY Symmetry
INVARIANT NoDoubleMail
