SPECIFICATION Spec
CONSTANTS
    w1 = w1
    w2 = w2
    w3 = w3
    Calls = {w1, w2}
    Keyed = {w2}
    Requests <- TwoCallsFiles
    MaxBatchSize = 2
    MaxRetries = 2
    LandedConflict = FALSE
    MaxFaults = 2
INVARIANTS
    NoDanglingReference
CHECK_DEADLOCK FALSE
