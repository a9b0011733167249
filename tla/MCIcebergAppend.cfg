SPECIFICATION Spec
CONSTANTS
    w1 = w1
    w2 = w2
    w3 = w3
    Calls = {w1, w2}
    Keyed = {}
    Requests <- TwoCallsFiles
    MaxBatchSize = 2
    MaxRetries = 3
    LandedConflict = TRUE
    MaxFaults = 2
INVARIANTS
    RegisteredOnce
    AckedWritten
    NobodyOnClosedBatcher
CHECK_DEADLOCK FALSE
