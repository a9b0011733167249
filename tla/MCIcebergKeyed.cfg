SPECIFICATION FairSpec
CONSTANTS
    w1 = w1
    w2 = w2
    w3 = w3
    Calls = {w1, w2, w3}
    Keyed = {w3}
    Requests <- ThreeCallsFiles
    MaxBatchSize = 1
    MaxRetries = 2
    LandedConflict = FALSE
    MaxFaults = 1
INVARIANTS
    TypeOK
    RegisteredOnce
    AckedWritten
PROPERTIES
    RouteReturns
CHECK_DEADLOCK FALSE
