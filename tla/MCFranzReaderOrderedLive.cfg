SPECIFICATION FairSpec
CONSTANTS
    Clients = {c1}
    Partitions = {p1, p2}
    NumRecords = 2
    MaxDisruptions = 1
    RebalanceInPollWindow = FALSE
    RecordSize <- MCRecordSize
    BufferSize = 1
    MaxBatchSize = 2
    FetchMax = 1
INVARIANTS
    BufferBounded
PROPERTIES
    EventuallyCommitted
