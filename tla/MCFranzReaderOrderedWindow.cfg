\* The same reader with rebalances at any point of the poll loop.
SPECIFICATION Spec
SYMMETRY Symmetry
CONSTANTS
    Clients = {c1, c2}
    Partitions = {p1}
    NumRecords = 2
    MaxDisruptions = 1
    RebalanceInPollWindow = TRUE
    RecordSize <- MCRecordSize
    BufferSize = 3
    MaxBatchSize = 2
    FetchMax = 1
INVARIANTS
    AtLeastOnce
