SPECIFICATION Spec
SYMMETRY Symmetry
CONSTANTS
    Clients = {c1, c2}
    Partitions = {p1}
    NumRecords = 3
    MaxDisruptions = 1
    RebalanceInPollWindow = FALSE
    RecordSize <- MCRecordSize
    BufferSize = 3
    MaxBatchSize = 2
    FetchMax = 2
INVARIANTS
    TypeOK
    AtLeastOnce
    MarksOnlyOwned
    OrderedDispatch
    CacheSizeExact
    NoGaps
    BatchesBounded
PROPERTIES
    CommitNeverRewinds
    ImplementsInput
