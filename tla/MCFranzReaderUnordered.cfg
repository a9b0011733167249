SPECIFICATION Spec
SYMMETRY Symmetry
CONSTANTS
    Clients = {c1, c2}
    Partitions = {p1}
    NumRecords = 5
    MaxDisruptions = 1
    RebalanceInPollWindow = FALSE
    BatchCount = 2
    TimedFlush = FALSE
    CheckpointLimit = 3
    FetchMax = 1
INVARIANTS
    TypeOK
    AtLeastOnce
    MarksOnlyOwned
    PendingBounded
PROPERTIES
    CommitNeverRewinds
    ImplementsInput
