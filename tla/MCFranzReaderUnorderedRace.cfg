\* A batch policy with a count and a period: two goroutines flush one batcher.
SPECIFICATION Spec
SYMMETRY Symmetry
CONSTANTS
    Clients = {c1, c2}
    Partitions = {p1}
    NumRecords = 3
    MaxDisruptions = 0
    RebalanceInPollWindow = FALSE
    BatchCount = 2
    TimedFlush = TRUE
    CheckpointLimit = 9
    FetchMax = 1
INVARIANTS
    AtLeastOnce
