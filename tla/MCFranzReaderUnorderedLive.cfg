\* Both the poll loop and the trackers send batches.
SPECIFICATION FairSpec
CONSTANTS
    Clients = {c1}
    Partitions = {p1}
    NumRecords = 3
    MaxDisruptions = 1
    RebalanceInPollWindow = FALSE
    BatchCount = 2
    TimedFlush = TRUE
    CheckpointLimit = 1
    FetchMax = 2
INVARIANTS
    RemovedTrackersStopped
PROPERTIES
    CloseCompletes
    RevokeCompletes
    EventuallyDelivered
