SPECIFICATION Spec
CONSTANTS
    c1 = c1
    c2 = c2
    s1 = s1
    s2 = s2
    Clients = {c1, c2}
    ExplicitClients = {c2}
    Shards = {s1, s2}
    NumRecords <- BusyAndIdle
    CheckpointLimit = 2
    MaxConsumers = 2
    Resharded = {s1}
    MaxFaults = 1
INVARIANTS
    TypeOK
    AtLeastOnce
PROPERTIES
    ImplementsInput
    DeletedWhenDelivered
    SequenceKept
CHECK_DEADLOCK FALSE
