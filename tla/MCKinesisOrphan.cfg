SPECIFICATION FairSpec
CONSTANTS
    c1 = c1
    c2 = c2
    s1 = s1
    s2 = s2
    Clients = {c1, c2}
    ExplicitClients = {}
    Shards = {s1}
    NumRecords <- OneBusy
    CheckpointLimit = 2
    MaxConsumers = 2
    Resharded = {}
    MaxFaults = 1
PROPERTIES
    EventuallyConsumed
CHECK_DEADLOCK FALSE
