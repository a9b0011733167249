SPECIFICATION FairSpec
CONSTANTS
    root = root
    left = left
    right = right
    merged = merged
    Partitions = {root, left, right, merged}
    Parents <- Diamond
    Start <- DiamondStart
    Mods <- DiamondMods
    End = 6
    BatchSize = 2
    Periodic = TRUE
    MaxInFlight = 2
    MaxFaults = 2
INVARIANTS
    TypeOK
    AtLeastOnce
    ChildAfterParents
    NoneOverlooked
    EndsComplete
PROPERTIES
    EventuallyFinished
