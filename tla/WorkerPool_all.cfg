CONSTANTS
    MaxPid = 9
    Sizes <- AllSizes
    MaxSize = 3
    MaxHups = 2
    ForkFails = TRUE
SPECIFICATION FairSpec
INVARIANTS
    NoStray
    IdlePool
    OrphanOnlyForked
PROPERTIES
    Settles
    HupApplied
CHECK_DEADLOCK FALSE
