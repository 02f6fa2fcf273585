CONSTANTS
    MaxPid = 6
    Sizes <- TwoSizes
    MaxSize = 2
    MaxHups = 2
    ForkFails = FALSE
SPECIFICATION FairSpec
INVARIANTS
    PoolAsConfigured
CHECK_DEADLOCK FALSE
