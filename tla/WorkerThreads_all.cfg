CONSTANTS
    Sizes <- FewSizes
    MaxSize = 2
    MaxHups = 2
    CreateFails = TRUE
SPECIFICATION FairSpec
INVARIANTS
    CleanExit
PROPERTIES
    Settles
    LastSizeKept
CHECK_DEADLOCK FALSE
