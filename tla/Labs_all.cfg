CONSTANTS
    total = 3
    LINES = 2
    CAPACITY = 1
    Behaviours = {"reads", "quits", "idles"}
    FORK_FAILS = TRUE
    Totals <- MCTotals
    PRINT_LINES = 2
    PRINT_LENGTH = 2
SPECIFICATION MCSpec
INVARIANTS
    SameLines
    EndAfterLastLine
    NoSignalLost
    AllReady
    WholeLines
    NeverTwice
PROPERTIES
    OctoSettles
    AllEnd
    WokenPrints
CHECK_DEADLOCK FALSE
