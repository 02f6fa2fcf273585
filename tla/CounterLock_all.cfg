CONSTANTS
    th1 = th1
    th2 = th2
    th3 = th3
    Threads <- ThreeThreads
    MAX_COUNT = 2
    Kinds <- AllKinds
SPECIFICATION FairSpec
INVARIANTS
    NothingLost
    NeverTooMany
PROPERTIES
    Termination
