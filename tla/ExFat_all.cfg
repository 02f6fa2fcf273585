CONSTANTS
    na = na
    nb = nb
    nd = nd
    nm = nm
    Slots = 3
    Units = 2
    Clusters = 13
    END = END
    Pieces <- SmallPieces
    Volumes <- SmallVolumes
    Paths <- SmallPaths
    WORD = 64
    Headers <- SmallHeaders
    Disks <- SmallDisks
SPECIFICATION MCSpec
INVARIANTS
    ReadsInsideChain
    ListsTheTree
    ExtractsTheFile
    AcceptsExactly
PROPERTIES
    Terminates
    CountsTheBitmap
