CONSTANTS
    na = na
    nb = nb
    nd = nd
    nm = nm
    Slots = 3
    Units = 2
    Clusters = 13
    END = END
    Pieces <- SmallPieces
    Volumes <- MixedVolumes
    Paths <- SmallPaths
SPECIFICATION FairSpec
INVARIANTS
    ListsTheTree
