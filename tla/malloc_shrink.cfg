SPECIFICATION Spec
CONSTANTS
    id1 = id1
    id2 = id2
    id3 = id3
    None = None
    Ids <- MCIds
    Sizes <- MCSizes
    HeapWords = 21
    PageWords = 8
    TailWords = 3
SYMMETRY Symmetry
INVARIANT TailsCoalesced
