\* csim, test-trans, btest and the shell's parser, which end when they are done,
\* and three workers that look up and edit the proxy's cache in any order.
SPECIFICATION LabsSpec
CONSTANTS
    TagMod = 4096
    Geometries <- MCGeometries
    Addresses <- MCAddresses
    MaxLines = 5
    Shapes <- MCShapes
    MarkerCell = 131072
    CallCells <- MCCallCells
    Missing = Missing
    Options <- MCOptions
    TestRange = 4
    Root <- MCRoot
    RandomWords <- MCRandomWords
    MaxTimeouts = 1
    Typed <- MCTyped
    worker1 = worker1
    worker2 = worker2
    worker3 = worker3
    Threads <- MCThreads
INVARIANTS
    TypeOK
    LockInv
    ArgsAsTyped
    BlocksLeftTransposed
    ScoresInFull
    OnlyKnownErrors
    ValuesFit
PROPERTIES
    LRUSpec
    RWSpec
    CallsReturn
CHECK_DEADLOCK FALSE
