\* Two workers, two files, a cache of two units and objects of one to three.
SPECIFICATION LiveSpec
CONSTANTS
    Main = Main
    worker1 = worker1
    worker2 = worker2
    fd1 = fd1
    fd2 = fd2
    a = a
    b = b
    n1 = n1
    n2 = n2
    n3 = n3
    NoNode = NoNode
    None = None
    Workers <- MCWorkers
    Fds <- MCFds
    Files <- MCFiles
    Lens <- MCLens
    Nodes <- MCNodes
    SbufSize = 1
    MaxObject = 2
    MaxCache = 2
    SizeMod = 8
INVARIANTS
    TypeOK
    ListInv
    BudgetUntilRace
    ServedUntilEviction
    OneOwner
PROPERTIES
    HeldUpOnlyByPeers
