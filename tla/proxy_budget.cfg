\* An eviction and what it gives back to the budget.
SPECIFICATION Spec
CONSTANTS
    Main = Main
    worker1 = worker1
    worker2 = worker2
    fd1 = fd1
    fd2 = fd2
    a = a
    b = b
    n1 = n1
    n2 = n2
    n3 = n3
    NoNode = NoNode
    None = None
    Workers <- MCWorkers
    Fds <- MCFds
    Files <- MCFiles
    Lens <- MCLens
    Nodes <- MCNodes3
    SbufSize = 1
    MaxObject = 2
    MaxCache = 2
    SizeMod = 8
INVARIANT BudgetExact
