\* The accept loop and two workers over a two-slot buffer.
SPECIFICATION LiveSpec
CONSTANTS
    main = main
    worker1 = worker1
    worker2 = worker2
    fd1 = fd1
    fd2 = fd2
    NoItem = NoItem
    Producers <- MCProducers
    Consumers <- MCConsumers
    Items <- MCItems
    N = 2
    IntMax = 5
    MaxInserts = 5
INVARIANTS
    TypeOK
    Accounting
    NoLostIncrement
PROPERTIES
    FifoSpec
    InsertReturns
    EveryItemRemoved
