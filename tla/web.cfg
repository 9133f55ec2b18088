\* The workers wait for connections when the clients have ended.
SPECIFICATION LiveSpec
CONSTANTS
    c1 = c1
    c2 = c2
    w1 = w1
    w2 = w2
    Clients = {c1, c2}
    Workers = {w1, w2}
    Process <- MCProcess
    Capacity = 5
    RioSize = 4
    Slow = {w1}
    Files <- MCFiles
    Forbidden = {"locked"}
    Size <- MCSize
    MaxObject = 2
    Scenarios <- MCScenarios
ACTION_CONSTRAINT Constraint
INVARIANTS
    TypeOK
    RepliesIntact
    CachedWhole
    EndedOnlyByPeers
PROPERTIES
    Answered
CHECK_DEADLOCK FALSE
