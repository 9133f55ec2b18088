SPECIFICATION Spec
CONSTANTS
    p1 = p1
    p2 = p2
    p3 = p3
    NoPid = NoPid
    Pids <- MCTwoPids
    MaxJobs = 2
    MaxBuiltins = 2
    MaxKeys = 0
INVARIANTS
    AtMostOneFg
