SPECIFICATION LiveSpec
CONSTANTS
    p1 = p1
    p2 = p2
    p3 = p3
    NoPid = NoPid
    Pids <- MCThreePids
    MaxJobs = 2
    MaxBuiltins = 1
    MaxKeys = 1
ACTION_CONSTRAINT InOrder
INVARIANTS
    TypeOK
    ListTracksChildren
    NoChildForgotten
    NoNewsLost
    SoundUnlessMeddled
PROPERTIES
    ZombiesReaped
