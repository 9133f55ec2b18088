--------------------------- MODULE ReadersWriter ---------------------------
(***************************************************************************)
(* What the two semaphores of webcache.c are for: any number of threads    *)
(* traverse the cache list at once, or a single one edits it.              *)
(***************************************************************************)
CONSTANT Threads

VARIABLES
    reading,        \* the threads traversing the list
    writing         \* the threads editing it

rwVars == <<reading, writing>>

RWInit == reading = {} /\ writing = {}

StartRead(t) ==
    /\ t \notin reading /\ writing = {}
    /\ reading' = reading \cup {t}
    /\ UNCHANGED writing

EndRead(t) ==
    /\ t \in reading
    /\ reading' = reading \ {t}
    /\ UNCHANGED writing

StartWrite(t) ==
    /\ reading = {} /\ writing = {}
    /\ writing' = {t}
    /\ UNCHANGED reading

EndWrite(t) ==
    /\ t \in writing
    /\ writing' = writing \ {t}
    /\ UNCHANGED reading

RWNext ==
    \E t \in Threads :
        StartRead(t) \/ EndRead(t) \/ StartWrite(t) \/ EndWrite(t)

RWSpec == RWInit /\ [][RWNext]_rwVars
=============================================================================
