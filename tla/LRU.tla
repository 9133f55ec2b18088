-------------------------------- MODULE LRU --------------------------------
(***************************************************************************)
(* What a simulator of a set-associative cache promises, from the history  *)
(* of accesses alone and with no cache in sight: an access hits exactly    *)
(* when fewer than E other blocks of its set were accessed since the       *)
(* block's own last access, and a miss evicts exactly when its set has     *)
(* seen at least E blocks.  This is what least recently used means.        *)
(***************************************************************************)
EXTENDS Integers, Sequences, FiniteSetsExt

CONSTANTS
    Blocks,         \* the blocks of memory
    SetOf(_, _),    \* the set of a block, under a geometry
    Lines(_)        \* E, the lines of a set, under a geometry

VARIABLES
    geometry,
    history,    \* the blocks accessed so far
    hits, misses, evictions

vars == <<geometry, history, hits, misses, evictions>>

SameSet(x, y) == SetOf(geometry, x) = SetOf(geometry, y)

(* The blocks of x's set accessed at position first or later.               *)
Since(x, first) ==
    {y \in {history[k] : k \in first .. Len(history)} : SameSet(x, y)}

LastUse(x) == Max({k \in 1 .. Len(history) : history[k] = x} \cup {0})

Hit(x) ==
    /\ LastUse(x) # 0
    /\ Cardinality(Since(x, LastUse(x)) \ {x}) < Lines(geometry)

Full(x) == Cardinality(Since(x, 1)) >= Lines(geometry)

LRUInit ==
    /\ history = <<>>
    /\ hits = 0 /\ misses = 0 /\ evictions = 0

(* One line of the trace: extra hits are those of the second half of a      *)
(* modify, which finds what the first half has just loaded.                 *)
Access(x) ==
    \E extra \in {0, 1} :
        /\ hits' = hits + extra + (IF Hit(x) THEN 1 ELSE 0)
        /\ misses' = misses + (IF Hit(x) THEN 0 ELSE 1)
        /\ evictions' = evictions + (IF ~Hit(x) /\ Full(x) THEN 1 ELSE 0)
        /\ history' = Append(history, x)
        /\ UNCHANGED geometry

Next == \E x \in Blocks : Access(x)

LRUSpec == LRUInit /\ [][Next]_vars
=============================================================================
