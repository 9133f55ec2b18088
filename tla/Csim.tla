------------------------------- MODULE Csim --------------------------------
(***************************************************************************)
(* csim.c, the cache simulator: the options, the loop over the lines of    *)
(* the trace, and the counters.                                            *)
(*                                                                         *)
(* The lookup that picks the line to update (csim.c:145) does not ask      *)
(* whether the line is valid, and invalid lines are born with tag 0: that  *)
(* it evicts and hits like an LRU cache all the same is what is checked.   *)
(***************************************************************************)
EXTENDS CacheSim

CONSTANTS
    Geometries,     \* what the options -s, -E and -b may be
    Addresses,      \* addresses in the trace
    MaxLines        \* lines of the trace

(* With -s 0 the shift of csim.c:187 is by the width of its operand, which  *)
(* C leaves undefined.  An address beyond the last assumption has a tag that *)
(* loses bits (csim.c:190), and two blocks are taken for one.               *)
ASSUME GeometryAssumption ==
    /\ Geometries \subseteq [setNum : Nat \ {0, 1}, associativity : Nat \ {0},
                             blockSize : Nat \ {0}]
    /\ Addresses \subseteq Nat
    /\ MaxLines \in Nat /\ TagMod \in Nat \ {0}
    /\ \A g \in Geometries, a \in Addresses : a < g.setNum * g.blockSize * TagMod

VARIABLES
    geometry,   \* the options given
    sets,       \* cacheSets
    hits, misses, evictions,
    history     \* the blocks of the lines read so far (no variable of the code)

cvars == <<geometry, sets, hits, misses, evictions, history>>

Cache == [sets |-> sets, hits |-> hits, misses |-> misses, evictions |-> evictions]

Fill(cache) ==
    /\ sets' = cache.sets /\ hits' = cache.hits
    /\ misses' = cache.misses /\ evictions' = cache.evictions

CsimInit ==
    /\ geometry \in Geometries
    /\ sets = EmptyCache(geometry)
    /\ hits = 0 /\ misses = 0 /\ evictions = 0
    /\ history = <<>>

ReadLine(op, addr) ==
    /\ Len(history) < MaxLines
    /\ Fill(Simulate(geometry, Cache, op, addr))
    /\ history' = IF op = "I" THEN history ELSE Append(history, BlockOf(geometry, addr))
    /\ UNCHANGED geometry

CsimNext == \E op \in {"L", "M", "I"}, addr \in Addresses : ReadLine(op, addr)

CsimSpec == CsimInit /\ [][CsimNext]_cvars

(* Evictions, hits and misses are those of an LRU cache, for every trace.   *)
SetOfBlock(g, x) == x % g.setNum
LinesOf(g) == g.associativity
BlocksUsed == {BlockOf(g, a) : g \in Geometries, a \in Addresses}
LRUCache == INSTANCE LRU WITH
    Blocks <- BlocksUsed, SetOf <- SetOfBlock, Lines <- LinesOf
LRUSpec == LRUCache!LRUSpec
=============================================================================
