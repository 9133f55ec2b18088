------------------------------ MODULE CacheSim ------------------------------
(***************************************************************************)
(* The cache of csim.c, as operators.  A set is a list of lines, least     *)
(* recently used first; a line is looked up by its tag, moved to the tail  *)
(* when it is used, and taken from the head when a miss finds no invalid   *)
(* line.  A geometry is the record of the variables that the options set.   *)
(***************************************************************************)
EXTENDS Integers, Sequences, SequencesExt, FiniteSetsExt

CONSTANT TagMod     \* 2 to the number of bits of unsigned int, for a tag

(* The options -s, -E and -b.                                              *)
GetOptsFromInput(s, E, b) ==
    [setNum |-> 2 ^ s, associativity |-> E, blockSize |-> 2 ^ b]

SetIndex(g, addr) == (addr \div g.blockSize) % g.setNum
TagIndex(g, addr) == (addr \div (g.setNum * g.blockSize)) % TagMod
BlockOf(g, addr) == addr \div g.blockSize

EmptyLine == [tag |-> 0, valid |-> FALSE]
EmptyCache(g) == [x \in 0 .. g.setNum - 1 |-> [i \in 1 .. g.associativity |-> EmptyLine]]

IsCacheHit(set, tag) == \E i \in DOMAIN set : set[i].valid /\ set[i].tag = tag

WithTag(set, tag) == {i \in DOMAIN set : set[i].tag = tag}
Invalid(set) == {i \in DOMAIN set : ~set[i].valid}

(* The line to fill: the last one with the tag, else the first invalid one, *)
(* else the head, which alone is an eviction.                               *)
Target(set, tag) ==
    IF WithTag(set, tag) # {} THEN Max(WithTag(set, tag))
    ELSE IF Invalid(set) # {} THEN Min(Invalid(set)) ELSE 1

Evicts(set, tag) == WithTag(set, tag) = {} /\ Invalid(set) = {}

(* Lines kept in the order they were filled in: first in, first out.        *)
UpdateCacheBlockInPlace(set, tag) ==
    IF IsCacheHit(set, tag) THEN set
    ELSE Append(RemoveAt(set, Target(set, tag)), [tag |-> tag, valid |-> TRUE])

UpdateCacheBlock(set, tag) ==
    Append(RemoveAt(set, Target(set, tag)), [tag |-> tag, valid |-> TRUE])

One(condition) == IF condition THEN 1 ELSE 0

(* One line of the trace, from the cache and the counters cache to those    *)
(* after it: an instruction (I) is skipped, and a modify (M) is a load and  *)
(* a store of the same block.                                               *)
Simulate(g, cache, op, addr) ==
    LET set == cache.sets[SetIndex(g, addr)]
        tag == TagIndex(g, addr)
        hit == IsCacheHit(set, tag)
    IN  IF op = "I" THEN cache
        ELSE [sets |-> [cache.sets EXCEPT ![SetIndex(g, addr)] =
                           UpdateCacheBlock(set, tag)],
              hits |-> cache.hits + One(hit) + One(op = "M"),
              misses |-> cache.misses + One(~hit),
              evictions |-> cache.evictions + One(~hit /\ Evicts(set, tag))]

NewCache(g) == [sets |-> EmptyCache(g), hits |-> 0, misses |-> 0, evictions |-> 0]
=============================================================================
