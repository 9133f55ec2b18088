----------------------------- MODULE Allocator -----------------------------
(***************************************************************************)
(* What a memory allocator promises its client (mdriver.c, eval_mm_valid   *)
(* and add_range): a block of at least the size asked for, apart from      *)
(* every other block, whose contents only the client changes, wherever     *)
(* mm_realloc moves it.                                                    *)
(***************************************************************************)
EXTENDS Integers, Sequences

CONSTANTS
    Ids,        \* the client's names for its blocks
    None        \* no block

VARIABLES
    block,      \* block[id]: the words of id's block, [first, words]
    contents    \* contents[id]: what they hold

Range(b) == IF b = None THEN {} ELSE b.first .. b.first + b.words - 1

AllocatorInit ==
    /\ block = [id \in Ids |-> None]
    /\ contents = [id \in Ids |-> << >>]

(* A block is new, or has been resized: it overlaps no other block, and    *)
(* the words it already had are the same.                                  *)
Provide(id) ==
    LET new == block'[id] IN
    /\ block' = [block EXCEPT ![id] = new]
    /\ contents' = [contents EXCEPT ![id] = contents'[id]]
    /\ new.first > 0 /\ new.words > 0 /\ Len(contents'[id]) = new.words
    /\ \A other \in Ids \ {id} : Range(new) \cap Range(block[other]) = {}
    /\ \A k \in 1 .. new.words :
        k <= Len(contents[id]) => contents'[id][k] = contents[id][k]

Release(id) ==
    /\ block' = [block EXCEPT ![id] = None]
    /\ contents' = [contents EXCEPT ![id] = << >>]

AllocatorNext == \E id \in Ids : Release(id) \/ Provide(id)

AllocatorSpec == AllocatorInit /\ [][AllocatorNext]_<<block, contents>>
=============================================================================
