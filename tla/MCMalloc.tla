------------------------------ MODULE MCMalloc ------------------------------
(* Instances of Malloc for TLC.                                            *)
EXTENDS Malloc, TLC

CONSTANTS id1, id2, id3

MCIds == {id1, id2, id3}
Symmetry == Permutations(MCIds)

MCSizes == {0, 7, 24, 33, 80}
=============================================================================
