------------------------------ MODULE MCProxy ------------------------------
(***************************************************************************)
(* Instances of Proxy for TLC: two files, in a cache of two units, and     *)
(* objects of one unit, of two, which fill the cache, and of three, which  *)
(* do not fit in it.  Both a full cache and a check of the budget by two   *)
(* workers at once come up.  With two nodes malloc may fail; a third lets  *)
(* both workers hold a node of their own beside a listed one.              *)
(***************************************************************************)
EXTENDS Proxy

CONSTANTS worker1, worker2, fd1, fd2, a, b, n1, n2, n3

MCWorkers == {worker1, worker2}
MCFds == {fd1, fd2}
MCFiles == {a, b}
MCNodes == {n1, n2}
MCNodes3 == {n1, n2, n3}
MCLens == {1, 2, 3}
=============================================================================
