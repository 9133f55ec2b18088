------------------------------ MODULE MCShell ------------------------------
(***************************************************************************)
(* Instances of Shell for TLC, with a list of two slots: three children    *)
(* overflow it; two are enough for the foreground job and another.         *)
(***************************************************************************)
EXTENDS Shell

CONSTANTS p1, p2, p3

MCTwoPids == {p1, p2}
MCThreePids == {p1, p2, p3}

(* Nothing tells one process id from another, so the kernel may as well     *)
(* hand them out in one order.  (Symmetry sets are not sound for liveness.) *)
PidOrder == <<p1, p2, p3>>
InOrder ==
    \A i \in 1 .. 2 : proc'[PidOrder[i + 1]] # "none" => proc'[PidOrder[i]] # "none"
=============================================================================
