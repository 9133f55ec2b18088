------------------------------- MODULE MCSBuf -------------------------------
(***************************************************************************)
(* The instance of SBuf that TLC checks: one producer, as in proxy.c (the  *)
(* main thread is the only caller of sbuf_insert), two of its workers, and *)
(* a two-slot array that the counters go round more than twice.            *)
(***************************************************************************)
EXTENDS SBuf

CONSTANTS main, worker1, worker2, fd1, fd2

MCProducers == {main}
MCConsumers == {worker1, worker2}
MCItems == {fd1, fd2}
=============================================================================
