----------------------------- MODULE CacheLock -----------------------------
(***************************************************************************)
(* The locking of webcache.c: find_cache_node takes a readers' lock built  *)
(* from the semaphores mutex and w and the counter readcnt; every function *)
(* that edits the list holds w.  One action per semaphore operation and    *)
(* per access to readcnt, which is an ordinary shared int.                 *)
(***************************************************************************)
EXTENDS Integers, FiniteSets

CONSTANT Threads            \* the workers that use the cache

ASSUME ThreadsAssumption == IsFiniteSet(Threads)

VARIABLES
    mutex, w,       \* the values of the two semaphores
    readcnt,        \* threads inside the readers' lock, as the code counts
    pc,             \* pc[t]: the next step of thread t
    reg             \* reg[t]: the value of readcnt t has loaded

vars == <<mutex, w, readcnt, pc, reg>>

PC == {"rest",
       "P_mutex1", "load1", "store1", "test1", "P_w", "V_mutex1",
       "read",
       "P_mutex2", "load2", "store2", "test2", "V_w", "V_mutex2",
       "W_P_w", "write", "W_V_w"}

(* What init_webcache gives readcnt; a mutant that forgets it.             *)
InitialReadcntStale == 1
InitialReadcnt == 0

(* What init_webcache_sem gives the semaphore w; a mutant admits two.      *)
InitialWTwo == 2
InitialW == 1

Init ==
    /\ mutex = 1 /\ w = InitialW
    /\ readcnt = InitialReadcnt
    /\ pc = [t \in Threads |-> "rest"]
    /\ reg = [t \in Threads |-> 0]

Goto(t, l) == pc' = [pc EXCEPT ![t] = l]

-----------------------------------------------------------------------------
(* find_cache_node is called.                                              *)
CallFind(t) ==
    /\ pc[t] = "rest"
    /\ Goto(t, "P_mutex1")
    /\ UNCHANGED <<mutex, w, readcnt, reg>>

(* P(&mutex), on the way in (1) and on the way out (2).                    *)
Lock(t) ==
    /\ mutex > 0
    /\ mutex' = mutex - 1
    /\ \/ pc[t] = "P_mutex1" /\ Goto(t, "load1")
       \/ pc[t] = "P_mutex2" /\ Goto(t, "load2")
    /\ UNCHANGED <<w, readcnt, reg>>

(* readcnt++ and readcnt-- : the load and the store.                       *)
LoadCount(t) ==
    /\ \/ pc[t] = "load1" /\ Goto(t, "store1")
       \/ pc[t] = "load2" /\ Goto(t, "store2")
    /\ reg' = [reg EXCEPT ![t] = readcnt]
    /\ UNCHANGED <<mutex, w, readcnt>>

StoreCount(t) ==
    /\ \/ pc[t] = "store1" /\ readcnt' = reg[t] + 1 /\ Goto(t, "test1")
       \/ pc[t] = "store2" /\ readcnt' = reg[t] - 1 /\ Goto(t, "test2")
    /\ UNCHANGED <<mutex, w, reg>>

(* if (readcnt == 1) P(&w): the first reader in takes w for all of them... *)
TestIn(t) ==
    /\ pc[t] = "test1"
    /\ Goto(t, IF readcnt = 1 THEN "P_w" ELSE "V_mutex1")
    /\ UNCHANGED <<mutex, w, readcnt, reg>>

(* ... and waits for it with mutex held.                                   *)
LockW(t) ==
    /\ pc[t] = "P_w" /\ w > 0
    /\ w' = w - 1
    /\ Goto(t, "V_mutex1")
    /\ UNCHANGED <<mutex, readcnt, reg>>

(* if (readcnt == 0) V(&w): the last reader out gives it back; a mutant    *)
(* that never does.                                                        *)
TestOutForgets(t) ==
    /\ pc[t] = "test2"
    /\ Goto(t, "V_mutex2")
    /\ UNCHANGED <<mutex, w, readcnt, reg>>

TestOut(t) ==
    /\ pc[t] = "test2"
    /\ Goto(t, IF readcnt = 0 THEN "V_w" ELSE "V_mutex2")
    /\ UNCHANGED <<mutex, w, readcnt, reg>>

UnlockW(t) ==
    /\ pc[t] = "V_w"
    /\ w' = w + 1
    /\ Goto(t, "V_mutex2")
    /\ UNCHANGED <<mutex, readcnt, reg>>

(* V(&mutex): the reader is in (1), or find_cache_node returns (2).        *)
Unlock(t) ==
    /\ mutex' = mutex + 1
    /\ \/ pc[t] = "V_mutex1" /\ Goto(t, "read")
       \/ pc[t] = "V_mutex2" /\ Goto(t, "rest")
    /\ UNCHANGED <<w, readcnt, reg>>

(* The traversal ends.                                                     *)
EndRead(t) ==
    /\ pc[t] = "read"
    /\ Goto(t, "P_mutex2")
    /\ UNCHANGED <<mutex, w, readcnt, reg>>

(* move_node_to_first, remove_last_ts or add_first_ts is called; P(&w).    *)
CallEdit(t) ==
    /\ pc[t] = "rest"
    /\ Goto(t, "W_P_w")
    /\ UNCHANGED <<mutex, w, readcnt, reg>>

StartEdit(t) ==
    /\ pc[t] = "W_P_w" /\ w > 0
    /\ w' = w - 1
    /\ Goto(t, "write")
    /\ UNCHANGED <<mutex, readcnt, reg>>

(* The list has been edited; V(&w), and the function returns.              *)
EndEdit(t) ==
    /\ pc[t] = "write"
    /\ Goto(t, "W_V_w")
    /\ UNCHANGED <<mutex, w, readcnt, reg>>

ReturnEdit(t) ==
    /\ pc[t] = "W_V_w"
    /\ w' = w + 1
    /\ Goto(t, "rest")
    /\ UNCHANGED <<mutex, readcnt, reg>>

(* Steps a thread inside one of the functions takes.                       *)
Proceed(t) ==
    \/ Lock(t) \/ LoadCount(t) \/ StoreCount(t) \/ TestIn(t) \/ LockW(t)
    \/ TestOut(t) \/ UnlockW(t) \/ Unlock(t) \/ EndRead(t)
    \/ StartEdit(t) \/ EndEdit(t) \/ ReturnEdit(t)

Next == \E t \in Threads : CallFind(t) \/ CallEdit(t) \/ Proceed(t)

Spec == Init /\ [][Next]_vars

(* Threads are scheduled again and again.  Nothing is assumed of the       *)
(* semaphores, and nobody is obliged to call the cache at all.             *)
Fairness == \A t \in Threads : WF_vars(Proceed(t))

LiveSpec == Spec /\ Fairness

-----------------------------------------------------------------------------
TypeOK ==
    /\ mutex \in 0 .. 1 /\ w \in 0 .. 1
    /\ readcnt \in 0 .. Cardinality(Threads)
    /\ pc \in [Threads -> PC]
    /\ reg \in [Threads -> 0 .. Cardinality(Threads)]

(* How many threads stand at one of the labels L.                          *)
Count(L) == Cardinality({t \in Threads : pc[t] \in L})

(* Between P(&mutex) and V(&mutex).                                        *)
Locked == {"load1", "store1", "test1", "P_w", "V_mutex1",
           "load2", "store2", "test2", "V_w", "V_mutex2"}

(* Counted in readcnt: between the two stores.                             *)
Counted == {"test1", "P_w", "V_mutex1", "read", "P_mutex2", "load2", "store2"}

(* Counted, and past the point where w must be held.                       *)
Covered == {"V_mutex1", "read", "P_mutex2", "load2", "store2"}

Editing == {"write", "W_V_w"}

(* The readers, as a group, hold w: one of them is covered, or the last    *)
(* one out has not given it back yet.                                      *)
ReadersHoldW ==
    \/ \E t \in Threads : pc[t] \in Covered \cup {"V_w"}
    \/ readcnt = 0 /\ \E t \in Threads : pc[t] = "test2"

(* readcnt is exactly the number of readers inside: no increment is lost   *)
(* (webcache.c:32, 47).                                                    *)
CountExact == readcnt = Count(Counted)

(* mutex is held by one thread or free, and w by one editor, or by the     *)
(* readers together, or free.                                              *)
MutexInv == mutex + Count(Locked) = 1
WInv == w + Count(Editing) + (IF ReadersHoldW THEN 1 ELSE 0) = 1

(* The bookkeeping that makes the readers' lock of find_cache_node sound   *)
(* at every interleaving (31-35, 46-50) with the editors' P(&w), V(&w).    *)
LockInv == MutexInv /\ WInv /\ CountExact

RW == INSTANCE ReadersWriter
        WITH reading <- {t \in Threads : pc[t] = "read"},
             writing <- {t \in Threads : pc[t] = "write"}

(* Nobody edits the list while it is traversed or edited by another.       *)
RWSpec == RW!RWSpec

(* Every call returns, of find_cache_node and of the editors, unless calls *)
(* keep coming for ever: only then can the semaphores pass over a thread.  *)
Called == \E t \in Threads : CallFind(t) \/ CallEdit(t)

CallsReturn ==
    \/ \A t \in Threads : pc[t] # "rest" ~> pc[t] = "rest"
    \/ []<><<Called>>_vars
=============================================================================
