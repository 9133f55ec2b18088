-------------------------------- MODULE SBuf --------------------------------
(***************************************************************************)
(* The proxy's descriptor buffer (sbuf.c): a circular array guarded by the *)
(* semaphores mutex, slots and items.  One action per semaphore operation  *)
(* and per memory access, so that threads interleave where the code lets   *)
(* them.  The counters front and rear are C ints that are only ever        *)
(* incremented: IntMax stands for INT_MAX.                                 *)
(***************************************************************************)
EXTENDS Integers, FiniteSets, Sequences

CONSTANTS
    Producers,      \* threads that call sbuf_insert
    Consumers,      \* threads that call sbuf_remove
    Items,          \* the descriptors passed
    N,              \* sp->n, the number of slots
    IntMax,         \* INT_MAX
    MaxInserts,     \* bound on the calls of sbuf_insert
    NoItem          \* the content of a cell or a register nobody has set

Threads == Producers \cup Consumers

ASSUME ConstAssumption ==
    /\ N \in Nat \ {0}
    /\ IntMax \in Nat \ {0}
    /\ MaxInserts \in Nat
    /\ IsFiniteSet(Producers)
    /\ IsFiniteSet(Consumers)
    /\ Producers \cap Consumers = {}
    /\ NoItem \notin Items

VARIABLES
    buf,            \* the memory at sp->buf, the cells below it included
    front, rear,    \* sp->front, sp->rear
    mutex, slots, items,    \* the values of the three semaphores
    pc,             \* pc[t]: the next step of thread t
    idx,            \* idx[t]: the incremented counter t has in a register
    item,           \* item[t]: the argument, or the value removed
    inserts         \* calls of sbuf_insert so far (bounds the model only)

vars == <<buf, front, rear, mutex, slots, items, pc, idx, item, inserts>>

-----------------------------------------------------------------------------
(* ++x on an int: the build is not optimised, and wraps.                   *)
CInc(x) == IF x = IntMax THEN -IntMax - 1 ELSE x + 1

(* x % N as C computes it: the sign of the dividend.                       *)
CRem(x) == IF x >= 0 THEN x % N ELSE -((-x) % N)

Slots == 0 .. (N - 1)               \* the cells sbuf_init allocated
Cells == (1 - N) .. (N - 1)         \* the cells CRem can name

PC == {"idle", "P_mutex", "load", "access", "V_mutex", "post", "busy",
       "P_slots"}

(* What sbuf_init gives sp->slots; a mutant that is off by one.             *)
InitialSlotsOffByOne == N + 1
InitialSlots == N

(* What sbuf_init gives sp->mutex; a mutant that lets two threads in.       *)
InitialMutexTwo == 2
InitialMutex == 1

Init ==
    /\ buf = [i \in Cells |-> NoItem]
    /\ front = 0 /\ rear = 0
    /\ mutex = InitialMutex /\ slots = InitialSlots /\ items = 0
    /\ pc = [t \in Threads |-> "idle"]
    /\ idx = [t \in Threads |-> 0]
    /\ item = [t \in Threads |-> NoItem]
    /\ inserts = 0

Goto(t, l) == pc' = [pc EXCEPT ![t] = l]

-----------------------------------------------------------------------------
(* sbuf_insert(sp, v) is called.                                           *)
Offer(p, v) ==
    /\ pc[p] = "idle" /\ inserts < MaxInserts
    /\ inserts' = inserts + 1
    /\ item' = [item EXCEPT ![p] = v]
    /\ Goto(p, "P_slots")
    /\ UNCHANGED <<buf, front, rear, mutex, slots, items, idx>>

(* P(&sp->slots)                                                           *)
ReserveSlot(p) ==
    /\ pc[p] = "P_slots" /\ slots > 0
    /\ slots' = slots - 1
    /\ Goto(p, "P_mutex")
    /\ UNCHANGED <<buf, front, rear, mutex, items, idx, item, inserts>>

(* P(&sp->items): a consumer always rests here, in sbuf_remove.            *)
ClaimItem(c) ==
    /\ pc[c] = "idle" /\ items > 0
    /\ items' = items - 1
    /\ Goto(c, "P_mutex")
    /\ UNCHANGED <<buf, front, rear, mutex, slots, idx, item, inserts>>

(* P(&sp->mutex)                                                           *)
LockBuffer(t) ==
    /\ pc[t] = "P_mutex" /\ mutex > 0
    /\ mutex' = mutex - 1
    /\ Goto(t, "load")
    /\ UNCHANGED <<buf, front, rear, slots, items, idx, item, inserts>>

(* The operand of ++: the counter is read and incremented in a register... *)
LoadRear(p) ==
    /\ pc[p] = "load"
    /\ idx' = [idx EXCEPT ![p] = CInc(rear)]
    /\ Goto(p, "access")
    /\ UNCHANGED <<buf, front, rear, mutex, slots, items, item, inserts>>

LoadFront(c) ==
    /\ pc[c] = "load"
    /\ idx' = [idx EXCEPT ![c] = CInc(front)]
    /\ Goto(c, "access")
    /\ UNCHANGED <<buf, front, rear, mutex, slots, items, item, inserts>>

(* ... and written back, and the cell it names is stored or fetched.       *)
Store(p) ==
    /\ pc[p] = "access"
    /\ rear' = idx[p]
    /\ buf' = [buf EXCEPT ![CRem(idx[p])] = item[p]]
    /\ Goto(p, "V_mutex")
    /\ UNCHANGED <<front, mutex, slots, items, idx, item, inserts>>

Fetch(c) ==
    /\ pc[c] = "access"
    /\ front' = idx[c]
    /\ item' = [item EXCEPT ![c] = buf[CRem(idx[c])]]
    /\ Goto(c, "V_mutex")
    /\ UNCHANGED <<buf, rear, mutex, slots, items, idx, inserts>>

(* V(&sp->mutex)                                                           *)
UnlockBuffer(t) ==
    /\ pc[t] = "V_mutex"
    /\ mutex' = mutex + 1
    /\ Goto(t, "post")
    /\ UNCHANGED <<buf, front, rear, slots, items, idx, item, inserts>>

(* V(&sp->items), and sbuf_insert returns.  The mutant forgets the V.       *)
PostItemForgotten(p) ==
    /\ pc[p] = "post"
    /\ Goto(p, "idle")
    /\ UNCHANGED <<buf, front, rear, mutex, slots, items, idx, item, inserts>>

PostItem(p) ==
    /\ pc[p] = "post"
    /\ items' = items + 1
    /\ Goto(p, "idle")
    /\ UNCHANGED <<buf, front, rear, mutex, slots, idx, item, inserts>>

(* V(&sp->slots), and sbuf_remove returns the item.  The mutant forgets    *)
(* the V.                                                                  *)
PostSlotForgotten(c) ==
    /\ pc[c] = "post"
    /\ Goto(c, "busy")
    /\ UNCHANGED <<buf, front, rear, mutex, slots, items, idx, item, inserts>>

PostSlot(c) ==
    /\ pc[c] = "post"
    /\ slots' = slots + 1
    /\ Goto(c, "busy")
    /\ UNCHANGED <<buf, front, rear, mutex, items, idx, item, inserts>>

(* The consumer is done with the item (doit and Close return).             *)
Finish(c) ==
    /\ pc[c] = "busy"
    /\ item' = [item EXCEPT ![c] = NoItem]
    /\ Goto(c, "idle")
    /\ UNCHANGED <<buf, front, rear, mutex, slots, items, idx, inserts>>

(* The bounded run is over: everything inserted has been worked on.        *)
Quiet ==
    /\ inserts = MaxInserts
    /\ \A t \in Threads : pc[t] = "idle"
    /\ items = 0
    /\ UNCHANGED vars

Produce(p) ==
    \/ ReserveSlot(p) \/ LockBuffer(p) \/ LoadRear(p) \/ Store(p)
    \/ UnlockBuffer(p) \/ PostItem(p)

Consume(c) ==
    \/ ClaimItem(c) \/ LockBuffer(c) \/ LoadFront(c) \/ Fetch(c)
    \/ UnlockBuffer(c) \/ PostSlot(c) \/ Finish(c)

Next ==
    \/ \E p \in Producers : Produce(p) \/ \E v \in Items : Offer(p, v)
    \/ \E c \in Consumers : Consume(c)
    \/ Quiet

Spec == Init /\ [][Next]_vars

(* Each thread is scheduled again and again; nothing more is assumed of    *)
(* the semaphores, which may pass over a waiter while others take turns.   *)
Fairness ==
    /\ \A p \in Producers : WF_vars(Produce(p))
    /\ \A c \in Consumers : WF_vars(Consume(c))

LiveSpec == Spec /\ Fairness

-----------------------------------------------------------------------------
(* How many threads of T stand at one of the labels L, and the groups the  *)
(* semaphores account for.                                                 *)
Count(T, L) == Cardinality({t \in T : pc[t] \in L})

InBuffer  == Count(Threads, {"load", "access", "V_mutex"})
Reserved  == Count(Producers, {"P_mutex", "load", "access"})
Posting   == Count(Producers, {"V_mutex", "post"})
Claimed   == Count(Consumers, {"P_mutex", "load", "access"})
Releasing == Count(Consumers, {"V_mutex", "post"})

TypeOK ==
    /\ buf \in [Cells -> Items \cup {NoItem}]
    /\ front \in -IntMax - 1 .. IntMax
    /\ rear \in -IntMax - 1 .. IntMax
    /\ mutex \in 0 .. 1
    /\ slots \in 0 .. N
    /\ items \in 0 .. N
    /\ pc \in [Threads -> PC]
    /\ idx \in [Threads -> -IntMax - 1 .. IntMax]
    /\ item \in [Threads -> Items \cup {NoItem}]
    /\ inserts \in 0 .. MaxInserts

(* The mutex is free exactly when nobody is between its P and its V.       *)
MutexInv == mutex + InBuffer = 1

(* Every slot is free, reserved by an inserter, filled, or emptied and not *)
(* yet given back: the four add up to n in every state.                    *)
SlotsInv == slots + Reserved + (rear - front) + Releasing = N

(* Every stored item is announced, claimed, or about to be announced.      *)
ItemsInv == items + Claimed + Posting = rear - front

(* The bookkeeping of the three semaphores against the two counters of the *)
(* array: what makes "bounded" and "blocks when empty" true of sbuf.c at   *)
(* every interleaving of its callers (26-40).                              *)
Accounting == MutexInv /\ SlotsInv /\ ItemsInv

(* The counter a thread loaded is still current when it writes it back:    *)
(* no increment of front or rear is lost (28, 38).                         *)
NoLostIncrement ==
    /\ \A p \in Producers : pc[p] = "access" => idx[p] = CInc(rear)
    /\ \A c \in Consumers : pc[c] = "access" => idx[c] = CInc(front)

-----------------------------------------------------------------------------
(* The refinement of the FIFO: the queue is the window of the array between *)
(* the two counters; an item is on offer until it is stored.               *)
Queue == [i \in 1 .. rear - front |-> buf[CRem(front + i)]]

Offered ==
    [p \in Producers |->
        IF pc[p] \in {"P_slots", "P_mutex", "load", "access"}
        THEN item[p] ELSE NoItem]

Taken == [c \in Consumers |-> item[c]]

Fifo == INSTANCE BoundedFifo
            WITH queue <- Queue, offered <- Offered, taken <- Taken

(* sbuf.c implements the bounded FIFO queue of its header comment.         *)
FifoSpec == Fifo!FifoSpec

(* A call of sbuf_insert returns: the proxy's accept loop is not stuck as  *)
(* long as the workers finish with what they removed.                      *)
InsertReturns == \A p \in Producers : pc[p] = "P_slots" ~> pc[p] = "idle"

(* The k-th item stored is eventually removed by some consumer.            *)
EveryItemRemoved == \A k \in 1 .. MaxInserts : rear >= k ~> front >= k
=============================================================================
