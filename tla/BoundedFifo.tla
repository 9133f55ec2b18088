---------------------------- MODULE BoundedFifo ----------------------------
(***************************************************************************)
(* What sbuf.c promises its callers: "an empty, bounded, shared FIFO       *)
(* buffer with n slots".  An insertion is two events, the call and the     *)
(* instant the item enters the queue; a removal likewise takes the head at *)
(* one instant and hands it to the consumer, which keeps it while it works *)
(* on it.  Semaphores, counters and the circular array do not appear.      *)
(***************************************************************************)
EXTENDS Naturals, Sequences

CONSTANTS
    Producers,      \* the threads that insert (the proxy's main thread)
    Consumers,      \* the threads that remove (the proxy's workers)
    Items,          \* what is passed: connected descriptors
    N,              \* the capacity
    NoItem          \* not an item

VARIABLES
    queue,          \* the items inserted and not yet removed, oldest first
    offered,        \* offered[p]: the item p is inserting, or NoItem
    taken           \* taken[c]: the item c removed and works on, or NoItem

fifoVars == <<queue, offered, taken>>

FifoInit ==
    /\ queue = << >>
    /\ offered = [p \in Producers |-> NoItem]
    /\ taken = [c \in Consumers |-> NoItem]

Offer(p, v) ==
    /\ offered[p] = NoItem
    /\ offered' = [offered EXCEPT ![p] = v]
    /\ UNCHANGED <<queue, taken>>

Put(p) ==
    /\ offered[p] # NoItem
    /\ Len(queue) < N
    /\ queue' = Append(queue, offered[p])
    /\ offered' = [offered EXCEPT ![p] = NoItem]
    /\ UNCHANGED taken

Take(c) ==
    /\ taken[c] = NoItem
    /\ queue # << >>
    /\ taken' = [taken EXCEPT ![c] = Head(queue)]
    /\ queue' = Tail(queue)
    /\ UNCHANGED offered

Finish(c) ==
    /\ taken[c] # NoItem
    /\ taken' = [taken EXCEPT ![c] = NoItem]
    /\ UNCHANGED <<queue, offered>>

FifoNext ==
    \/ \E p \in Producers : Put(p) \/ \E v \in Items : Offer(p, v)
    \/ \E c \in Consumers : Take(c) \/ Finish(c)

FifoSpec == FifoInit /\ [][FifoNext]_fifoVars
=============================================================================
