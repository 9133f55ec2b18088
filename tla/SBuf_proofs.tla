---------------------------- MODULE SBuf_proofs ----------------------------
(***************************************************************************)
(* Theorems about SBuf for every set of producers and consumers, every     *)
(* capacity and every number of insertions the counters can count.         *)
(***************************************************************************)
EXTENDS SBuf, Counting, FiniteSetTheorems, SequenceTheorems, TLAPS

(* Fewer insertions than an int can count: past INT_MAX the increments of  *)
(* front and rear wrap, and nothing below holds of the code.               *)
NoWrap == MaxInserts <= IntMax

-----------------------------------------------------------------------------
(* The types, with no more said of the numbers than that they are natural. *)
Types ==
    /\ buf \in [Cells -> Items \cup {NoItem}]
    /\ front \in Nat /\ rear \in Nat
    /\ mutex \in Nat /\ slots \in Nat /\ items \in Nat
    /\ pc \in [Threads -> PC]
    /\ idx \in [Threads -> 0 .. IntMax]
    /\ item \in [Threads -> Items \cup {NoItem}]
    /\ inserts \in 0 .. MaxInserts

(* Each kind of thread keeps to its own code.                              *)
Labels ==
    /\ \A p \in Producers : pc[p] # "busy"
    /\ \A c \in Consumers : pc[c] # "P_slots"

(* Calls of sbuf_insert that have not stored their item.                   *)
Storing == Count(Producers, {"P_slots", "P_mutex", "load", "access"})

(* The counters count calls: rear never runs ahead of the insertions.      *)
RearBound == rear + Storing <= inserts

(* What a register holds between the load of a counter and its write-back. *)
Registers ==
    /\ \A p \in Producers : pc[p] = "access" => idx[p] = rear + 1
    /\ \A c \in Consumers : pc[c] = "access" => idx[c] = front + 1

IInv ==
    /\ Types
    /\ Labels
    /\ Accounting
    /\ RearBound
    /\ Registers

-----------------------------------------------------------------------------
(* Moving one thread to another label changes each count by what the move  *)
(* takes from it and gives to it.                                          *)
LEMMA CountMove ==
    ASSUME pc \in [Threads -> PC], NEW t \in Threads, NEW l, Goto(t, l),
           NEW T, T \in SUBSET Threads, NEW L
    PROVE  /\ Count(T, L) \in Nat
           /\ Count(T, L)' =
                Count(T, L) - (IF t \in T /\ pc[t] \in L THEN 1 ELSE 0)
                            + (IF t \in T /\ l \in L THEN 1 ELSE 0)
<1>1. IsFiniteSet(T)
  BY ConstAssumption, FS_Union, FS_Subset DEF Threads
<1>2. \A u \in Threads : pc'[u] = IF u = t THEN l ELSE pc[u]
  BY DEF Goto
<1>3. Count(T, L) = CountAt(pc, T, L) /\ Count(T, L)' = CountAt(pc', T, L)
  BY DEF Count, CountAt
<1>4. CountAt(pc, T, L) \in Nat
  BY <1>1, CountAtType
<1>5. CASE t \in T
  <2>1. OnlyAt(t, T, pc, pc')
    BY <1>2 DEF OnlyAt
  <2>2. CountAt(pc', T, L) = CountAt(pc, T, L) - Adds(pc[t], L) + Adds(pc'[t], L)
    BY <1>1, <1>5, <2>1, CountAtMove
  <2>3. pc'[t] = l
    BY <1>2
  <2> QED BY <1>3, <1>4, <1>5, <2>2, <2>3 DEF Adds
<1>6. CASE t \notin T
  <2>1. {u \in T : pc'[u] \in L} = {u \in T : pc[u] \in L}
    BY <1>2, <1>6
  <2>2. Count(T, L)' = Count(T, L)
    BY <2>1 DEF Count
  <2> QED BY <1>3, <1>4, <1>6, <2>2
<1> QED BY <1>5, <1>6

(* What a producer that moves from label k to label l does to the groups.  *)
LEMMA ProducerMove ==
    ASSUME pc \in [Threads -> PC], NEW p \in Producers, NEW l, Goto(p, l)
    PROVE  /\ InBuffer' = InBuffer - Adds(pc[p], {"load", "access", "V_mutex"})
                                   + Adds(l, {"load", "access", "V_mutex"})
           /\ Reserved' = Reserved - Adds(pc[p], {"P_mutex", "load", "access"})
                                   + Adds(l, {"P_mutex", "load", "access"})
           /\ Posting' = Posting - Adds(pc[p], {"V_mutex", "post"})
                                 + Adds(l, {"V_mutex", "post"})
           /\ Storing' =
                Storing - Adds(pc[p], {"P_slots", "P_mutex", "load", "access"})
                        + Adds(l, {"P_slots", "P_mutex", "load", "access"})
           /\ Claimed' = Claimed /\ Releasing' = Releasing
<1>1. p \in Threads /\ p \notin Consumers
  BY ConstAssumption DEF Threads
<1>2. Producers \in SUBSET Threads /\ Consumers \in SUBSET Threads
  BY DEF Threads
<1>3. InBuffer' = InBuffer - Adds(pc[p], {"load", "access", "V_mutex"})
                           + Adds(l, {"load", "access", "V_mutex"})
  BY <1>1, <1>2, CountMove DEF InBuffer, Adds
<1>4. Reserved' = Reserved - Adds(pc[p], {"P_mutex", "load", "access"})
                           + Adds(l, {"P_mutex", "load", "access"})
  BY <1>1, <1>2, CountMove DEF Reserved, Adds
<1>5. Posting' = Posting - Adds(pc[p], {"V_mutex", "post"})
                         + Adds(l, {"V_mutex", "post"})
  BY <1>1, <1>2, CountMove DEF Posting, Adds
<1>6. Storing' =
        Storing - Adds(pc[p], {"P_slots", "P_mutex", "load", "access"})
                + Adds(l, {"P_slots", "P_mutex", "load", "access"})
  BY <1>1, <1>2, CountMove DEF Storing, Adds
<1>7. Claimed' = Claimed /\ Releasing' = Releasing
  BY <1>1, <1>2, CountMove DEF Claimed, Releasing
<1> QED BY <1>3, <1>4, <1>5, <1>6, <1>7

LEMMA ConsumerMove ==
    ASSUME pc \in [Threads -> PC], NEW c \in Consumers, NEW l, Goto(c, l)
    PROVE  /\ InBuffer' = InBuffer - Adds(pc[c], {"load", "access", "V_mutex"})
                                   + Adds(l, {"load", "access", "V_mutex"})
           /\ Claimed' = Claimed - Adds(pc[c], {"P_mutex", "load", "access"})
                                 + Adds(l, {"P_mutex", "load", "access"})
           /\ Releasing' = Releasing - Adds(pc[c], {"V_mutex", "post"})
                                     + Adds(l, {"V_mutex", "post"})
           /\ Reserved' = Reserved /\ Posting' = Posting /\ Storing' = Storing
<1>1. c \in Threads /\ c \notin Producers
  BY ConstAssumption DEF Threads
<1>2. Producers \in SUBSET Threads /\ Consumers \in SUBSET Threads
  BY DEF Threads
<1>3. InBuffer' = InBuffer - Adds(pc[c], {"load", "access", "V_mutex"})
                           + Adds(l, {"load", "access", "V_mutex"})
  BY <1>1, <1>2, CountMove DEF InBuffer, Adds
<1>4. Claimed' = Claimed - Adds(pc[c], {"P_mutex", "load", "access"})
                         + Adds(l, {"P_mutex", "load", "access"})
  BY <1>1, <1>2, CountMove DEF Claimed, Adds
<1>5. Releasing' = Releasing - Adds(pc[c], {"V_mutex", "post"})
                             + Adds(l, {"V_mutex", "post"})
  BY <1>1, <1>2, CountMove DEF Releasing, Adds
<1>6. Reserved' = Reserved /\ Posting' = Posting /\ Storing' = Storing
  BY <1>1, <1>2, CountMove DEF Reserved, Posting, Storing
<1> QED BY <1>3, <1>4, <1>5, <1>6

(* Every group is counted by a natural number, and not by zero if somebody *)
(* is in it.                                                               *)
LEMMA CountType ==
    ASSUME NEW T, T \in SUBSET Threads, NEW L
    PROVE  /\ Count(T, L) \in Nat
           /\ \A t \in T : pc[t] \in L => Count(T, L) > 0
<1>1. IsFiniteSet(T)
  BY ConstAssumption, FS_Union, FS_Subset DEF Threads
<1>2. Count(T, L) = CountAt(pc, T, L)
  BY DEF Count, CountAt
<1>3. Count(T, L) \in Nat /\ (Count(T, L) = 0 <=> \A t \in T : pc[t] \notin L)
  BY <1>1, <1>2, CountAtType
<1> QED BY <1>3

LEMMA Groups ==
    /\ InBuffer \in Nat /\ Reserved \in Nat /\ Posting \in Nat
    /\ Claimed \in Nat /\ Releasing \in Nat /\ Storing \in Nat
BY CountType DEF Threads, InBuffer, Reserved, Posting, Claimed, Releasing,
                 Storing

(* Only one thread at a time is between P(&sp->mutex) and V(&sp->mutex).   *)
LEMMA Alone ==
    ASSUME MutexInv, mutex \in Nat,
           NEW t \in Threads, pc[t] \in {"load", "access", "V_mutex"},
           NEW u \in Threads, pc[u] \in {"load", "access", "V_mutex"}
    PROVE  t = u
<1>1. IsFiniteSet(Threads)
  BY ConstAssumption, FS_Union DEF Threads
<1>2. InBuffer = CountAt(pc, Threads, {"load", "access", "V_mutex"})
  BY DEF InBuffer, Count, CountAt
<1>3. CountAt(pc, Threads, {"load", "access", "V_mutex"}) \in Nat
  BY <1>1, CountAtType
<1>4. CountAt(pc, Threads, {"load", "access", "V_mutex"}) <= 1
  BY <1>2, <1>3 DEF MutexInv
<1> QED BY <1>1, <1>4, CountAtOne

(* No counter wraps while an insertion or a removal is under way.          *)
LEMMA NextCounter ==
    ASSUME IInv, NoWrap
    PROVE  /\ \A p \in Producers :
                pc[p] \in {"load", "access"} =>
                    CInc(rear) = rear + 1 /\ rear < IntMax
           /\ \A c \in Consumers :
                pc[c] \in {"load", "access"} =>
                    CInc(front) = front + 1 /\ front < IntMax
<1>1. ASSUME NEW p \in Producers, pc[p] \in {"load", "access"}
      PROVE  CInc(rear) = rear + 1 /\ rear < IntMax
  <2>1. Storing \in Nat /\ Storing > 0
    BY <1>1, CountType DEF Storing, Threads
  <2>2. rear < IntMax
    BY <2>1, ConstAssumption DEF IInv, Types, RearBound, NoWrap
  <2> QED BY <2>2 DEF CInc, IInv, Types
<1>2. ASSUME NEW c \in Consumers, pc[c] \in {"load", "access"}
      PROVE  CInc(front) = front + 1 /\ front < IntMax
  <2>1. Claimed \in Nat /\ Claimed > 0
    BY <1>2, CountType DEF Claimed, Threads
  <2>2. front < rear /\ rear <= IntMax
    BY <2>1, Groups, ConstAssumption
    DEF IInv, Types, Accounting, ItemsInv, RearBound, NoWrap
  <2> QED BY <2>2, ConstAssumption DEF CInc, IInv, Types
<1> QED BY <1>1, <1>2

-----------------------------------------------------------------------------
LEMMA InitIInv == Init => IInv
<1> SUFFICES ASSUME Init PROVE IInv
  OBVIOUS
<1> USE DEF Init, InitialMutex, InitialSlots
<1>1. Types
  BY ConstAssumption DEF Types, PC
<1>2. Labels /\ Registers
  BY DEF Labels, Registers, Threads
<1>3. \A T \in SUBSET Threads : \A L : "idle" \notin L => Count(T, L) = 0
  <2> TAKE T \in SUBSET Threads
  <2> TAKE L
  <2> HAVE "idle" \notin L
  <2>1. {t \in T : pc[t] \in L} = {}
    OBVIOUS
  <2> QED BY <2>1, FS_EmptySet DEF Count
<1>4. InBuffer = 0 /\ Reserved = 0 /\ Posting = 0 /\ Claimed = 0
      /\ Releasing = 0 /\ Storing = 0
  BY <1>3 DEF InBuffer, Reserved, Posting, Claimed, Releasing, Storing, Threads
<1>5. Accounting /\ RearBound
  BY <1>4, ConstAssumption
  DEF Accounting, MutexInv, SlotsInv, ItemsInv, RearBound
<1> QED BY <1>1, <1>2, <1>5 DEF IInv

LEMMA OfferStep ==
    ASSUME IInv, NEW p \in Producers, NEW v \in Items, Offer(p, v)
    PROVE  IInv'
<1> USE DEF IInv, Offer
<1>1. p \in Threads /\ Goto(p, "P_slots")
  BY DEF Threads
<1>2. Types' /\ Labels'
  BY <1>1, ConstAssumption DEF Types, Labels, PC, Goto
<1>3. Accounting' /\ RearBound'
  <2>1. /\ InBuffer' = InBuffer /\ Reserved' = Reserved /\ Posting' = Posting
        /\ Claimed' = Claimed /\ Releasing' = Releasing /\ Storing' = Storing + 1
    BY <1>1, ProducerMove, Groups DEF Adds, Types
  <2> QED BY <2>1, Groups, ConstAssumption
          DEF Types, Accounting, MutexInv, SlotsInv, ItemsInv, RearBound
<1>4. Registers'
  BY <1>1 DEF Types, Registers, Threads, Goto
<1> QED BY <1>2, <1>3, <1>4

LEMMA ReserveSlotStep ==
    ASSUME IInv, NEW p \in Producers, ReserveSlot(p)
    PROVE  IInv'
<1> USE DEF IInv, ReserveSlot
<1>1. p \in Threads /\ Goto(p, "P_mutex")
  BY DEF Threads
<1>2. Types' /\ Labels'
  BY <1>1, ConstAssumption DEF Types, Labels, PC, Goto
<1>3. Accounting' /\ RearBound'
  <2>1. /\ InBuffer' = InBuffer /\ Reserved' = Reserved + 1 /\ Posting' = Posting
        /\ Claimed' = Claimed /\ Releasing' = Releasing /\ Storing' = Storing
    BY <1>1, ProducerMove, Groups DEF Adds, Types
  <2> QED BY <2>1, Groups, ConstAssumption
          DEF Types, Accounting, MutexInv, SlotsInv, ItemsInv, RearBound
<1>4. Registers'
  BY <1>1 DEF Types, Registers, Threads, Goto
<1> QED BY <1>2, <1>3, <1>4

LEMMA ClaimItemStep ==
    ASSUME IInv, NEW c \in Consumers, ClaimItem(c)
    PROVE  IInv'
<1> USE DEF IInv, ClaimItem
<1>1. c \in Threads /\ Goto(c, "P_mutex")
  BY DEF Threads
<1>2. Types' /\ Labels'
  BY <1>1, ConstAssumption DEF Types, Labels, PC, Goto
<1>3. Accounting' /\ RearBound'
  <2>1. /\ InBuffer' = InBuffer /\ Reserved' = Reserved /\ Posting' = Posting
        /\ Claimed' = Claimed + 1 /\ Releasing' = Releasing /\ Storing' = Storing
    BY <1>1, ConsumerMove, Groups DEF Adds, Types
  <2> QED BY <2>1, Groups, ConstAssumption
          DEF Types, Accounting, MutexInv, SlotsInv, ItemsInv, RearBound
<1>4. Registers'
  BY <1>1 DEF Types, Registers, Threads, Goto
<1> QED BY <1>2, <1>3, <1>4

LEMMA ProducerLockStep ==
    ASSUME IInv, NEW p \in Producers, LockBuffer(p)
    PROVE  IInv'
<1> USE DEF IInv, LockBuffer
<1>1. p \in Threads /\ Goto(p, "load")
  BY DEF Threads
<1>2. Types' /\ Labels'
  BY <1>1, ConstAssumption DEF Types, Labels, PC, Goto
<1>3. Accounting' /\ RearBound'
  <2>1. /\ InBuffer' = InBuffer + 1 /\ Reserved' = Reserved /\ Posting' = Posting
        /\ Claimed' = Claimed /\ Releasing' = Releasing /\ Storing' = Storing
    BY <1>1, ProducerMove, Groups DEF Adds, Types
  <2> QED BY <2>1, Groups, ConstAssumption
          DEF Types, Accounting, MutexInv, SlotsInv, ItemsInv, RearBound
<1>4. Registers'
  BY <1>1 DEF Types, Registers, Threads, Goto
<1> QED BY <1>2, <1>3, <1>4

LEMMA ConsumerLockStep ==
    ASSUME IInv, NEW c \in Consumers, LockBuffer(c)
    PROVE  IInv'
<1> USE DEF IInv, LockBuffer
<1>1. c \in Threads /\ Goto(c, "load")
  BY DEF Threads
<1>2. Types' /\ Labels'
  BY <1>1, ConstAssumption DEF Types, Labels, PC, Goto
<1>3. Accounting' /\ RearBound'
  <2>1. /\ InBuffer' = InBuffer + 1 /\ Reserved' = Reserved /\ Posting' = Posting
        /\ Claimed' = Claimed /\ Releasing' = Releasing /\ Storing' = Storing
    BY <1>1, ConsumerMove, Groups DEF Adds, Types
  <2> QED BY <2>1, Groups, ConstAssumption
          DEF Types, Accounting, MutexInv, SlotsInv, ItemsInv, RearBound
<1>4. Registers'
  BY <1>1 DEF Types, Registers, Threads, Goto
<1> QED BY <1>2, <1>3, <1>4

LEMMA LoadRearStep ==
    ASSUME IInv, NoWrap, NEW p \in Producers, LoadRear(p)
    PROVE  IInv'
<1> USE DEF IInv, LoadRear
<1>1. p \in Threads /\ Goto(p, "access")
  BY DEF Threads
<1>0. CInc(rear) = rear + 1 /\ rear < IntMax
  BY NextCounter
<1>2. Types' /\ Labels'
  BY <1>0, <1>1, ConstAssumption DEF Types, Labels, PC, Goto
<1>3. Accounting' /\ RearBound'
  <2>1. /\ InBuffer' = InBuffer /\ Reserved' = Reserved /\ Posting' = Posting
        /\ Claimed' = Claimed /\ Releasing' = Releasing /\ Storing' = Storing
    BY <1>1, ProducerMove, Groups DEF Adds, Types
  <2> QED BY <2>1, <1>0, Groups, ConstAssumption
          DEF Types, Accounting, MutexInv, SlotsInv, ItemsInv, RearBound
<1>4. Registers'
  BY <1>0, <1>1, ConstAssumption DEF Types, Registers, Threads, Goto
<1> QED BY <1>2, <1>3, <1>4

LEMMA LoadFrontStep ==
    ASSUME IInv, NoWrap, NEW c \in Consumers, LoadFront(c)
    PROVE  IInv'
<1> USE DEF IInv, LoadFront
<1>1. c \in Threads /\ Goto(c, "access")
  BY DEF Threads
<1>0. CInc(front) = front + 1 /\ front < IntMax
  BY NextCounter
<1>2. Types' /\ Labels'
  BY <1>0, <1>1, ConstAssumption DEF Types, Labels, PC, Goto
<1>3. Accounting' /\ RearBound'
  <2>1. /\ InBuffer' = InBuffer /\ Reserved' = Reserved /\ Posting' = Posting
        /\ Claimed' = Claimed /\ Releasing' = Releasing /\ Storing' = Storing
    BY <1>1, ConsumerMove, Groups DEF Adds, Types
  <2> QED BY <2>1, <1>0, Groups, ConstAssumption
          DEF Types, Accounting, MutexInv, SlotsInv, ItemsInv, RearBound
<1>4. Registers'
  BY <1>0, <1>1, ConstAssumption DEF Types, Registers, Threads, Goto
<1> QED BY <1>2, <1>3, <1>4

LEMMA ProducerUnlockStep ==
    ASSUME IInv, NEW p \in Producers, UnlockBuffer(p)
    PROVE  IInv'
<1> USE DEF IInv, UnlockBuffer
<1>1. p \in Threads /\ Goto(p, "post")
  BY DEF Threads
<1>2. Types' /\ Labels'
  BY <1>1, ConstAssumption DEF Types, Labels, PC, Goto
<1>3. Accounting' /\ RearBound'
  <2>1. /\ InBuffer' = InBuffer - 1 /\ Reserved' = Reserved /\ Posting' = Posting
        /\ Claimed' = Claimed /\ Releasing' = Releasing /\ Storing' = Storing
    BY <1>1, ProducerMove, Groups DEF Adds, Types
  <2> QED BY <2>1, Groups, ConstAssumption
          DEF Types, Accounting, MutexInv, SlotsInv, ItemsInv, RearBound
<1>4. Registers'
  BY <1>1 DEF Types, Registers, Threads, Goto
<1> QED BY <1>2, <1>3, <1>4

LEMMA ConsumerUnlockStep ==
    ASSUME IInv, NEW c \in Consumers, UnlockBuffer(c)
    PROVE  IInv'
<1> USE DEF IInv, UnlockBuffer
<1>1. c \in Threads /\ Goto(c, "post")
  BY DEF Threads
<1>2. Types' /\ Labels'
  BY <1>1, ConstAssumption DEF Types, Labels, PC, Goto
<1>3. Accounting' /\ RearBound'
  <2>1. /\ InBuffer' = InBuffer - 1 /\ Reserved' = Reserved /\ Posting' = Posting
        /\ Claimed' = Claimed /\ Releasing' = Releasing /\ Storing' = Storing
    BY <1>1, ConsumerMove, Groups DEF Adds, Types
  <2> QED BY <2>1, Groups, ConstAssumption
          DEF Types, Accounting, MutexInv, SlotsInv, ItemsInv, RearBound
<1>4. Registers'
  BY <1>1 DEF Types, Registers, Threads, Goto
<1> QED BY <1>2, <1>3, <1>4

LEMMA PostItemStep ==
    ASSUME IInv, NEW p \in Producers, PostItem(p)
    PROVE  IInv'
<1> USE DEF IInv, PostItem
<1>1. p \in Threads /\ Goto(p, "idle")
  BY DEF Threads
<1>2. Types' /\ Labels'
  BY <1>1, ConstAssumption DEF Types, Labels, PC, Goto
<1>3. Accounting' /\ RearBound'
  <2>1. /\ InBuffer' = InBuffer /\ Reserved' = Reserved /\ Posting' = Posting - 1
        /\ Claimed' = Claimed /\ Releasing' = Releasing /\ Storing' = Storing
    BY <1>1, ProducerMove, Groups DEF Adds, Types
  <2> QED BY <2>1, Groups, ConstAssumption
          DEF Types, Accounting, MutexInv, SlotsInv, ItemsInv, RearBound
<1>4. Registers'
  BY <1>1 DEF Types, Registers, Threads, Goto
<1> QED BY <1>2, <1>3, <1>4

LEMMA PostSlotStep ==
    ASSUME IInv, NEW c \in Consumers, PostSlot(c)
    PROVE  IInv'
<1> USE DEF IInv, PostSlot
<1>1. c \in Threads /\ Goto(c, "busy")
  BY DEF Threads
<1>2. Types' /\ Labels'
  BY <1>1, ConstAssumption DEF Types, Labels, PC, Goto
<1>3. Accounting' /\ RearBound'
  <2>1. /\ InBuffer' = InBuffer /\ Reserved' = Reserved /\ Posting' = Posting
        /\ Claimed' = Claimed /\ Releasing' = Releasing - 1 /\ Storing' = Storing
    BY <1>1, ConsumerMove, Groups DEF Adds, Types
  <2> QED BY <2>1, Groups, ConstAssumption
          DEF Types, Accounting, MutexInv, SlotsInv, ItemsInv, RearBound
<1>4. Registers'
  BY <1>1 DEF Types, Registers, Threads, Goto
<1> QED BY <1>2, <1>3, <1>4

LEMMA FinishStep ==
    ASSUME IInv, NEW c \in Consumers, Finish(c)
    PROVE  IInv'
<1> USE DEF IInv, Finish
<1>1. c \in Threads /\ Goto(c, "idle")
  BY DEF Threads
<1>2. Types' /\ Labels'
  BY <1>1, ConstAssumption DEF Types, Labels, PC, Goto
<1>3. Accounting' /\ RearBound'
  <2>1. /\ InBuffer' = InBuffer /\ Reserved' = Reserved /\ Posting' = Posting
        /\ Claimed' = Claimed /\ Releasing' = Releasing /\ Storing' = Storing
    BY <1>1, ConsumerMove, Groups DEF Adds, Types
  <2> QED BY <2>1, Groups, ConstAssumption
          DEF Types, Accounting, MutexInv, SlotsInv, ItemsInv, RearBound
<1>4. Registers'
  BY <1>1 DEF Types, Registers, Threads, Goto
<1> QED BY <1>2, <1>3, <1>4

LEMMA StoreStep ==
    ASSUME IInv, NEW p \in Producers, Store(p)
    PROVE  IInv'
<1> USE DEF IInv, Store
<1>1. p \in Threads /\ Goto(p, "V_mutex")
  BY DEF Threads
<1>0. idx[p] = rear + 1 /\ CRem(idx[p]) \in Cells
  <2>1. idx[p] = rear + 1
    BY DEF Registers
  <2>2. (rear + 1) % N \in 0 .. N - 1
    BY ConstAssumption DEF Types
  <2> QED BY <2>1, <2>2, ConstAssumption DEF CRem, Cells, Types
<1>2. Types' /\ Labels'
  BY <1>0, <1>1, ConstAssumption DEF Types, Labels, PC, Goto
<1>3. Accounting' /\ RearBound'
  <2>1. /\ InBuffer' = InBuffer /\ Reserved' = Reserved - 1 /\ Posting' = Posting + 1
        /\ Claimed' = Claimed /\ Releasing' = Releasing /\ Storing' = Storing - 1
    BY <1>1, ProducerMove, Groups DEF Adds, Types
  <2> QED BY <2>1, <1>0, Groups, ConstAssumption
          DEF Types, Accounting, MutexInv, SlotsInv, ItemsInv, RearBound
<1>4. Registers'
  BY <1>0, <1>1, Alone, ConstAssumption
  DEF Types, Registers, Accounting, Threads, Goto
<1> QED BY <1>2, <1>3, <1>4

LEMMA FetchStep ==
    ASSUME IInv, NEW c \in Consumers, Fetch(c)
    PROVE  IInv'
<1> USE DEF IInv, Fetch
<1>1. c \in Threads /\ Goto(c, "V_mutex")
  BY DEF Threads
<1>0. idx[c] = front + 1 /\ CRem(idx[c]) \in Cells
  <2>1. idx[c] = front + 1
    BY DEF Registers
  <2>2. (front + 1) % N \in 0 .. N - 1
    BY ConstAssumption DEF Types
  <2> QED BY <2>1, <2>2, ConstAssumption DEF CRem, Cells, Types
<1>2. Types' /\ Labels'
  BY <1>0, <1>1, ConstAssumption DEF Types, Labels, PC, Goto
<1>3. Accounting' /\ RearBound'
  <2>1. /\ InBuffer' = InBuffer /\ Reserved' = Reserved /\ Posting' = Posting
        /\ Claimed' = Claimed - 1 /\ Releasing' = Releasing + 1 /\ Storing' = Storing
    BY <1>1, ConsumerMove, Groups DEF Adds, Types
  <2> QED BY <2>1, <1>0, Groups, ConstAssumption
          DEF Types, Accounting, MutexInv, SlotsInv, ItemsInv, RearBound
<1>4. Registers'
  BY <1>0, <1>1, Alone, ConstAssumption
  DEF Types, Registers, Accounting, Threads, Goto
<1> QED BY <1>2, <1>3, <1>4

-----------------------------------------------------------------------------
(* One case per action of Next.                                            *)
LEMMA IInvStep == ASSUME NoWrap, IInv, [Next]_vars PROVE IInv'
<1>1. ASSUME NEW p \in Producers, NEW v \in Items, Offer(p, v) PROVE IInv'
  BY <1>1, OfferStep
<1>2. ASSUME NEW p \in Producers, Produce(p) PROVE IInv'
  BY <1>2, ReserveSlotStep, ProducerLockStep, LoadRearStep, StoreStep,
     ProducerUnlockStep, PostItemStep DEF Produce
<1>3. ASSUME NEW c \in Consumers, Consume(c) PROVE IInv'
  BY <1>3, ClaimItemStep, ConsumerLockStep, LoadFrontStep, FetchStep,
     ConsumerUnlockStep, PostSlotStep, FinishStep DEF Consume
<1>4. CASE Quiet \/ UNCHANGED vars
  <2>1. UNCHANGED vars
    BY <1>4 DEF Quiet
  <2> QED BY <2>1 DEF vars, IInv, Types, Labels, Accounting, MutexInv, SlotsInv,
        ItemsInv, RearBound, Registers, Count, InBuffer, Reserved, Posting,
        Claimed, Releasing, Storing
<1> QED BY <1>1, <1>2, <1>3, <1>4 DEF Next

(* The inductive invariant holds throughout.                               *)
THEOREM Invariance == ASSUME NoWrap PROVE Spec => []IInv
BY InitIInv, IInvStep, PTL DEF Spec

(* The bookkeeping of mutex, slots and items against the counters of the   *)
(* array is exact in every reachable state of sbuf.c's callers.            *)
THEOREM AccountingHolds == ASSUME NoWrap PROVE Spec => []Accounting
<1>1. IInv => Accounting
  BY DEF IInv
<1> QED BY Invariance, <1>1, PTL

(* No increment of front or rear is ever lost.                             *)
THEOREM NoLostIncrementHolds == ASSUME NoWrap PROVE Spec => []NoLostIncrement
<1>1. ASSUME IInv PROVE NoLostIncrement
  BY <1>1, NextCounter DEF IInv, Registers, NoLostIncrement
<1> QED BY Invariance, <1>1, PTL

(* The variables stay in their types: the semaphores never exceed 1 and n, *)
(* and the counters never leave the range of an int.                       *)
THEOREM TypeCorrect == ASSUME NoWrap PROVE Spec => []TypeOK
<1>1. ASSUME IInv PROVE TypeOK
  <2>1. mutex \in 0 .. 1 /\ slots \in 0 .. N /\ items \in 0 .. N
    BY <1>1, Groups, ConstAssumption
    DEF IInv, Types, Accounting, MutexInv, SlotsInv, ItemsInv
  <2>2. front <= rear /\ rear <= IntMax
    BY <1>1, Groups, ConstAssumption
    DEF IInv, Types, Accounting, ItemsInv, RearBound, NoWrap
  <2>3. /\ front \in -IntMax - 1 .. IntMax
        /\ rear \in -IntMax - 1 .. IntMax
    BY <1>1, <2>2, ConstAssumption DEF IInv, Types
  <2>4. idx \in [Threads -> -IntMax - 1 .. IntMax]
    BY <1>1, ConstAssumption DEF IInv, Types
  <2> QED BY <1>1, <2>1, <2>3, <2>4 DEF IInv, Types, TypeOK
<1> QED BY Invariance, <1>1, PTL

-----------------------------------------------------------------------------
(* The refinement of BoundedFifo.  What the mapping needs besides IInv: an *)
(* inserter holds an item until it has stored it, a remover one from when  *)
(* it fetched it, and every cell of the window between the counters holds  *)
(* an item.                                                                *)
Holding ==
    /\ \A p \in Producers :
            pc[p] \in {"P_slots", "P_mutex", "load", "access"} =>
                item[p] \in Items
    /\ \A c \in Consumers :
            IF pc[c] \in {"V_mutex", "post", "busy"}
            THEN item[c] \in Items ELSE item[c] = NoItem

Window == \A k \in front + 1 .. rear : buf[k % N] \in Items

RInv == IInv /\ Holding /\ Window

(* Two numbers less than N apart name different cells.                     *)
LEMMA DistinctCells ==
    ASSUME NEW x \in Nat, NEW y \in Nat, x < y, y - x < N
    PROVE  x % N # y % N
<1> SUFFICES ASSUME x % N = y % N PROVE FALSE
  OBVIOUS
<1>1. N \in Nat /\ N > 0
  BY ConstAssumption
<1> DEFINE a == x \div N
           b == y \div N
<1>2. a \in Int /\ x = a * N + (x % N)
  BY <1>1
<1>3. b \in Int /\ y = b * N + (y % N)
  BY <1>1
<1> HIDE DEF a, b
<1>4. y - x = (b - a) * N
  <2>1. x % N \in Int /\ y % N \in Int
    BY <1>1
  <2> QED BY <1>1, <1>2, <1>3, <2>1
<1>5. PICK d \in Int : d = b - a
  BY <1>2, <1>3
<1>6. 0 < d * N /\ d * N < N
  BY <1>4, <1>5
<1>7. CASE d <= 0
  BY <1>1, <1>6, <1>7
<1>8. CASE d >= 1
  BY <1>1, <1>6, <1>8
<1> QED BY <1>5, <1>7, <1>8

(* The window never exceeds the array, and has room when an inserter that  *)
(* reserved a slot is about to store.                                      *)
LEMMA WindowBounds ==
    ASSUME IInv
    PROVE  /\ rear - front \in 0 .. N
           /\ \A p \in Producers : pc[p] = "access" => rear - front < N
           /\ \A c \in Consumers : pc[c] = "access" => rear - front > 0
<1>1. rear - front \in 0 .. N
  BY Groups, ConstAssumption
  DEF IInv, Types, Accounting, SlotsInv, ItemsInv
<1>2. ASSUME NEW p \in Producers, pc[p] = "access" PROVE rear - front < N
  <2>1. Reserved \in Nat /\ Reserved > 0
    BY <1>2, CountType DEF Reserved, Threads
  <2> QED BY <2>1, Groups, ConstAssumption
          DEF IInv, Types, Accounting, SlotsInv
<1>3. ASSUME NEW c \in Consumers, pc[c] = "access" PROVE rear - front > 0
  <2>1. Claimed \in Nat /\ Claimed > 0
    BY <1>3, CountType DEF Claimed, Threads
  <2> QED BY <2>1, Groups, ConstAssumption
          DEF IInv, Types, Accounting, ItemsInv
<1> QED BY <1>1, <1>2, <1>3

(* The queue of the mapping, as a sequence.                                *)
LEMMA QueueIs ==
    ASSUME IInv
    PROVE  /\ Queue = [i \in 1 .. rear - front |-> buf[(front + i) % N]]
           /\ Len(Queue) = rear - front
           /\ DOMAIN Queue = 1 .. rear - front
<1>1. \A i \in 1 .. rear - front : CRem(front + i) = (front + i) % N
  BY DEF IInv, Types, CRem
<1>2. rear - front \in Nat
  BY WindowBounds, ConstAssumption
<1> QED BY <1>1, <1>2 DEF Queue

LEMMA QueueInSeq == ASSUME IInv PROVE Queue \in Seq(Items \cup {NoItem})
<1>1. rear - front \in Nat
  BY WindowBounds, ConstAssumption
<1>2. \A i \in 1 .. rear - front :
        buf[(front + i) % N] \in Items \cup {NoItem}
  <2> TAKE i \in 1 .. rear - front
  <2>1. (front + i) % N \in Cells
    BY ConstAssumption DEF Cells, IInv, Types
  <2> QED BY <2>1 DEF IInv, Types
<1> QED BY <1>1, <1>2, QueueIs

LEMMA InitRInv == Init => RInv
BY InitIInv, ConstAssumption DEF Init, RInv, Holding, Window, Threads

(* Storing overwrites no cell of the window; fetching empties its first.   *)
LEMMA WindowStep == ASSUME NoWrap, RInv, [Next]_vars PROVE Window'
<1> USE DEF RInv
<1>1. ASSUME NEW p \in Producers, Store(p) PROVE Window'
  <2>1. idx[p] = rear + 1 /\ CRem(idx[p]) = (rear + 1) % N
    BY <1>1 DEF IInv, Types, Registers, Store, CRem
  <2>2. item[p] \in Items
    BY <1>1 DEF Store, Holding
  <2>3. rear - front < N /\ front \in Nat /\ rear \in Nat /\ N \in Nat
    BY <1>1, WindowBounds, ConstAssumption DEF Store, IInv, Types
  <2>4. (rear + 1) % N \in Cells
    BY <2>3, ConstAssumption DEF Cells
  <2>5. buf' = [buf EXCEPT ![(rear + 1) % N] = item[p]] /\ rear' = rear + 1
        /\ front' = front
    BY <1>1, <2>1 DEF Store
  <2>6. ASSUME NEW k \in front + 1 .. rear + 1 PROVE buf'[k % N] \in Items
    <3>1. CASE k = rear + 1
      BY <2>2, <2>4, <2>5, <3>1 DEF IInv, Types
    <3>2. CASE k # rear + 1
      <4> DEFINE y == rear + 1
      <4>1. k \in Nat /\ k \in front + 1 .. rear
            /\ y \in Nat /\ k < y /\ y - k < N
        BY <2>3, <2>6, <3>2
      <4>2. k % N # y % N
        <5> HIDE DEF y
        <5> QED BY <4>1, DistinctCells
      <4>3. k % N \in Cells
        BY <4>1, ConstAssumption DEF Cells
      <4>4. buf[k % N] \in Items
        BY <4>1 DEF Window
      <4> QED BY <2>5, <4>2, <4>3, <4>4 DEF IInv, Types
    <3> QED BY <3>1, <3>2
  <2> QED BY <2>5, <2>6 DEF Window
<1>2. ASSUME NEW c \in Consumers, Fetch(c) PROVE Window'
  <2>1. front' = front + 1 /\ rear' = rear /\ buf' = buf
        /\ front \in Nat /\ rear \in Nat
    BY <1>2 DEF Fetch, IInv, Types, Registers
  <2> QED BY <2>1 DEF Window
<1>3. CASE UNCHANGED <<buf, front, rear>>
  BY <1>3 DEF Window
<1> QED BY <1>1, <1>2, <1>3
        DEF Next, Produce, Consume, Offer, ReserveSlot, ClaimItem, LockBuffer,
            LoadRear, LoadFront, UnlockBuffer, PostItem, PostSlot, Finish,
            Quiet, vars

LEMMA HoldingStep == ASSUME NoWrap, RInv, [Next]_vars PROVE Holding'
<1> USE DEF RInv, IInv, Types
<1> USE ConstAssumption
<1>1. ASSUME NEW p \in Producers, NEW v \in Items, Offer(p, v) PROVE Holding'
  BY <1>1 DEF Offer, Goto, Holding, Threads
<1>2. ASSUME NEW p \in Producers, Produce(p) PROVE Holding'
  BY <1>2 DEF Produce, ReserveSlot, LockBuffer, LoadRear, Store, UnlockBuffer,
     PostItem, Goto, Holding, Threads
<1>3. ASSUME NEW c \in Consumers, Fetch(c) PROVE Holding'
  <2>1. buf[CRem(idx[c])] \in Items
    <3>1. idx[c] = front + 1 /\ CRem(idx[c]) = (front + 1) % N
      BY <1>3 DEF Registers, Fetch, CRem
    <3>2. front + 1 \in front + 1 .. rear
      BY <1>3, WindowBounds DEF Fetch
    <3> QED BY <3>1, <3>2 DEF Window
  <2> QED BY <1>3, <2>1 DEF Fetch, Goto, Holding, Threads
<1>4. ASSUME NEW c \in Consumers, Consume(c), ~Fetch(c) PROVE Holding'
  BY <1>4 DEF Consume, ClaimItem, LockBuffer, LoadFront, UnlockBuffer,
     PostSlot, Finish, Goto, Holding, Threads
<1>5. CASE Quiet \/ UNCHANGED vars
  BY <1>5 DEF Quiet, vars, Holding
<1> QED BY <1>1, <1>2, <1>3, <1>4, <1>5 DEF Next

LEMMA RInvStep == ASSUME NoWrap, RInv, [Next]_vars PROVE RInv'
BY IInvStep, WindowStep, HoldingStep DEF RInv

LEMMA InitFifo == Init => Fifo!FifoInit
<1> SUFFICES ASSUME Init PROVE Fifo!FifoInit
  OBVIOUS
<1>1. Queue = << >>
  <2>1. 1 .. rear - front = {}
    BY DEF Init
  <2> QED BY <2>1 DEF Queue
<1>2. Offered = [p \in Producers |-> NoItem]
  BY DEF Init, Offered, Threads
<1>3. Taken = [c \in Consumers |-> NoItem]
  BY DEF Init, Taken, Threads
<1> QED BY <1>1, <1>2, <1>3 DEF Fifo!FifoInit

(* A step that moves neither counter nor the window leaves the queue alone. *)
LEMMA QueueSame ==
    ASSUME UNCHANGED <<buf, front, rear>> PROVE Queue' = Queue
BY DEF Queue

(* The store is where an item enters the queue: Put.                       *)
LEMMA StoreIsPut ==
    ASSUME NoWrap, RInv, NEW p \in Producers, Store(p)
    PROVE  Fifo!Put(p)
<1> USE DEF RInv
<1>0. p \in Threads /\ p \notin Consumers
  BY ConstAssumption DEF Threads
<1>1. idx[p] = rear + 1 /\ CRem(idx[p]) = (rear + 1) % N /\ item[p] \in Items
  BY DEF IInv, Types, Registers, Store, CRem, Holding
<1>2. front \in Nat /\ rear \in Nat /\ N \in Nat \ {0}
      /\ rear - front \in Nat /\ rear - front < N
  BY WindowBounds, ConstAssumption DEF IInv, Types, Store
<1>3. front' = front /\ rear' = rear + 1
      /\ buf' = [buf EXCEPT ![(rear + 1) % N] = item[p]]
  BY <1>1 DEF Store
<1>4. Offered[p] = item[p] /\ Offered[p] # NoItem
  BY <1>1, ConstAssumption DEF Offered, Store
<1>5. Len(Queue) < N
  BY <1>2, QueueIs
<1>6. Queue' = Append(Queue, Offered[p])
  <2>2. Queue' = [i \in 1 .. rear' - front' |-> buf'[(front' + i) % N]]
    <3>1. \A i \in 1 .. rear' - front' :
             CRem(front' + i) = (front' + i) % N
      BY <1>2, <1>3 DEF CRem
    <3> QED BY <3>1 DEF Queue
  <2>3. rear' - front' = (rear - front) + 1
    BY <1>2, <1>3
  <2>4. (rear + 1) % N \in Cells
    BY <1>2 DEF Cells
  <2>5. ASSUME NEW i \in 1 .. (rear - front) + 1
        PROVE  buf'[(front' + i) % N] =
                 IF i = (rear - front) + 1 THEN Offered[p]
                 ELSE buf[(front + i) % N]
    <3>1. CASE i = (rear - front) + 1
      <4>1. front + i = rear + 1
        BY <1>2, <3>1
      <4> QED BY <1>3, <1>4, <2>4, <3>1, <4>1 DEF IInv, Types
    <3>2. CASE i # (rear - front) + 1
      <4> DEFINE x == front + i
                 y == rear + 1
      <4>1. x \in Nat /\ y \in Nat /\ x < y /\ y - x < N
        BY <1>2, <2>5, <3>2
      <4>2. x % N # y % N
        <5> HIDE DEF x, y
        <5> QED BY <4>1, DistinctCells
      <4> QED BY <1>3, <3>2, <4>2 DEF IInv, Types
    <3> QED BY <3>1, <3>2
  <2>6. Queue' = [i \in 1 .. (rear - front) + 1 |->
                    IF i = (rear - front) + 1 THEN Offered[p]
                    ELSE buf[(front + i) % N]]
    BY <2>2, <2>3, <2>5
  <2>7. Append(Queue, Offered[p]) =
          [i \in 1 .. (rear - front) + 1 |->
             IF i = (rear - front) + 1 THEN Offered[p]
             ELSE buf[(front + i) % N]]
    BY <1>2, QueueIs
  <2> QED BY <2>6, <2>7
<1>7. Offered' = [Offered EXCEPT ![p] = NoItem]
  BY <1>0 DEF Offered, Store, Goto, IInv, Types, Threads
<1>8. Taken' = Taken
  BY DEF Taken, Store
<1> QED BY <1>4, <1>5, <1>6, <1>7, <1>8 DEF Fifo!Put

(* The fetch is where the oldest item leaves it: Take.                     *)
LEMMA FetchIsTake ==
    ASSUME NoWrap, RInv, NEW c \in Consumers, Fetch(c)
    PROVE  Fifo!Take(c)
<1> USE DEF RInv
<1>0. c \in Threads /\ c \notin Producers
  BY ConstAssumption DEF Threads
<1>1. idx[c] = front + 1 /\ CRem(idx[c]) = (front + 1) % N
  BY DEF IInv, Types, Registers, Fetch, CRem
<1>2. front \in Nat /\ rear \in Nat /\ rear - front \in Nat /\ rear - front > 0
  BY WindowBounds, ConstAssumption DEF IInv, Types, Fetch
<1>3. front' = front + 1 /\ rear' = rear /\ buf' = buf
  BY <1>1 DEF Fetch
<1>4. Taken[c] = NoItem
  BY DEF Fetch, Holding, Taken
<1>5. Queue # << >> /\ Head(Queue) = buf[(front + 1) % N]
  BY <1>2, QueueIs
<1>6. Queue' = Tail(Queue)
  <2>2. Queue' = [i \in 1 .. rear' - front' |-> buf'[(front' + i) % N]]
    <3>1. \A i \in 1 .. rear' - front' :
             CRem(front' + i) = (front' + i) % N
      BY <1>2, <1>3 DEF CRem
    <3> QED BY <3>1 DEF Queue
  <2>3. rear' - front' = (rear - front) - 1
    BY <1>2, <1>3
  <2>4. \A i \in 1 .. (rear - front) - 1 :
            buf'[(front' + i) % N] = buf[(front + (i + 1)) % N]
    <3> TAKE i \in 1 .. (rear - front) - 1
    <3>1. front' + i = front + (i + 1)
      BY <1>2, <1>3
    <3> QED BY <1>3, <3>1
  <2>5. Queue' = [i \in 1 .. (rear - front) - 1 |->
                    buf[(front + (i + 1)) % N]]
    BY <2>2, <2>3, <2>4
  <2>6. Tail(Queue) = [i \in 1 .. (rear - front) - 1 |->
                         buf[(front + (i + 1)) % N]]
    <3>1. Len(Queue) = rear - front
          /\ \A i \in 1 .. (rear - front) - 1 :
                Queue[i + 1] = buf[(front + (i + 1)) % N]
      BY <1>2, QueueIs
    <3>2. Tail(Queue) = [i \in 1 .. (rear - front) - 1 |-> Queue[i + 1]]
      <4>1. Queue \in Seq(Items \cup {NoItem}) /\ Queue # << >>
        BY <1>2, <1>5, QueueInSeq
      <4>2. /\ Tail(Queue) \in Seq(Items \cup {NoItem})
            /\ Len(Tail(Queue)) = (rear - front) - 1
            /\ \A i \in 1 .. Len(Tail(Queue)) : Tail(Queue)[i] = Queue[i + 1]
        BY <3>1, <4>1, HeadTailProperties
      <4>3. Tail(Queue) \in [1 .. Len(Tail(Queue)) -> Items \cup {NoItem}]
        BY <4>2, LenProperties
      <4> QED BY <4>2, <4>3
    <3> QED BY <3>1, <3>2
  <2> QED BY <2>5, <2>6
<1>7. Taken' = [Taken EXCEPT ![c] = Head(Queue)]
  BY <1>0, <1>1, <1>5 DEF Taken, Fetch, IInv, Types, Threads
<1>8. Offered' = Offered
  BY <1>0 DEF Offered, Fetch, Goto, IInv, Types, Threads
<1> QED BY <1>4, <1>5, <1>6, <1>7, <1>8 DEF Fifo!Take

(* Every other step of the semaphores is invisible in the queue.           *)
LEMMA FifoStep ==
    ASSUME NoWrap, RInv, [Next]_vars
    PROVE  [Fifo!FifoNext]_(Fifo!fifoVars)
<1> USE DEF RInv, IInv, Types, Fifo!fifoVars
<1> USE ConstAssumption
<1>1. ASSUME NEW p \in Producers, NEW v \in Items, Offer(p, v)
      PROVE  Fifo!Offer(p, v)
  <2>1. Queue' = Queue /\ Taken' = Taken
    BY <1>1, QueueSame DEF Offer, Taken, Threads
  <2>2. Offered[p] = NoItem
    BY <1>1 DEF Offer, Offered
  <2>3. Offered' = [Offered EXCEPT ![p] = v]
    BY <1>1 DEF Offer, Offered, Goto, Threads
  <2> QED BY <2>1, <2>2, <2>3 DEF Fifo!Offer
<1>2. ASSUME NEW p \in Producers, Produce(p), ~Store(p)
      PROVE  UNCHANGED Fifo!fifoVars
  <2>1. Queue' = Queue /\ Taken' = Taken
    BY <1>2, QueueSame DEF Produce, ReserveSlot, LockBuffer, LoadRear,
       UnlockBuffer, PostItem, Taken
  <2>2. Offered' = Offered
    BY <1>2 DEF Produce, ReserveSlot, LockBuffer, LoadRear, UnlockBuffer,
       PostItem, Offered, Goto, Threads, Labels
  <2> QED BY <2>1, <2>2
<1>3. ASSUME NEW c \in Consumers, Consume(c), ~Fetch(c), ~Finish(c)
      PROVE  UNCHANGED Fifo!fifoVars
  <2>1. Queue' = Queue /\ Taken' = Taken
    BY <1>3, QueueSame DEF Consume, ClaimItem, LockBuffer, LoadFront,
       UnlockBuffer, PostSlot, Taken
  <2>2. Offered' = Offered
    BY <1>3 DEF Consume, ClaimItem, LockBuffer, LoadFront, UnlockBuffer,
       PostSlot, Offered, Goto, Threads
  <2> QED BY <2>1, <2>2
<1>4. ASSUME NEW c \in Consumers, Finish(c) PROVE Fifo!Finish(c)
  <2>1. Queue' = Queue
    BY <1>4, QueueSame DEF Finish
  <2>2. Offered' = Offered
    BY <1>4 DEF Finish, Offered, Goto, Threads
  <2>3. Taken[c] # NoItem /\ Taken' = [Taken EXCEPT ![c] = NoItem]
    BY <1>4 DEF Finish, Taken, Threads, Holding
  <2> QED BY <2>1, <2>2, <2>3 DEF Fifo!Finish
<1>5. CASE Quiet \/ UNCHANGED vars
  BY <1>5 DEF Quiet, vars, Queue, Offered, Taken
<1> QED BY <1>1, <1>2, <1>3, <1>4, <1>5, StoreIsPut, FetchIsTake
        DEF Next, Fifo!FifoNext

(* sbuf.c implements the bounded FIFO queue, for any number of inserting   *)
(* and removing threads and any capacity.                                  *)
THEOREM ImplementsFifo == ASSUME NoWrap PROVE Spec => FifoSpec
<1>1. Spec => []RInv
  BY InitRInv, RInvStep, PTL DEF Spec
<1>2. RInv /\ [Next]_vars => [Fifo!FifoNext]_(Fifo!fifoVars)
  BY FifoStep
<1> QED BY <1>1, <1>2, InitFifo, PTL DEF Spec, FifoSpec, Fifo!FifoSpec

=============================================================================
