-------------------------- MODULE CacheLock_proofs --------------------------
(***************************************************************************)
(* Theorems about CacheLock for every finite set of threads.               *)
(***************************************************************************)
EXTENDS CacheLock, Counting, FiniteSetTheorems, TLAPS

Types ==
    /\ mutex \in Nat /\ w \in Nat /\ readcnt \in Nat
    /\ pc \in [Threads -> PC]
    /\ reg \in [Threads -> Nat]

(* What a thread that holds mutex knows of readcnt.                        *)
Known ==
    \A t \in Threads :
        /\ pc[t] \in {"store1", "store2"} => reg[t] = readcnt
        /\ pc[t] = "P_w" => readcnt = 1
        /\ pc[t] = "V_w" => readcnt = 0

IInv == Types /\ Known /\ LockInv

-----------------------------------------------------------------------------
LEMMA CountIs ==
    ASSUME NEW L
    PROVE  /\ Count(L) = CountAt(pc, Threads, L)
           /\ Count(L)' = CountAt(pc', Threads, L)
BY DEF Count, CountAt

LEMMA CountNat ==
    ASSUME NEW L
    PROVE  /\ Count(L) \in Nat
           /\ Count(L) = 0 <=> \A t \in Threads : pc[t] \notin L
BY CountIs, CountAtType, ThreadsAssumption

LEMMA CountMove ==
    ASSUME pc \in [Threads -> PC], NEW t \in Threads, NEW l, Goto(t, l), NEW L
    PROVE  Count(L)' = Count(L) - Adds(pc[t], L) + Adds(l, L)
<1>1. \A u \in Threads : pc'[u] = IF u = t THEN l ELSE pc[u]
  BY DEF Goto
<1>2. OnlyAt(t, Threads, pc, pc')
  BY <1>1 DEF OnlyAt
<1>3. CountAt(pc', Threads, L) =
        CountAt(pc, Threads, L) - Adds(pc[t], L) + Adds(pc'[t], L)
  BY <1>2, CountAtMove, ThreadsAssumption
<1> QED BY <1>1, <1>3, CountIs

(* The effect of a move on the three groups the accounting mentions.       *)
LEMMA Moves ==
    ASSUME Types, NEW t \in Threads, NEW l, Goto(t, l)
    PROVE  /\ Count(Locked)' = Count(Locked) - Adds(pc[t], Locked) + Adds(l, Locked)
           /\ Count(Counted)' =
                Count(Counted) - Adds(pc[t], Counted) + Adds(l, Counted)
           /\ Count(Editing)' =
                Count(Editing) - Adds(pc[t], Editing) + Adds(l, Editing)
BY CountMove DEF Types

LEMMA Groups ==
    Count(Locked) \in Nat /\ Count(Counted) \in Nat /\ Count(Editing) \in Nat
BY CountNat

(* Whoever is between P(&mutex) and V(&mutex) is there alone.              *)
LEMMA Alone ==
    ASSUME Types, MutexInv, NEW t \in Threads, pc[t] \in Locked
    PROVE  \A u \in Threads : pc[u] \in Locked => u = t
<1>1. CountAt(pc, Threads, Locked) <= 1
  BY CountIs, Groups DEF Types, MutexInv
<1> QED BY <1>1, CountAtOne, ThreadsAssumption

(* If readcnt counts somebody beside the thread that holds mutex, that     *)
(* other reader is inside, and the readers hold w.                         *)
LEMMA OtherReader ==
    ASSUME IInv, NEW t \in Threads, pc[t] \in Locked \cap Counted, readcnt > 1
    PROVE  \E u \in Threads : u # t /\ pc[u] \in {"read", "P_mutex2"}
<1>1. CountAt(pc, Threads, Counted) > 1
  BY CountIs DEF IInv, LockInv, CountExact
<1>2. PICK u \in Threads : u # t /\ pc[u] \in Counted
  BY <1>1, CountAtOther, ThreadsAssumption
<1>3. pc[u] \notin Locked
  BY <1>2, Alone DEF IInv, LockInv
<1> QED BY <1>2, <1>3 DEF Locked, Counted

(* If readcnt counts one reader only, it is the one that holds mutex.      *)
LEMMA NoOtherReader ==
    ASSUME IInv, NEW t \in Threads, pc[t] \in Counted, readcnt = 1
    PROVE  \A u \in Threads : pc[u] \in Counted => u = t
<1>1. CountAt(pc, Threads, Counted) = 1
  BY CountIs DEF IInv, LockInv, CountExact
<1>2. CountAt(pc, Threads, Counted) <= 1
  BY <1>1
<1> QED BY <1>2, CountAtOne, ThreadsAssumption

-----------------------------------------------------------------------------
LEMMA InitIInv == Init => IInv
<1> SUFFICES ASSUME Init PROVE IInv
  OBVIOUS
<1> USE DEF Init, InitialReadcnt, InitialW
<1>1. Types /\ Known
  BY DEF Types, Known, PC
<1>2. Count(Locked) = 0 /\ Count(Counted) = 0 /\ Count(Editing) = 0
  BY CountNat DEF Locked, Counted, Editing
<1>3. ~ReadersHoldW
  BY DEF ReadersHoldW, Covered
<1> QED BY <1>1, <1>2, <1>3
        DEF IInv, LockInv, MutexInv, WInv, CountExact

LEMMA CallFindStep ==
    ASSUME IInv, NEW t \in Threads, CallFind(t)
    PROVE  IInv'
<1>1. Types /\ Known /\ MutexInv /\ WInv /\ CountExact
  BY DEF IInv, LockInv
<1>2. pc[t] = "rest" /\ Goto(t, "P_mutex1")
  BY <1>1 DEF CallFind
<1>3. /\ Count(Locked)' = Count(Locked)
      /\ Count(Counted)' = Count(Counted)
      /\ Count(Editing)' = Count(Editing)
  BY <1>1, <1>2, Moves, Groups DEF Adds, Locked, Counted, Editing
<1>4. ReadersHoldW' = ReadersHoldW
  BY <1>1, <1>2 DEF ReadersHoldW, Covered, Goto, Types, CallFind
<1>5. Types' /\ Known'
  BY <1>1, <1>2 DEF Types, Known, CallFind, Goto, PC, Locked
<1>6. MutexInv' /\ WInv' /\ CountExact'
  BY <1>1, <1>2, <1>3, <1>4, Groups
  DEF Types, Known, MutexInv, WInv, CountExact, CallFind
<1> QED BY <1>5, <1>6 DEF IInv, LockInv

LEMMA LockInStep ==
    ASSUME IInv, NEW t \in Threads, Lock(t), pc[t] = "P_mutex1"
    PROVE  IInv'
<1>1. Types /\ Known /\ MutexInv /\ WInv /\ CountExact
  BY DEF IInv, LockInv
<1>2. pc[t] = "P_mutex1" /\ Goto(t, "load1")
  BY <1>1 DEF Lock
<1>3. /\ Count(Locked)' = Count(Locked) + 1
      /\ Count(Counted)' = Count(Counted)
      /\ Count(Editing)' = Count(Editing)
  BY <1>1, <1>2, Moves, Groups DEF Adds, Locked, Counted, Editing
<1>4. ReadersHoldW' = ReadersHoldW
  BY <1>1, <1>2 DEF ReadersHoldW, Covered, Goto, Types, Lock
<1>5. Types' /\ Known'
  BY <1>1, <1>2 DEF Types, Known, Lock, Goto, PC, Locked
<1>6. MutexInv' /\ WInv' /\ CountExact'
  BY <1>1, <1>2, <1>3, <1>4, Groups
  DEF Types, Known, MutexInv, WInv, CountExact, Lock
<1> QED BY <1>5, <1>6 DEF IInv, LockInv

LEMMA LockOutStep ==
    ASSUME IInv, NEW t \in Threads, Lock(t), pc[t] = "P_mutex2"
    PROVE  IInv'
<1>1. Types /\ Known /\ MutexInv /\ WInv /\ CountExact
  BY DEF IInv, LockInv
<1>2. pc[t] = "P_mutex2" /\ Goto(t, "load2")
  BY <1>1 DEF Lock
<1>3. /\ Count(Locked)' = Count(Locked) + 1
      /\ Count(Counted)' = Count(Counted)
      /\ Count(Editing)' = Count(Editing)
  BY <1>1, <1>2, Moves, Groups DEF Adds, Locked, Counted, Editing
<1>4. ReadersHoldW' = ReadersHoldW
  BY <1>1, <1>2 DEF ReadersHoldW, Covered, Goto, Types, Lock
<1>5. Types' /\ Known'
  BY <1>1, <1>2 DEF Types, Known, Lock, Goto, PC, Locked
<1>6. MutexInv' /\ WInv' /\ CountExact'
  BY <1>1, <1>2, <1>3, <1>4, Groups
  DEF Types, Known, MutexInv, WInv, CountExact, Lock
<1> QED BY <1>5, <1>6 DEF IInv, LockInv

LEMMA LoadInStep ==
    ASSUME IInv, NEW t \in Threads, LoadCount(t), pc[t] = "load1"
    PROVE  IInv'
<1>1. Types /\ Known /\ MutexInv /\ WInv /\ CountExact
  BY DEF IInv, LockInv
<1>2. pc[t] = "load1" /\ Goto(t, "store1")
  BY <1>1 DEF LoadCount
<1>3. /\ Count(Locked)' = Count(Locked)
      /\ Count(Counted)' = Count(Counted)
      /\ Count(Editing)' = Count(Editing)
  BY <1>1, <1>2, Moves, Groups DEF Adds, Locked, Counted, Editing
<1>4. ReadersHoldW' = ReadersHoldW
  BY <1>1, <1>2 DEF ReadersHoldW, Covered, Goto, Types, LoadCount
<1>5. Types' /\ Known'
  BY <1>1, <1>2 DEF Types, Known, LoadCount, Goto, PC, Locked
<1>6. MutexInv' /\ WInv' /\ CountExact'
  BY <1>1, <1>2, <1>3, <1>4, Groups
  DEF Types, Known, MutexInv, WInv, CountExact, LoadCount
<1> QED BY <1>5, <1>6 DEF IInv, LockInv

LEMMA LoadOutStep ==
    ASSUME IInv, NEW t \in Threads, LoadCount(t), pc[t] = "load2"
    PROVE  IInv'
<1>1. Types /\ Known /\ MutexInv /\ WInv /\ CountExact
  BY DEF IInv, LockInv
<1>2. pc[t] = "load2" /\ Goto(t, "store2")
  BY <1>1 DEF LoadCount
<1>3. /\ Count(Locked)' = Count(Locked)
      /\ Count(Counted)' = Count(Counted)
      /\ Count(Editing)' = Count(Editing)
  BY <1>1, <1>2, Moves, Groups DEF Adds, Locked, Counted, Editing
<1>4. ReadersHoldW' = ReadersHoldW
  BY <1>1, <1>2 DEF ReadersHoldW, Covered, Goto, Types, LoadCount
<1>5. Types' /\ Known'
  BY <1>1, <1>2 DEF Types, Known, LoadCount, Goto, PC, Locked
<1>6. MutexInv' /\ WInv' /\ CountExact'
  BY <1>1, <1>2, <1>3, <1>4, Groups
  DEF Types, Known, MutexInv, WInv, CountExact, LoadCount
<1> QED BY <1>5, <1>6 DEF IInv, LockInv

LEMMA StoreInStep ==
    ASSUME IInv, NEW t \in Threads, StoreCount(t), pc[t] = "store1"
    PROVE  IInv'
<1>1. Types /\ Known /\ MutexInv /\ WInv /\ CountExact
  BY DEF IInv, LockInv
<1>2. pc[t] = "store1" /\ Goto(t, "test1")
  BY <1>1 DEF StoreCount
<1>3. /\ Count(Locked)' = Count(Locked)
      /\ Count(Counted)' = Count(Counted) + 1
      /\ Count(Editing)' = Count(Editing)
  BY <1>1, <1>2, Moves, Groups DEF Adds, Locked, Counted, Editing
<1>4. ReadersHoldW' = ReadersHoldW
  <2>1. readcnt' = readcnt + 1
    BY <1>1, <1>2 DEF StoreCount, Known
  <2>2. \A u \in Threads : pc[u] # "test2"
    BY <1>1, <1>2, Alone DEF Locked
  <2> QED BY <1>1, <1>2, <2>1, <2>2 DEF ReadersHoldW, Covered, Goto, Types
<1>5. Types' /\ Known'
  BY <1>1, <1>2, Alone DEF Types, Known, StoreCount, Goto, PC, Locked
<1>6. MutexInv' /\ WInv' /\ CountExact'
  BY <1>1, <1>2, <1>3, <1>4, Groups
  DEF Types, Known, MutexInv, WInv, CountExact, StoreCount
<1> QED BY <1>5, <1>6 DEF IInv, LockInv

LEMMA StoreOutStep ==
    ASSUME IInv, NEW t \in Threads, StoreCount(t), pc[t] = "store2"
    PROVE  IInv'
<1>1. Types /\ Known /\ MutexInv /\ WInv /\ CountExact
  BY DEF IInv, LockInv
<1>2. pc[t] = "store2" /\ Goto(t, "test2")
  BY <1>1 DEF StoreCount
<1>3. /\ Count(Locked)' = Count(Locked)
      /\ Count(Counted)' = Count(Counted) - 1
      /\ Count(Editing)' = Count(Editing)
  BY <1>1, <1>2, Moves, Groups DEF Adds, Locked, Counted, Editing
<1>7. readcnt' = readcnt - 1 /\ readcnt > 0
  BY <1>1, <1>2, Groups, CountNat DEF StoreCount, Known, CountExact, Counted, Types
<1>4. ReadersHoldW /\ ReadersHoldW'
  <2>1. ReadersHoldW
    BY <1>2 DEF ReadersHoldW, Covered
  <2>2. CASE readcnt = 1
    BY <1>1, <1>2, <1>7, <2>1, <2>2 DEF ReadersHoldW, Goto, Types
  <2>3. CASE readcnt > 1
    <3>1. PICK u \in Threads : u # t /\ pc[u] \in {"read", "P_mutex2"}
      BY <1>2, <2>3, OtherReader DEF Locked, Counted
    <3>2. pc'[u] \in Covered
      BY <1>1, <1>2, <3>1 DEF Goto, Types, Covered
    <3> QED BY <2>1, <3>2 DEF ReadersHoldW
  <2> QED BY <1>1, <1>7, <2>1, <2>2, <2>3 DEF Types
<1>5. Types' /\ Known'
  BY <1>1, <1>2, Alone, <1>7 DEF Types, Known, StoreCount, Goto, PC, Locked
<1>6. MutexInv' /\ WInv' /\ CountExact'
  BY <1>1, <1>2, <1>3, <1>4, Groups
  DEF Types, Known, MutexInv, WInv, CountExact, StoreCount
<1> QED BY <1>5, <1>6 DEF IInv, LockInv

LEMMA TestInFirstStep ==
    ASSUME IInv, NEW t \in Threads, TestIn(t),
           readcnt = 1
    PROVE  IInv'
<1>1. Types /\ Known /\ MutexInv /\ WInv /\ CountExact
  BY DEF IInv, LockInv
<1>2. pc[t] = "test1" /\ Goto(t, "P_w")
  BY <1>1 DEF TestIn
<1>3. /\ Count(Locked)' = Count(Locked)
      /\ Count(Counted)' = Count(Counted)
      /\ Count(Editing)' = Count(Editing)
  BY <1>1, <1>2, Moves, Groups DEF Adds, Locked, Counted, Editing
<1>4. ReadersHoldW' = ReadersHoldW
  BY <1>1, <1>2 DEF ReadersHoldW, Covered, Goto, Types, TestIn
<1>5. Types' /\ Known'
  BY <1>1, <1>2 DEF Types, Known, TestIn, Goto, PC, Locked
<1>6. MutexInv' /\ WInv' /\ CountExact'
  BY <1>1, <1>2, <1>3, <1>4, Groups
  DEF Types, Known, MutexInv, WInv, CountExact, TestIn
<1> QED BY <1>5, <1>6 DEF IInv, LockInv

LEMMA TestInLaterStep ==
    ASSUME IInv, NEW t \in Threads, TestIn(t),
           readcnt # 1
    PROVE  IInv'
<1>1. Types /\ Known /\ MutexInv /\ WInv /\ CountExact
  BY DEF IInv, LockInv
<1>2. pc[t] = "test1" /\ Goto(t, "V_mutex1")
  BY <1>1 DEF TestIn
<1>3. /\ Count(Locked)' = Count(Locked)
      /\ Count(Counted)' = Count(Counted)
      /\ Count(Editing)' = Count(Editing)
  BY <1>1, <1>2, Moves, Groups DEF Adds, Locked, Counted, Editing
<1>4. ReadersHoldW /\ ReadersHoldW'
  <2>1. readcnt > 1
    BY <1>1, <1>2, Groups, CountNat DEF CountExact, Counted, Types
  <2>2. PICK u \in Threads : u # t /\ pc[u] \in {"read", "P_mutex2"}
    BY <1>2, <2>1, OtherReader DEF Locked, Counted
  <2>3. pc'[u] \in Covered /\ pc[u] \in Covered
    BY <1>1, <1>2, <2>2 DEF Goto, Types, Covered
  <2> QED BY <2>3 DEF ReadersHoldW
<1>5. Types' /\ Known'
  BY <1>1, <1>2 DEF Types, Known, TestIn, Goto, PC, Locked
<1>6. MutexInv' /\ WInv' /\ CountExact'
  BY <1>1, <1>2, <1>3, <1>4, Groups
  DEF Types, Known, MutexInv, WInv, CountExact, TestIn
<1> QED BY <1>5, <1>6 DEF IInv, LockInv

LEMMA LockWStep ==
    ASSUME IInv, NEW t \in Threads, LockW(t)
    PROVE  IInv'
<1>1. Types /\ Known /\ MutexInv /\ WInv /\ CountExact
  BY DEF IInv, LockInv
<1>2. pc[t] = "P_w" /\ Goto(t, "V_mutex1")
  BY <1>1 DEF LockW
<1>3. /\ Count(Locked)' = Count(Locked)
      /\ Count(Counted)' = Count(Counted)
      /\ Count(Editing)' = Count(Editing)
  BY <1>1, <1>2, Moves, Groups DEF Adds, Locked, Counted, Editing
<1>4. ~ReadersHoldW /\ ReadersHoldW'
  <2>1. readcnt = 1
    BY <1>1, <1>2 DEF Known
  <2>2. \A u \in Threads : pc[u] \in Counted => u = t
    BY <1>2, <2>1, NoOtherReader DEF Counted
  <2>3. \A u \in Threads : pc[u] # "V_w"
    BY <1>1, <1>2, Alone DEF Locked
  <2>4. ~ReadersHoldW
    BY <1>2, <2>1, <2>2, <2>3 DEF ReadersHoldW, Covered, Counted
  <2>5. pc'[t] \in Covered
    BY <1>1, <1>2 DEF Goto, Types, Covered
  <2> QED BY <2>4, <2>5 DEF ReadersHoldW
<1>5. Types' /\ Known'
  BY <1>1, <1>2 DEF Types, Known, LockW, Goto, PC, Locked
<1>6. MutexInv' /\ WInv' /\ CountExact'
  BY <1>1, <1>2, <1>3, <1>4, Groups
  DEF Types, Known, MutexInv, WInv, CountExact, LockW
<1> QED BY <1>5, <1>6 DEF IInv, LockInv

LEMMA TestOutLastStep ==
    ASSUME IInv, NEW t \in Threads, TestOut(t),
           readcnt = 0
    PROVE  IInv'
<1>1. Types /\ Known /\ MutexInv /\ WInv /\ CountExact
  BY DEF IInv, LockInv
<1>2. pc[t] = "test2" /\ Goto(t, "V_w")
  BY <1>1 DEF TestOut
<1>3. /\ Count(Locked)' = Count(Locked)
      /\ Count(Counted)' = Count(Counted)
      /\ Count(Editing)' = Count(Editing)
  BY <1>1, <1>2, Moves, Groups DEF Adds, Locked, Counted, Editing
<1>4. ReadersHoldW' = ReadersHoldW
  BY <1>1, <1>2 DEF ReadersHoldW, Covered, Goto, Types, TestOut
<1>5. Types' /\ Known'
  BY <1>1, <1>2 DEF Types, Known, TestOut, Goto, PC, Locked
<1>6. MutexInv' /\ WInv' /\ CountExact'
  BY <1>1, <1>2, <1>3, <1>4, Groups
  DEF Types, Known, MutexInv, WInv, CountExact, TestOut
<1> QED BY <1>5, <1>6 DEF IInv, LockInv

LEMMA TestOutEarlierStep ==
    ASSUME IInv, NEW t \in Threads, TestOut(t),
           readcnt # 0
    PROVE  IInv'
<1>1. Types /\ Known /\ MutexInv /\ WInv /\ CountExact
  BY DEF IInv, LockInv
<1>2. pc[t] = "test2" /\ Goto(t, "V_mutex2")
  BY <1>1 DEF TestOut
<1>3. /\ Count(Locked)' = Count(Locked)
      /\ Count(Counted)' = Count(Counted)
      /\ Count(Editing)' = Count(Editing)
  BY <1>1, <1>2, Moves, Groups DEF Adds, Locked, Counted, Editing
<1>4. ReadersHoldW' = ReadersHoldW
  BY <1>1, <1>2 DEF ReadersHoldW, Covered, Goto, Types, TestOut
<1>5. Types' /\ Known'
  BY <1>1, <1>2 DEF Types, Known, TestOut, Goto, PC, Locked
<1>6. MutexInv' /\ WInv' /\ CountExact'
  BY <1>1, <1>2, <1>3, <1>4, Groups
  DEF Types, Known, MutexInv, WInv, CountExact, TestOut
<1> QED BY <1>5, <1>6 DEF IInv, LockInv

LEMMA UnlockWStep ==
    ASSUME IInv, NEW t \in Threads, UnlockW(t)
    PROVE  IInv'
<1>1. Types /\ Known /\ MutexInv /\ WInv /\ CountExact
  BY DEF IInv, LockInv
<1>2. pc[t] = "V_w" /\ Goto(t, "V_mutex2")
  BY <1>1 DEF UnlockW
<1>3. /\ Count(Locked)' = Count(Locked)
      /\ Count(Counted)' = Count(Counted)
      /\ Count(Editing)' = Count(Editing)
  BY <1>1, <1>2, Moves, Groups DEF Adds, Locked, Counted, Editing
<1>4. ReadersHoldW /\ ~ReadersHoldW'
  <2>1. readcnt = 0 /\ readcnt' = 0
    BY <1>1, <1>2 DEF Known, UnlockW
  <2>2. \A u \in Threads : pc[u] \notin Counted
    BY <1>1, <2>1, CountNat DEF CountExact
  <2>3. \A u \in Threads : pc[u] \in Locked => u = t
    BY <1>1, <1>2, Alone DEF Locked
  <2>4. \A u \in Threads : pc'[u] \notin Covered \cup {"V_w", "test2"}
    BY <1>1, <1>2, <2>2, <2>3 DEF Goto, Types, Covered, Counted, Locked
  <2> QED BY <1>2, <2>4 DEF ReadersHoldW
<1>5. Types' /\ Known'
  BY <1>1, <1>2 DEF Types, Known, UnlockW, Goto, PC, Locked
<1>6. MutexInv' /\ WInv' /\ CountExact'
  BY <1>1, <1>2, <1>3, <1>4, Groups
  DEF Types, Known, MutexInv, WInv, CountExact, UnlockW
<1> QED BY <1>5, <1>6 DEF IInv, LockInv

LEMMA UnlockInStep ==
    ASSUME IInv, NEW t \in Threads, Unlock(t), pc[t] = "V_mutex1"
    PROVE  IInv'
<1>1. Types /\ Known /\ MutexInv /\ WInv /\ CountExact
  BY DEF IInv, LockInv
<1>2. pc[t] = "V_mutex1" /\ Goto(t, "read")
  BY <1>1 DEF Unlock
<1>3. /\ Count(Locked)' = Count(Locked) - 1
      /\ Count(Counted)' = Count(Counted)
      /\ Count(Editing)' = Count(Editing)
  BY <1>1, <1>2, Moves, Groups DEF Adds, Locked, Counted, Editing
<1>4. ReadersHoldW' = ReadersHoldW
  BY <1>1, <1>2 DEF ReadersHoldW, Covered, Goto, Types, Unlock
<1>5. Types' /\ Known'
  BY <1>1, <1>2 DEF Types, Known, Unlock, Goto, PC, Locked
<1>6. MutexInv' /\ WInv' /\ CountExact'
  BY <1>1, <1>2, <1>3, <1>4, Groups
  DEF Types, Known, MutexInv, WInv, CountExact, Unlock
<1> QED BY <1>5, <1>6 DEF IInv, LockInv

LEMMA UnlockOutStep ==
    ASSUME IInv, NEW t \in Threads, Unlock(t), pc[t] = "V_mutex2"
    PROVE  IInv'
<1>1. Types /\ Known /\ MutexInv /\ WInv /\ CountExact
  BY DEF IInv, LockInv
<1>2. pc[t] = "V_mutex2" /\ Goto(t, "rest")
  BY <1>1 DEF Unlock
<1>3. /\ Count(Locked)' = Count(Locked) - 1
      /\ Count(Counted)' = Count(Counted)
      /\ Count(Editing)' = Count(Editing)
  BY <1>1, <1>2, Moves, Groups DEF Adds, Locked, Counted, Editing
<1>4. ReadersHoldW' = ReadersHoldW
  BY <1>1, <1>2 DEF ReadersHoldW, Covered, Goto, Types, Unlock
<1>5. Types' /\ Known'
  BY <1>1, <1>2 DEF Types, Known, Unlock, Goto, PC, Locked
<1>6. MutexInv' /\ WInv' /\ CountExact'
  BY <1>1, <1>2, <1>3, <1>4, Groups
  DEF Types, Known, MutexInv, WInv, CountExact, Unlock
<1> QED BY <1>5, <1>6 DEF IInv, LockInv

LEMMA EndReadStep ==
    ASSUME IInv, NEW t \in Threads, EndRead(t)
    PROVE  IInv'
<1>1. Types /\ Known /\ MutexInv /\ WInv /\ CountExact
  BY DEF IInv, LockInv
<1>2. pc[t] = "read" /\ Goto(t, "P_mutex2")
  BY <1>1 DEF EndRead
<1>3. /\ Count(Locked)' = Count(Locked)
      /\ Count(Counted)' = Count(Counted)
      /\ Count(Editing)' = Count(Editing)
  BY <1>1, <1>2, Moves, Groups DEF Adds, Locked, Counted, Editing
<1>4. ReadersHoldW' = ReadersHoldW
  BY <1>1, <1>2 DEF ReadersHoldW, Covered, Goto, Types, EndRead
<1>5. Types' /\ Known'
  BY <1>1, <1>2 DEF Types, Known, EndRead, Goto, PC, Locked
<1>6. MutexInv' /\ WInv' /\ CountExact'
  BY <1>1, <1>2, <1>3, <1>4, Groups
  DEF Types, Known, MutexInv, WInv, CountExact, EndRead
<1> QED BY <1>5, <1>6 DEF IInv, LockInv

LEMMA CallEditStep ==
    ASSUME IInv, NEW t \in Threads, CallEdit(t)
    PROVE  IInv'
<1>1. Types /\ Known /\ MutexInv /\ WInv /\ CountExact
  BY DEF IInv, LockInv
<1>2. pc[t] = "rest" /\ Goto(t, "W_P_w")
  BY <1>1 DEF CallEdit
<1>3. /\ Count(Locked)' = Count(Locked)
      /\ Count(Counted)' = Count(Counted)
      /\ Count(Editing)' = Count(Editing)
  BY <1>1, <1>2, Moves, Groups DEF Adds, Locked, Counted, Editing
<1>4. ReadersHoldW' = ReadersHoldW
  BY <1>1, <1>2 DEF ReadersHoldW, Covered, Goto, Types, CallEdit
<1>5. Types' /\ Known'
  BY <1>1, <1>2 DEF Types, Known, CallEdit, Goto, PC, Locked
<1>6. MutexInv' /\ WInv' /\ CountExact'
  BY <1>1, <1>2, <1>3, <1>4, Groups
  DEF Types, Known, MutexInv, WInv, CountExact, CallEdit
<1> QED BY <1>5, <1>6 DEF IInv, LockInv

LEMMA StartEditStep ==
    ASSUME IInv, NEW t \in Threads, StartEdit(t)
    PROVE  IInv'
<1>1. Types /\ Known /\ MutexInv /\ WInv /\ CountExact
  BY DEF IInv, LockInv
<1>2. pc[t] = "W_P_w" /\ Goto(t, "write")
  BY <1>1 DEF StartEdit
<1>3. /\ Count(Locked)' = Count(Locked)
      /\ Count(Counted)' = Count(Counted)
      /\ Count(Editing)' = Count(Editing) + 1
  BY <1>1, <1>2, Moves, Groups DEF Adds, Locked, Counted, Editing
<1>4. ReadersHoldW' = ReadersHoldW
  BY <1>1, <1>2 DEF ReadersHoldW, Covered, Goto, Types, StartEdit
<1>5. Types' /\ Known'
  BY <1>1, <1>2 DEF Types, Known, StartEdit, Goto, PC, Locked
<1>6. MutexInv' /\ WInv' /\ CountExact'
  BY <1>1, <1>2, <1>3, <1>4, Groups
  DEF Types, Known, MutexInv, WInv, CountExact, StartEdit
<1> QED BY <1>5, <1>6 DEF IInv, LockInv

LEMMA EndEditStep ==
    ASSUME IInv, NEW t \in Threads, EndEdit(t)
    PROVE  IInv'
<1>1. Types /\ Known /\ MutexInv /\ WInv /\ CountExact
  BY DEF IInv, LockInv
<1>2. pc[t] = "write" /\ Goto(t, "W_V_w")
  BY <1>1 DEF EndEdit
<1>3. /\ Count(Locked)' = Count(Locked)
      /\ Count(Counted)' = Count(Counted)
      /\ Count(Editing)' = Count(Editing)
  BY <1>1, <1>2, Moves, Groups DEF Adds, Locked, Counted, Editing
<1>4. ReadersHoldW' = ReadersHoldW
  BY <1>1, <1>2 DEF ReadersHoldW, Covered, Goto, Types, EndEdit
<1>5. Types' /\ Known'
  BY <1>1, <1>2 DEF Types, Known, EndEdit, Goto, PC, Locked
<1>6. MutexInv' /\ WInv' /\ CountExact'
  BY <1>1, <1>2, <1>3, <1>4, Groups
  DEF Types, Known, MutexInv, WInv, CountExact, EndEdit
<1> QED BY <1>5, <1>6 DEF IInv, LockInv

LEMMA ReturnEditStep ==
    ASSUME IInv, NEW t \in Threads, ReturnEdit(t)
    PROVE  IInv'
<1>1. Types /\ Known /\ MutexInv /\ WInv /\ CountExact
  BY DEF IInv, LockInv
<1>2. pc[t] = "W_V_w" /\ Goto(t, "rest")
  BY <1>1 DEF ReturnEdit
<1>3. /\ Count(Locked)' = Count(Locked)
      /\ Count(Counted)' = Count(Counted)
      /\ Count(Editing)' = Count(Editing) - 1
  BY <1>1, <1>2, Moves, Groups DEF Adds, Locked, Counted, Editing
<1>4. ReadersHoldW' = ReadersHoldW
  BY <1>1, <1>2 DEF ReadersHoldW, Covered, Goto, Types, ReturnEdit
<1>5. Types' /\ Known'
  BY <1>1, <1>2 DEF Types, Known, ReturnEdit, Goto, PC, Locked
<1>6. MutexInv' /\ WInv' /\ CountExact'
  BY <1>1, <1>2, <1>3, <1>4, Groups
  DEF Types, Known, MutexInv, WInv, CountExact, ReturnEdit
<1> QED BY <1>5, <1>6 DEF IInv, LockInv

-----------------------------------------------------------------------------
LEMMA IInvStep == ASSUME IInv, [Next]_vars PROVE IInv'
<1>1. ASSUME NEW t \in Threads, CallFind(t) \/ CallEdit(t) PROVE IInv'
  BY <1>1, CallFindStep, CallEditStep
<1>2. ASSUME NEW t \in Threads, Lock(t) \/ LoadCount(t) \/ StoreCount(t) \/ Unlock(t)
      PROVE  IInv'
  <2>1. CASE Lock(t)
    BY <2>1, LockInStep, LockOutStep DEF Lock
  <2>2. CASE LoadCount(t)
    BY <2>2, LoadInStep, LoadOutStep DEF LoadCount
  <2>3. CASE StoreCount(t)
    BY <2>3, StoreInStep, StoreOutStep DEF StoreCount
  <2>4. CASE Unlock(t)
    BY <2>4, UnlockInStep, UnlockOutStep DEF Unlock
  <2> QED BY <1>2, <2>1, <2>2, <2>3, <2>4
<1>3. ASSUME NEW t \in Threads, TestIn(t) \/ LockW(t) \/ TestOut(t) \/ UnlockW(t)
      PROVE  IInv'
  BY <1>3, TestInFirstStep, TestInLaterStep, LockWStep, TestOutLastStep,
     TestOutEarlierStep, UnlockWStep
<1>4. ASSUME NEW t \in Threads,
             EndRead(t) \/ StartEdit(t) \/ EndEdit(t) \/ ReturnEdit(t)
      PROVE  IInv'
  BY <1>4, EndReadStep, StartEditStep, EndEditStep, ReturnEditStep
<1>5. CASE UNCHANGED vars
  BY <1>5 DEF vars, IInv, Types, Known, LockInv, MutexInv, WInv, CountExact,
     ReadersHoldW, Count
<1> QED BY <1>1, <1>2, <1>3, <1>4, <1>5 DEF Next, Proceed

THEOREM Invariance == Spec => []IInv
BY InitIInv, IInvStep, PTL DEF Spec

(* mutex, w and readcnt account exactly for who is inside.                 *)
THEOREM LockInvHolds == Spec => []LockInv
<1>1. IInv => LockInv
  BY DEF IInv
<1> QED BY Invariance, <1>1, PTL

-----------------------------------------------------------------------------
(* readcnt never exceeds the number of threads, nor does a loaded copy.    *)
RegBound == reg \in [Threads -> 0 .. Cardinality(Threads)]

LEMMA ReadcntBound == ASSUME IInv PROVE readcnt \in 0 .. Cardinality(Threads)
<1>1. /\ Cardinality({t \in Threads : pc[t] \in Counted}) <= Cardinality(Threads)
      /\ Cardinality(Threads) \in Nat
  BY ThreadsAssumption, FS_Subset, FS_CardinalityType
<1>2. readcnt \in Nat /\ readcnt = Count(Counted)
  BY DEF IInv, Types, LockInv, CountExact
<1> QED BY <1>1, <1>2 DEF Count

(* The values of mutex and w are 0 or 1, and readcnt and its copies count  *)
(* threads: TypeOK, for every finite set of threads.                       *)
THEOREM TypeCorrect == Spec => []TypeOK
<1>1. Init => RegBound
  BY ThreadsAssumption, FS_CardinalityType DEF Init, RegBound
<1>2. IInv /\ RegBound /\ [Next]_vars => RegBound'
  <2> SUFFICES ASSUME IInv, RegBound, [Next]_vars PROVE RegBound'
    OBVIOUS
  <2>1. readcnt \in 0 .. Cardinality(Threads)
    BY ReadcntBound
  <2>2. ASSUME NEW t \in Threads, LoadCount(t) PROVE RegBound'
    BY <2>1, <2>2 DEF RegBound, LoadCount
  <2>3. ASSUME NEW t \in Threads, CallFind(t) \/ CallEdit(t) \/ Proceed(t), ~LoadCount(t)
        PROVE  reg' = reg
    BY <2>3 DEF Proceed, CallFind, CallEdit, Lock, StoreCount, TestIn, LockW, TestOut,
       UnlockW, Unlock, EndRead, StartEdit, EndEdit, ReturnEdit
  <2>4. CASE UNCHANGED vars
    BY <2>4 DEF vars, RegBound
  <2> QED BY <2>2, <2>3, <2>4 DEF Next, RegBound
<1>3. IInv /\ RegBound => TypeOK
  <2> SUFFICES ASSUME IInv, RegBound PROVE TypeOK
    OBVIOUS
  <2>1. readcnt \in 0 .. Cardinality(Threads)
    BY ReadcntBound
  <2>2. /\ Count(Locked) \in Nat /\ Count(Editing) \in Nat
        /\ mutex \in Nat /\ w \in Nat /\ pc \in [Threads -> PC]
        /\ MutexInv /\ WInv
    BY Groups DEF IInv, Types, LockInv
  <2>3. mutex \in 0 .. 1 /\ w \in 0 .. 1
    BY <2>2 DEF MutexInv, WInv
  <2> QED BY <2>1, <2>2, <2>3 DEF TypeOK, RegBound
<1> QED BY <1>1, <1>2, <1>3, Invariance, PTL DEF Spec

-----------------------------------------------------------------------------
(* The exclusion itself: while anybody traverses, nobody edits, and one    *)
(* thread at most edits.                                                   *)
LEMMA Exclusion ==
    ASSUME IInv
    PROVE  /\ (\E t \in Threads : pc[t] \in Covered) =>
                    w = 0 /\ \A t \in Threads : pc[t] # "write"
           /\ w > 0 => \A t \in Threads : pc[t] \notin {"read", "write"}
           /\ \A t, u \in Threads : pc[t] = "write" /\ pc[u] = "write" => t = u
<1>1. w \in Nat /\ Count(Editing) \in Nat /\ WInv
  BY Groups DEF IInv, Types, LockInv
<1>2. ASSUME \E t \in Threads : pc[t] \in Covered
      PROVE  w = 0 /\ \A t \in Threads : pc[t] # "write"
  <2>1. ReadersHoldW
    BY <1>2 DEF ReadersHoldW
  <2>2. w = 0 /\ Count(Editing) = 0
    BY <1>1, <2>1 DEF WInv
  <2> QED BY <2>2, CountNat DEF Editing
<1>3. ASSUME w > 0 PROVE \A t \in Threads : pc[t] \notin {"read", "write"}
  <2>1. ~ReadersHoldW /\ Count(Editing) = 0
    BY <1>1, <1>3 DEF WInv
  <2> QED BY <2>1, CountNat DEF ReadersHoldW, Covered, Editing
<1>4. ASSUME NEW t \in Threads, NEW u \in Threads,
             pc[t] = "write", pc[u] = "write"
      PROVE  t = u
  <2>1. CountAt(pc, Threads, Editing) <= 1
    BY <1>1, CountIs DEF WInv
  <2> QED BY <1>4, <2>1, CountAtOne, ThreadsAssumption DEF Editing
<1> QED BY <1>2, <1>3, <1>4

(* The semaphores and readcnt implement the readers-writer lock.           *)
THEOREM ImplementsReadersWriter == Spec => RWSpec
<1> DEFINE reading == {t \in Threads : pc[t] = "read"}
           writing == {t \in Threads : pc[t] = "write"}
<1>1. Init => RW!RWInit
  BY DEF Init, RW!RWInit
<1>2. IInv /\ [Next]_vars => [RW!RWNext]_(RW!rwVars)
  <2> SUFFICES ASSUME IInv, [Next]_vars PROVE [RW!RWNext]_(RW!rwVars)
    OBVIOUS
  <2> USE DEF RW!rwVars
  <2>0. pc \in [Threads -> PC]
    BY DEF IInv, Types
  <2>1. ASSUME NEW t \in Threads, Unlock(t), pc[t] = "V_mutex1"
        PROVE  RW!StartRead(t)
    BY <2>0, <2>1, Exclusion DEF RW!StartRead, Unlock, Goto, Covered
  <2>2. ASSUME NEW t \in Threads, EndRead(t) PROVE RW!EndRead(t)
    BY <2>0, <2>2 DEF RW!EndRead, EndRead, Goto
  <2>3. ASSUME NEW t \in Threads, StartEdit(t) PROVE RW!StartWrite(t)
    BY <2>0, <2>3, Exclusion DEF RW!StartWrite, StartEdit, Goto
  <2>4. ASSUME NEW t \in Threads, EndEdit(t) PROVE RW!EndWrite(t)
    BY <2>0, <2>4 DEF RW!EndWrite, EndEdit, Goto
  <2>5. ASSUME NEW t \in Threads,
               \/ CallFind(t) \/ CallEdit(t) \/ Lock(t) \/ LoadCount(t) \/ StoreCount(t)
               \/ TestIn(t) \/ LockW(t) \/ TestOut(t) \/ UnlockW(t)
               \/ ReturnEdit(t) \/ (Unlock(t) /\ pc[t] # "V_mutex1")
        PROVE  reading' = reading /\ writing' = writing
    BY <2>0, <2>5 DEF CallFind, CallEdit, Lock, LoadCount, StoreCount, TestIn, LockW,
       TestOut, UnlockW, ReturnEdit, Unlock, Goto
  <2>6. CASE UNCHANGED vars
    BY <2>6 DEF vars
  <2> QED BY <2>1, <2>2, <2>3, <2>4, <2>5, <2>6 DEF Next, Proceed, RW!RWNext
<1> QED BY <1>1, <1>2, Invariance, PTL DEF Spec, RWSpec, RW!RWSpec
=============================================================================
