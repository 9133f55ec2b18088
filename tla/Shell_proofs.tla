---------------------------- MODULE Shell_proofs ----------------------------
(***************************************************************************)
(* Theorems about Shell, for every number of children and of job slots.    *)
(* First, what the helper routines of the job list return and change.      *)
(***************************************************************************)
EXTENDS Shell, Counting, SequenceTheorems

Tables == [Slots -> Entry]

(* A search loop returns a slot that it was looking for, or there is none. *)
LEMMA FirstFound ==
    ASSUME NEW S, S \subseteq Slots
    PROVE  /\ S = {} => First(S) = 0
           /\ S # {} => First(S) \in S
<1>1. ASSUME S # {} PROVE \E i \in S : \A k \in S : i <= k
  <2>1. S \subseteq Nat
    BY JobsAssumption DEF Slots
  <2> QED BY <1>1, <2>1, LeastMember
<1> QED BY <1>1 DEF First

LEMMA NotZero == ASSUME NEW i \in Slots PROVE i # 0
BY DEF Slots

(* getjobpid: the slot of pid, or 0 when no slot has it.                   *)
LEMMA GetJobPidFound ==
    ASSUME NEW tab \in Tables, NEW pid \in Pids
    PROVE  \/ /\ GetJobPid(tab, pid) \in Slots
              /\ tab[GetJobPid(tab, pid)].pid = pid
           \/ /\ GetJobPid(tab, pid) = 0
              /\ \A i \in Slots : tab[i].pid # pid
<1> DEFINE S == {i \in Slots : pid # NoPid /\ tab[i].pid = pid}
<1>1. pid # NoPid
  BY JobsAssumption
<1>2. S \subseteq Slots
  OBVIOUS
<1>3. GetJobPid(tab, pid) = First(S)
  BY DEF GetJobPid
<1>4. CASE S = {}
  BY <1>1, <1>2, <1>3, <1>4, FirstFound
<1>5. CASE S # {}
  <2>1. First(S) \in S
    BY <1>2, <1>5, FirstFound
  <2> QED BY <1>3, <2>1
<1> QED BY <1>4, <1>5

(* addjob's loop: a slot that is free, or 0 when none is.                  *)
LEMMA FreeSlotFound ==
    ASSUME NEW tab \in Tables
    PROVE  \/ FreeSlot(tab) \in Slots /\ tab[FreeSlot(tab)].pid = NoPid
           \/ FreeSlot(tab) = 0 /\ \A i \in Slots : tab[i].pid # NoPid
<1> DEFINE S == {i \in Slots : tab[i].pid = NoPid}
<1>1. S \subseteq Slots /\ FreeSlot(tab) = First(S)
  BY DEF FreeSlot
<1>2. CASE S = {}
  BY <1>1, <1>2, FirstFound
<1>3. CASE S # {}
  <2>1. First(S) \in S
    BY <1>1, <1>3, FirstFound
  <2> QED BY <1>1, <2>1
<1> QED BY <1>2, <1>3

(* fgpid returns the pid of an entry, or 0.                                *)
LEMMA FgPidType ==
    ASSUME NEW tab \in Tables
    PROVE  FgPid(tab) \in Pids \cup {NoPid}
<1> DEFINE S == {k \in Slots : tab[k].state = "FG"}
<1>1. S \subseteq Slots
  OBVIOUS
<1>2. First(S) = 0 \/ First(S) \in Slots
  BY <1>1, FirstFound
<1> QED BY <1>2 DEF FgPid, Tables, Entry

(* fgpid returns 0 exactly when no entry is in state FG, if every entry in *)
(* state FG has a pid.                                                     *)
LEMMA FgPidNone ==
    ASSUME NEW tab \in Tables, \A i \in Slots : tab[i].state = "FG" => tab[i].pid # NoPid
    PROVE  FgPid(tab) = NoPid <=> \A i \in Slots : tab[i].state # "FG"
<1> DEFINE S == {k \in Slots : tab[k].state = "FG"}
<1>1. S \subseteq Slots /\ FgPid(tab) = IF First(S) = 0 THEN NoPid ELSE tab[First(S)].pid
  BY DEF FgPid
<1>2. CASE S = {}
  BY <1>1, <1>2, FirstFound
<1>3. CASE S # {}
  <2>1. First(S) \in S
    BY <1>1, <1>3, FirstFound
  <2>2. First(S) # 0
    BY <1>1, <2>1, NotZero
  <2> QED BY <1>1, <2>1, <2>2
<1> QED BY <1>2, <1>3

(* getjobjid: a slot with that id, or 0.                                   *)
LEMMA GetJobJidFound ==
    ASSUME NEW tab \in Tables, NEW jid \in Nat
    PROVE  \/ GetJobJid(tab, jid) = 0
           \/ /\ GetJobJid(tab, jid) \in Slots
              /\ tab[GetJobJid(tab, jid)].jid = jid /\ jid > 0
<1> DEFINE S == {i \in Slots : jid > 0 /\ tab[i].jid = jid}
<1>1. S \subseteq Slots /\ GetJobJid(tab, jid) = First(S)
  BY DEF GetJobJid
<1>2. CASE S = {}
  BY <1>1, <1>2, FirstFound
<1>3. CASE S # {}
  <2>1. First(S) \in S
    BY <1>1, <1>3, FirstFound
  <2> QED BY <1>1, <2>1
<1> QED BY <1>2, <1>3

(* addjob fills one free slot with the job, or leaves the list alone.      *)
LEMMA AddJobEffect ==
    ASSUME NEW tab \in Tables, NEW jid \in Nat, NEW pid \in Pids,
           NEW state \in States
    PROVE  /\ AddJob(tab, jid, pid, state) \in Tables
           /\ FreeSlot(tab) = 0 => AddJob(tab, jid, pid, state) = tab
           /\ FreeSlot(tab) # 0 =>
                \E i \in Slots :
                    /\ tab[i].pid = NoPid
                    /\ AddJob(tab, jid, pid, state)[i].pid = pid
                    /\ AddJob(tab, jid, pid, state)[i].state = state
                    /\ \A k \in Slots \ {i} :
                        AddJob(tab, jid, pid, state)[k] = tab[k]
<1> DEFINE i == FreeSlot(tab)
           new == [pid |-> pid, jid |-> jid, state |-> state]
<1>1. CASE i = 0
  BY <1>1 DEF AddJob
<1>2. CASE i # 0
  <2>1. i \in Slots /\ tab[i].pid = NoPid
    BY <1>2, FreeSlotFound
  <2>2. AddJob(tab, jid, pid, state) = [tab EXCEPT ![i] = new]
    BY <1>2 DEF AddJob
  <2>3. new \in Entry
    BY DEF Entry
  <2> HIDE DEF i, new
  <2>4. /\ [tab EXCEPT ![i] = new] \in Tables
        /\ [tab EXCEPT ![i] = new][i] = new
        /\ \A k \in Slots \ {i} : [tab EXCEPT ![i] = new][k] = tab[k]
    BY <2>1, <2>3 DEF Tables
  <2>5. new.pid = pid /\ new.state = state
    BY DEF new
  <2> QED BY <1>2, <2>1, <2>2, <2>4, <2>5 DEF i
<1> QED BY <1>1, <1>2

(* deletejob clears one slot of pid, or leaves the list alone.             *)
LEMMA DeleteJobEffect ==
    ASSUME NEW tab \in Tables, NEW pid \in Pids
    PROVE  /\ DeleteJob(tab, pid) \in Tables
           /\ \/ /\ DeleteJob(tab, pid) = tab
                 /\ \A i \in Slots : tab[i].pid # pid
              \/ \E i \in Slots :
                    /\ tab[i].pid = pid
                    /\ DeleteJob(tab, pid)[i] = Cleared(tab[i])
                    /\ DeleteJob(tab, pid)[i].pid = NoPid
                    /\ \A k \in Slots \ {i} :
                        DeleteJob(tab, pid)[k] = tab[k]
<1> DEFINE i == GetJobPid(tab, pid)
<1>1. CASE i = 0
  BY <1>1, GetJobPidFound, NotZero DEF DeleteJob
<1>2. CASE i # 0
  <2>1. i \in Slots /\ tab[i].pid = pid
    BY <1>2, GetJobPidFound
  <2>2. DeleteJob(tab, pid) = [tab EXCEPT ![i] = Cleared(tab[i])]
    BY <1>2, <2>1 DEF DeleteJob, Tables
  <2>3. Cleared(tab[i]) \in Entry /\ Cleared(tab[i]).pid = NoPid
    BY DEF Cleared, Entry, States
  <2> HIDE DEF i
  <2>4. /\ [tab EXCEPT ![i] = Cleared(tab[i])] \in Tables
        /\ [tab EXCEPT ![i] = Cleared(tab[i])][i] = Cleared(tab[i])
        /\ \A k \in Slots \ {i} :
            [tab EXCEPT ![i] = Cleared(tab[i])][k] = tab[k]
    BY <2>1, <2>3 DEF Tables
  <2> QED BY <2>1, <2>2, <2>3, <2>4
<1> QED BY <1>1, <1>2

-----------------------------------------------------------------------------
(* There is a bound on the ids of the first n slots, for each n.           *)
LEMMA JidsBounded ==
    ASSUME NEW tab \in Tables
    PROVE  \E b \in Nat : \A i \in Slots : tab[i].jid <= b
<1> DEFINE U == {n \in Nat : n <= MaxJobs
                    /\ ~\E b \in Nat : \A i \in 1 .. n : tab[i].jid <= b}
<1>0. \A i \in Slots : tab[i].jid \in Nat
  BY DEF Tables, Entry
<1>1. ASSUME U # {} PROVE FALSE
  <2>1. PICK n \in U : \A m \in U : n <= m
    BY <1>1, LeastMember
  <2>2. n # 0
    <3>1. \A i \in 1 .. 0 : tab[i].jid <= 0
      OBVIOUS
    <3> QED BY <3>1, <2>1
  <2>3. n - 1 \in Nat /\ n - 1 <= MaxJobs /\ n - 1 \notin U
    <3>1. n \in Nat /\ n <= MaxJobs
      BY <2>1
    <3>2. n - 1 \in Nat /\ n - 1 <= MaxJobs /\ ~(n <= n - 1)
      BY <3>1, <2>2, JobsAssumption
    <3> HIDE DEF U
    <3> QED BY <2>1, <3>2
  <2>4. PICK b \in Nat : \A i \in 1 .. n - 1 : tab[i].jid <= b
    BY <2>3
  <2>5. n \in Slots
    BY <2>1, <2>2 DEF Slots
  <2>6. tab[n].jid \in Nat
    BY <2>5, <1>0
  <2>7. \A i \in 1 .. n : i = n \/ i \in 1 .. n - 1
    BY <2>1
  <2>8. \A i \in 1 .. n : i \in Slots
    BY <2>1, JobsAssumption DEF Slots
  <2>9. \A i \in 1 .. n : tab[i].jid <= b + tab[n].jid
    <3> SUFFICES ASSUME NEW i \in 1 .. n PROVE tab[i].jid <= b + tab[n].jid
      OBVIOUS
    <3>1. tab[i].jid \in Nat
      BY <2>8, <1>0
    <3>2. CASE i = n
      BY <2>6, <3>2
    <3>3. CASE i \in 1 .. n - 1
      <4>1. tab[i].jid <= b
        BY <2>4, <3>3
      <4> QED BY <2>6, <3>1, <4>1
    <3> QED BY <2>7, <3>2, <3>3
  <2> QED BY <2>1, <2>6, <2>9
<1>2. MaxJobs \notin U
  BY <1>1
<1> QED BY <1>2, JobsAssumption DEF Slots

(* maxjid is the id of some slot, or 0, and no id is larger.               *)
LEMMA MaxJidIs ==
    ASSUME NEW tab \in Tables
    PROVE  /\ MaxJid(tab) \in Nat
           /\ \A i \in Slots : tab[i].jid <= MaxJid(tab)
<1> DEFINE B == {b \in Nat : \A i \in Slots : tab[i].jid <= b}
           J == {0} \cup {tab[i].jid : i \in Slots}
<1>0. \A i \in Slots : tab[i].jid \in Nat
  BY DEF Tables, Entry
<1>1. PICK m \in B : \A b \in B : m <= b
  <2>1. B # {}
    BY JidsBounded
  <2> QED BY <2>1, LeastMember
<1>2. m \in J
  <2> SUFFICES ASSUME m # 0, \A i \in Slots : tab[i].jid # m PROVE FALSE
    OBVIOUS
  <2>1. m - 1 \in B
    BY <1>0, <1>1
  <2> QED BY <1>1, <2>1
<1>3. \A i \in Slots : tab[i].jid <= m
  BY <1>1
<1>4. MaxJid(tab) \in J /\ \A i \in Slots : tab[i].jid <= MaxJid(tab)
  BY <1>2, <1>3 DEF MaxJid
<1> QED BY <1>0, <1>4

(* nextjid stays positive.                                                 *)
LEMMA NextJidType ==
    ASSUME NEW tab \in Tables, NEW jid \in Nat \ {0}, NEW pid \in Pids
    PROVE  /\ NextJidAdd(tab, jid) \in Nat \ {0}
           /\ NextJidDelete(tab, jid, pid) \in Nat \ {0}
<1>1. NextJidAdd(tab, jid) \in Nat \ {0}
  BY DEF NextJidAdd
<1>2. MaxJid(DeleteJob(tab, pid)) \in Nat
  BY DeleteJobEffect, MaxJidIs
<1>3. NextJidDelete(tab, jid, pid) \in Nat \ {0}
  BY <1>2 DEF NextJidDelete
<1> QED BY <1>1, <1>3

-----------------------------------------------------------------------------
Running == 1 .. Len(frames)         \* the handlers, by their depth

Types ==
    /\ jobs \in Tables /\ nextjid \in Nat \ {0}
    /\ proc \in [Pids -> ProcStates]
    /\ news \subseteq Pids
    /\ pending \subseteq Signals /\ mask \subseteq Signals
    /\ pc \in PCs
    /\ cmd \in [what : {"none", "FG", "BG"}, pid : Pids \cup {NoPid},
                slot : Slots \cup {0}]
    /\ frames \in Seq(Frame)
    /\ life \in {"running", "quit", "kill error", "null dereferenced"}
    /\ builtins \in 0 .. MaxBuiltins /\ keys \in 0 .. MaxKeys
    /\ meddled \in BOOLEAN /\ dropped \subseteq Pids

(* What the loop knows of the command it is evaluating.                    *)
Commanded ==
    /\ pc # "prompt" => cmd.what \in {"FG", "BG"}
    /\ InWindow => cmd.slot \in Slots

(* From fork to addjob the child exists, has not been reaped, and is not   *)
(* listed.                                                                 *)
Unlisted ==
    pc = "addjob" =>
        /\ cmd.pid \in Pids
        /\ proc[cmd.pid] \notin {"none", "reaped"}
        /\ \A i \in Slots : jobs[i].pid # cmd.pid

(* A handler runs with its own signal blocked, and so do the handlers that *)
(* interrupt it; from fork to addjob SIGCHLD is blocked in all of them.    *)
Masking ==
    /\ \A i \in Running :
        /\ frames[i].sig \in mask
        /\ frames[i].sig \notin frames[i].saved
        /\ pc = "addjob" => "CHLD" \in frames[i].saved
    /\ \A i, k \in Running : i < k => frames[k].sig \in frames[i].saved
    /\ pc = "addjob" => "CHLD" \in mask

(* What a handler between two of its steps knows of the process it is      *)
(* about to signal, or to enter in the list.                               *)
Updating ==
    \A i \in Running :
        /\ frames[i].at = "kill" => frames[i].pid \in Pids
        /\ frames[i].at = "update" =>
            /\ frames[i].sig = "CHLD"
            /\ frames[i].pid \in Pids
            /\ frames[i].status = "ended" => proc[frames[i].pid] = "reaped"
            /\ frames[i].status # "ended" =>
                proc[frames[i].pid] \notin {"none", "reaped"}

(* waitpid has yet to tell of existing children only.                      *)
NewsOfChildren == \A p \in news : proc[p] \notin {"none", "reaped"}

IInv ==
    /\ Types /\ Commanded
    /\ Unlisted /\ Masking /\ Updating /\ NewsOfChildren
    /\ ListTracksChildren /\ NoChildForgotten /\ NoNewsLost

-----------------------------------------------------------------------------
(* The stack of handlers, as it stands and after each of its changes.      *)
LEMMA Stack ==
    ASSUME Types
    PROVE  /\ Len(frames) \in Nat
           /\ \A i \in Running : frames[i] \in Frame
           /\ frames # << >> => 1 \in Running /\ Head(frames) = frames[1]
<1>1. frames \in Seq(Frame)
  BY DEF Types
<1>2. Len(frames) \in Nat /\ \A i \in 1 .. Len(frames) : frames[i] \in Frame
  BY <1>1, LenProperties, ElementOfSeq
<1>3. ASSUME frames # << >> PROVE Len(frames) # 0
  BY <1>1, <1>3, EmptySeq
<1>4. Head(frames) = frames[1]
  OBVIOUS
<1> QED BY <1>2, <1>3, <1>4 DEF Running

LEMMA Pushed ==
    ASSUME Types, NEW x \in Frame, frames' = <<x>> \o frames
    PROVE  /\ frames' \in Seq(Frame)
           /\ 1 \in Running' /\ frames'[1] = x
           /\ \A i \in Running' : i = 1 \/ (i - 1 \in Running
                                          /\ frames'[i] = frames[i - 1])
           /\ \A i \in Running : i + 1 \in Running' /\ frames'[i + 1] = frames[i]
<1>1. frames \in Seq(Frame) /\ Len(frames) \in Nat
  BY Stack DEF Types
<1>2. <<x>> \in Seq(Frame) /\ Len(<<x>>) = 1 /\ <<x>>[1] = x
  OBVIOUS
<1>3. /\ frames' \in Seq(Frame)
      /\ Len(frames') = Len(frames) + 1
      /\ \A i \in 1 .. Len(frames) + 1 :
            frames'[i] = IF i <= 1 THEN <<x>>[i] ELSE frames[i - 1]
  BY <1>1, <1>2, ConcatProperties
<1> QED BY <1>1, <1>2, <1>3 DEF Running

LEMMA Popped ==
    ASSUME Types, frames # << >>, frames' = Tail(frames)
    PROVE  /\ frames' \in Seq(Frame)
           /\ \A i \in Running' : i + 1 \in Running /\ frames'[i] = frames[i + 1]
           /\ \A i \in Running : i = 1 \/ (i - 1 \in Running'
                                         /\ frames'[i - 1] = frames[i])
<1>1. frames \in Seq(Frame) /\ Len(frames) \in Nat
  BY Stack DEF Types
<1>2. /\ frames' \in Seq(Frame)
      /\ Len(frames') = Len(frames) - 1
      /\ \A i \in 1 .. Len(frames') : frames'[i] = frames[i + 1]
  BY <1>1, HeadTailProperties
<1> QED BY <1>1, <1>2 DEF Running

LEMMA Gone ==
    ASSUME Types, frames # << >>,
           NEW l \in {"start", "update", "kill"}, NEW p \in Pids \cup {NoPid},
           NEW s \in {"none", "ended", "stopped"}, Go(l, p, s)
    PROVE  /\ frames' \in Seq(Frame)
           /\ Running' = Running
           /\ frames'[1] = [frames[1] EXCEPT !.at = l, !.pid = p, !.status = s]
           /\ frames'[1].sig = frames[1].sig /\ frames'[1].saved = frames[1].saved
           /\ frames'[1].at = l /\ frames'[1].pid = p /\ frames'[1].status = s
           /\ \A i \in Running : i # 1 => frames'[i] = frames[i]
<1> DEFINE x == [frames[1] EXCEPT !.at = l, !.pid = p, !.status = s]
<1>1. frames \in Seq(Frame) /\ 1 \in 1 .. Len(frames) /\ frames[1] \in Frame
  BY Stack DEF Types, Running
<1>2. /\ x \in Frame
      /\ x.sig = frames[1].sig /\ x.saved = frames[1].saved
      /\ x.at = l /\ x.pid = p /\ x.status = s
  BY <1>1 DEF Frame
<1>3. frames' = [frames EXCEPT ![1] = x]
  BY DEF Go
<1> HIDE DEF x
<1>4. /\ frames' \in Seq(Frame) /\ Len(frames') = Len(frames)
      /\ \A i \in 1 .. Len(frames) : frames'[i] = IF i = 1 THEN x ELSE frames[i]
  BY <1>1, <1>2, <1>3, ExceptSeq
<1> QED BY <1>1, <1>2, <1>4 DEF Running, x

LEMMA BeingUpdatedIs ==
    /\ \A p : p \in BeingUpdated <=>
            \E i \in Running : frames[i].at = "update" /\ frames[i].pid = p
    /\ \A p : p \in BeingUpdated' <=>
            \E i \in Running' : frames'[i].at = "update" /\ frames'[i].pid = p
BY DEF BeingUpdated, Running

(* SIGCHLD's handler never interrupts itself, nor the loop at addjob.      *)
LEMMA OneHandler ==
    ASSUME Types, Masking
    PROVE  /\ \A i, k \in Running : frames[i].sig = frames[k].sig => i = k
           /\ pc = "addjob" => \A i \in Running : frames[i].sig # "CHLD"
<1>1. ASSUME NEW i \in Running, NEW k \in Running, frames[i].sig = frames[k].sig,
             i < k
      PROVE  FALSE
  BY <1>1 DEF Masking
<1>2. \A i, k \in Running : i < k \/ k < i \/ i = k
  BY Stack DEF Running
<1> QED BY <1>1, <1>2 DEF Masking

-----------------------------------------------------------------------------
(* What a step must leave alone for the list to keep up with the children. *)
SameEntries == \A i \in Slots : jobs'[i].pid = jobs[i].pid

SameChildren ==
    \A p \in Pids : /\ proc'[p] = "none" <=> proc[p] = "none"
                    /\ proc'[p] = "reaped" <=> proc[p] = "reaped"

SameAddJob ==
    /\ pc' = "addjob" <=> pc = "addjob"
    /\ pc = "addjob" => cmd' = cmd

LEMMA SlotsExist == \E i \in Slots : TRUE
<1>1. 1 \in Slots
  BY JobsAssumption DEF Slots
<1> QED BY <1>1

LEMMA ListedIs ==
    /\ \A p : p \in Listed <=> p # NoPid /\ \E i \in Slots : jobs[i].pid = p
    /\ \A p : p \in Listed' <=> p # NoPid /\ \E i \in Slots : jobs'[i].pid = p
BY DEF Listed

LEMMA ListedPids == ASSUME Types PROVE Listed \subseteq Pids
<1>1. \A i \in Slots : jobs[i].pid \in Pids \cup {NoPid}
  BY DEF Types, Tables, Entry
<1> QED BY <1>1, ListedIs

LEMMA SameList ==
    ASSUME IInv, Types', SameEntries, SameChildren, SameAddJob,
           dropped' = dropped, BeingUpdated' = BeingUpdated
    PROVE  Unlisted' /\ ListTracksChildren' /\ NoChildForgotten'
<1> USE DEF SameEntries, SameChildren, SameAddJob
<1>1. Listed' = Listed
  BY ListedIs
<1>2. Listed \subseteq Pids
  BY ListedPids DEF IInv
<1>3. Unlisted'
  BY DEF IInv, Unlisted
<1>4. ListTracksChildren'
  <2>1. \A i, k \in Slots :
            jobs'[i].pid = jobs'[k].pid /\ jobs'[i].pid # NoPid => i = k
    BY DEF IInv, ListTracksChildren
  <2>2. \A p \in Listed' : proc'[p] \in {"none", "reaped"} => p \in BeingUpdated'
    BY <1>1, <1>2 DEF IInv, ListTracksChildren
  <2> QED BY <2>1, <2>2 DEF ListTracksChildren
<1>5. NoChildForgotten'
  BY <1>1 DEF IInv, NoChildForgotten
<1> QED BY <1>3, <1>4, <1>5

(* A step of the loop, of a child or of the keyboard.                      *)
LEMMA SameHandlers ==
    ASSUME IInv, Types', Commanded', SameEntries, SameChildren, SameAddJob,
           UNCHANGED <<frames, mask, dropped>>,
           NewsOfChildren', NoNewsLost'
    PROVE  IInv'
<1>1. BeingUpdated' = BeingUpdated /\ Running' = Running
  BY DEF BeingUpdated, Running
<1>2. Unlisted' /\ ListTracksChildren' /\ NoChildForgotten'
  BY <1>1, SameList
<1>3. Masking'
  BY <1>1 DEF IInv, Masking, SameAddJob
<1>4. Updating'
  <2> SUFFICES ASSUME NEW i \in Running
               PROVE  /\ frames[i].at = "kill" => frames[i].pid \in Pids
                      /\ frames[i].at = "update" =>
                        /\ frames[i].sig = "CHLD"
                        /\ frames[i].pid \in Pids
                        /\ frames[i].status = "ended" =>
                            proc'[frames[i].pid] = "reaped"
                        /\ frames[i].status # "ended" =>
                            proc'[frames[i].pid] \notin {"none", "reaped"}
    BY <1>1 DEF Updating
  <2> QED BY DEF IInv, Updating, SameChildren
<1> QED BY <1>2, <1>3, <1>4 DEF IInv

(* A step that leaves the kernel's side and the list alone, too.           *)
LEMMA LoopAlone ==
    ASSUME IInv, Types', Commanded', SameEntries, SameAddJob,
           UNCHANGED <<kernel, frames, mask, dropped>>
    PROVE  IInv'
<1>1. SameChildren
  BY DEF SameChildren, kernel
<1>2. NewsOfChildren' /\ NoNewsLost'
  BY DEF IInv, NewsOfChildren, NoNewsLost, kernel
<1> QED BY <1>1, <1>2, SameHandlers

LEMMA ChildInv == ASSUME IInv, Child PROVE IInv'
<1>1. PICK p \in Pids : ChildSetpgid(p) \/ ChildEnds(p) \/ ChildStops(p)
  BY DEF Child
<1>2. Types'
  BY <1>1 DEF IInv, Types, ChildSetpgid, ChildEnds, ChildStops, Tell, ProcStates,
        Signals, others, table, bounds, history
<1>3. Commanded' /\ SameEntries /\ SameAddJob /\ UNCHANGED <<frames, mask, dropped>>
  BY <1>1 DEF IInv, Commanded, InWindow, SameEntries, SameAddJob, ChildSetpgid,
        ChildEnds, ChildStops, others, table, bounds, history
<1>4. SameChildren
  BY <1>1 DEF IInv, Types, SameChildren, ChildSetpgid, ChildEnds, ChildStops
<1>5. NewsOfChildren'
  BY <1>1, <1>4 DEF IInv, Types, NewsOfChildren, SameChildren, ChildSetpgid,
        ChildEnds, ChildStops, Tell
<1>6. NoNewsLost'
  BY <1>1 DEF IInv, NoNewsLost, ChildSetpgid, ChildEnds, ChildStops, Tell, others
<1> QED BY <1>2, <1>3, <1>4, <1>5, <1>6, SameHandlers

LEMMA KeyInv == ASSUME IInv, NEW sig \in {"INT", "TSTP"}, Key(sig) PROVE IInv'
<1>1. Types'
  BY BoundsAssumption DEF IInv, Types, Key, Signals, table, history
<1>2. Commanded' /\ SameEntries /\ SameAddJob /\ UNCHANGED <<frames, mask, dropped>>
  BY DEF IInv, Commanded, InWindow, SameEntries, SameAddJob, Key, table, history
<1>3. SameChildren
  BY DEF SameChildren, Key
<1>4. NewsOfChildren' /\ NoNewsLost'
  BY DEF IInv, NewsOfChildren, NoNewsLost, Key
<1> QED BY <1>1, <1>2, <1>3, <1>4, SameHandlers

LEMMA CommandInv == ASSUME IInv, Command PROVE IInv'
<1> USE DEF IInv, Types, Commanded, InWindow, PCs, table, kernel, history, bounds
<1>1. ASSUME NEW what \in {"FG", "BG"}, ReadRun(what) PROVE IInv'
  <2>1. Types' /\ Commanded'
    BY <1>1 DEF ReadRun, LoopAt, NoCmd
  <2>2. SameEntries /\ SameAddJob /\ UNCHANGED <<kernel, frames, mask, dropped>>
    BY <1>1 DEF ReadRun, LoopAt, SameEntries, SameAddJob
  <2> HIDE DEF IInv, Types, Commanded
  <2> QED BY <2>1, <2>2, LoopAlone
<1>2. ASSUME NEW what \in {"FG", "BG"}, NEW i \in Slots,
             ReadBuiltin(what, jobs[i].jid) \/ ReadBuiltin(what, 0)
      PROVE  IInv'
  <2>1. PICK jid \in Nat : ReadBuiltin(what, jid)
    BY <1>2 DEF Tables, Entry
  <2> DEFINE k == GetJobJid(jobs, jid)
  <2>2. k \in Slots \cup {0}
    <3> DEFINE S == {n \in Slots : jid > 0 /\ jobs[n].jid = jid}
    <3>1. S \subseteq Slots /\ k = First(S)
      BY DEF GetJobJid
    <3> HIDE DEF S
    <3> QED BY <3>1, FirstFound
  <2>3. Types' /\ Commanded'
    <3> HIDE DEF k
    <3>1. ReadBuiltin(what, jid) <=>
            /\ LoopAt("prompt") /\ builtins < MaxBuiltins
            /\ builtins' = builtins + 1
            /\ IF k = 0 THEN UNCHANGED <<pc, cmd>>
               ELSE /\ pc' = "loadpid"
                    /\ cmd' = [what |-> what, pid |-> NoPid, slot |-> k]
            /\ UNCHANGED <<table, kernel, mask, frames, life, keys, history>>
      BY DEF ReadBuiltin, k
    <3>2. CASE k = 0
      BY <2>1, <3>1, <3>2, BoundsAssumption DEF LoopAt
    <3>3. CASE k # 0
      BY <2>1, <2>2, <3>1, <3>3, BoundsAssumption DEF LoopAt
    <3> QED BY <3>2, <3>3
  <2>4. SameEntries /\ SameAddJob /\ UNCHANGED <<kernel, frames, mask, dropped>>
    BY <2>1 DEF ReadBuiltin, LoopAt, SameEntries, SameAddJob
  <2> HIDE DEF IInv, Types, Commanded
  <2> QED BY <2>3, <2>4, LoopAlone
<1>3. ASSUME ReadBlank \/ Quit PROVE IInv'
  <2>1. Types' /\ Commanded'
    BY <1>3 DEF ReadBlank, Quit
  <2>2. SameEntries /\ SameAddJob /\ UNCHANGED <<kernel, frames, mask, dropped>>
    BY <1>3 DEF ReadBlank, Quit, SameEntries, SameAddJob
  <2> HIDE DEF IInv, Types, Commanded
  <2> QED BY <2>1, <2>2, LoopAlone
<1>4. \E i \in Slots : TRUE
  BY SlotsExist
<1> HIDE DEF IInv, Types, Commanded, InWindow, PCs, table, kernel, history, bounds
<1> QED BY <1>1, <1>2, <1>3, <1>4 DEF Command

LEMMA ForkInv == ASSUME IInv, NEW p \in Pids, Fork(p) PROVE IInv'
<1>1. /\ frames = << >> /\ frames' = << >> /\ Running = {} /\ Running' = {}
      /\ BeingUpdated = {} /\ BeingUpdated' = {}
  BY DEF Fork, LoopAt, Running, BeingUpdated
<1>2. Types' /\ Commanded'
  BY DEF IInv, Types, Commanded, InWindow, Fork, LoopAt, ForkMask, PCs,
        ProcStates, Signals, table, bounds, history
<1>3. /\ pc' = "addjob" /\ cmd'.pid = p /\ jobs' = jobs /\ news' = news
      /\ dropped' = dropped /\ pending' = pending /\ pc # "addjob"
      /\ proc[p] = "none" /\ proc'[p] = "forked"
      /\ \A q \in Pids : q # p => proc'[q] = proc[q]
  BY DEF IInv, Types, Fork, LoopAt, table, history
<1>4. p \notin Listed
  BY <1>1, <1>3 DEF IInv, ListTracksChildren
<1>5. Unlisted'
  BY <1>3, <1>4, ListedIs, JobsAssumption DEF Unlisted
<1>6. Masking' /\ Updating'
  BY <1>1 DEF Masking, Updating, Fork, ForkMask
<1>7. NewsOfChildren'
  BY <1>3 DEF IInv, Types, NewsOfChildren
<1>8. ListTracksChildren'
  <2>1. Listed' = Listed
    BY <1>3 DEF Listed
  <2>2. \A q \in Listed : q \in Pids
    BY ListedPids DEF IInv
  <2> QED BY <1>1, <1>3, <1>4, <2>1, <2>2 DEF IInv, ListTracksChildren
<1>9. NoChildForgotten'
  <2>1. Listed' = Listed
    BY <1>3 DEF Listed
  <2> QED BY <1>3, <2>1 DEF IInv, NoChildForgotten
<1>10. NoNewsLost'
  BY <1>1, <1>3 DEF IInv, NoNewsLost
<1> QED BY <1>2, <1>5, <1>6, <1>7, <1>8, <1>9, <1>10 DEF IInv

LEMMA AddJobStepInv == ASSUME IInv, AddJobStep PROVE IInv'
<1>1. /\ frames = << >> /\ frames' = << >> /\ Running = {} /\ Running' = {}
      /\ BeingUpdated = {} /\ BeingUpdated' = {}
  BY DEF AddJobStep, LoopAt, Running, BeingUpdated
<1> DEFINE p == cmd.pid
<1>2. /\ p \in Pids /\ cmd.what \in {"FG", "BG"} /\ pc = "addjob"
      /\ proc[p] \notin {"none", "reaped"}
      /\ \A i \in Slots : jobs[i].pid # p
  BY DEF IInv, Commanded, Unlisted, AddJobStep, LoopAt
<1>3. /\ proc' = proc /\ news' = news /\ pending' = pending /\ cmd' = cmd
      /\ pc' \in {"check", "prompt"} /\ mask' = {}
  BY DEF AddJobStep, kernel
<1>4. /\ jobs \in Tables /\ nextjid \in Nat \ {0}
      /\ jobs' = AddJob(jobs, nextjid, p, cmd.what)
      /\ nextjid' = NextJidAdd(jobs, nextjid)
      /\ FreeSlot(jobs) = 0 => p \in dropped'
      /\ dropped \subseteq dropped' /\ dropped' \subseteq Pids
  BY <1>2 DEF IInv, Types, AddJobStep
<1> HIDE DEF p
<1>5. jobs' \in Tables /\ nextjid' \in Nat \ {0}
  BY <1>2, <1>4, AddJobEffect, NextJidType DEF States
<1>6. Types' /\ Commanded'
  <2>1. /\ mask' \subseteq Signals /\ pc' \in PCs
    BY <1>3 DEF PCs
  <2>2. UNCHANGED <<proc, news, pending, cmd, frames, life, builtins, keys, meddled>>
    BY DEF AddJobStep, kernel, bounds
  <2> QED BY <1>2, <1>3, <1>4, <1>5, <2>1, <2>2 DEF IInv, Types, Commanded, InWindow
<1>7. \/ jobs' = jobs /\ p \in dropped'
      \/ \E i \in Slots : /\ jobs[i].pid = NoPid /\ jobs'[i].pid = p
                          /\ \A k \in Slots \ {i} : jobs'[k].pid = jobs[k].pid
  <2>1. CASE FreeSlot(jobs) = 0
    BY <1>2, <1>4, <2>1, AddJobEffect DEF States
  <2>2. CASE FreeSlot(jobs) # 0
    <3> DEFINE w == cmd.what
    <3>1. w \in States /\ jobs' = AddJob(jobs, nextjid, p, w)
      BY <1>2, <1>4 DEF States
    <3> HIDE DEF w
    <3>2. \E i \in Slots :
            /\ jobs[i].pid = NoPid
            /\ AddJob(jobs, nextjid, p, w)[i].pid = p
            /\ \A k \in Slots \ {i} : AddJob(jobs, nextjid, p, w)[k] = jobs[k]
      BY <1>2, <1>4, <2>2, <3>1, AddJobEffect
    <3> QED BY <3>1, <3>2
  <2> QED BY <2>1, <2>2
<1>8. Unlisted' /\ Masking' /\ Updating' /\ NewsOfChildren' /\ NoNewsLost'
  BY <1>1, <1>3 DEF IInv, Unlisted, Masking, Updating, NewsOfChildren, NoNewsLost
<1>9. \A q : /\ q \in Listed => q \in Listed'
             /\ q \in Listed' => q \in Listed \/ q = p
             /\ p \in Listed' \/ p \in dropped'
  <2>1. CASE jobs' = jobs /\ p \in dropped'
    BY <2>1 DEF Listed
  <2>2. ASSUME NEW i \in Slots, jobs[i].pid = NoPid, jobs'[i].pid = p,
               \A k \in Slots \ {i} : jobs'[k].pid = jobs[k].pid
        PROVE  \A q : /\ q \in Listed => q \in Listed'
                      /\ q \in Listed' => q \in Listed \/ q = p
                      /\ p \in Listed' \/ p \in dropped'
    <3>1. p # NoPid
      BY <1>2, JobsAssumption
    <3> QED BY <2>2, <3>1, ListedIs
  <2> QED BY <1>7, <2>1, <2>2
<1>10. ListTracksChildren'
  <2>1. \A i, k \in Slots :
            jobs'[i].pid = jobs'[k].pid /\ jobs'[i].pid # NoPid => i = k
    BY <1>2, <1>7 DEF IInv, ListTracksChildren
  <2>2. \A q \in Listed' : proc'[q] \in {"none", "reaped"} => q \in BeingUpdated'
    BY <1>1, <1>2, <1>3, <1>9 DEF IInv, ListTracksChildren
  <2> QED BY <2>1, <2>2 DEF ListTracksChildren
<1>11. NoChildForgotten'
  BY <1>3, <1>4, <1>9 DEF IInv, NoChildForgotten, p
<1> QED BY <1>6, <1>8, <1>10, <1>11 DEF IInv

LEMMA LoopInv == ASSUME IInv, LoopStep PROVE IInv'
<1>1. ASSUME CheckFg \/ Suspend \/ LoadPid \/ SetState PROVE IInv'
  <2>1. Commanded' /\ SameAddJob /\ UNCHANGED <<kernel, frames, mask, dropped>>
    BY <1>1 DEF IInv, Types, Commanded, InWindow, SameAddJob, CheckFg, Suspend,
        LoadPid, SetState, LoopAt, table, history
  <2>2. Types' /\ SameEntries
    <3>1. CASE CheckFg \/ Suspend
      BY <3>1 DEF IInv, Types, SameEntries, CheckFg, Suspend, LoopAt, PCs, table,
            kernel, bounds, history
    <3>2. CASE LoadPid
      <4>1. cmd.slot \in Slots /\ jobs[cmd.slot].pid \in Pids \cup {NoPid}
        BY <3>2 DEF IInv, Types, Commanded, InWindow, LoadPid, LoopAt, Tables, Entry
      <4> QED BY <3>2, <4>1 DEF IInv, Types, SameEntries, LoadPid, LoopAt, PCs,
            table, kernel, bounds, history
    <3>3. CASE SetState
      <4>1. cmd.slot \in Slots /\ cmd.what \in States
        BY <3>3 DEF IInv, Commanded, InWindow, SetState, LoopAt, States
      <4>2. jobs' \in Tables /\ SameEntries
        BY <3>3, <4>1 DEF IInv, Types, SetState, SameEntries, Tables, Entry
      <4>3. pc' \in PCs
        BY <3>3 DEF SetState, PCs
      <4> QED BY <3>3, <4>2, <4>3 DEF IInv, Types, SetState, kernel, bounds, history
    <3> QED BY <1>1, <3>1, <3>2, <3>3
  <2> QED BY <2>1, <2>2, LoopAlone
<1>2. ASSUME Continue PROVE IInv'
  <2>1. Types'
    BY <1>2, JobsAssumption DEF IInv, Types, Continue, HasGroup, ProcStates, Signals,
        PCs, table, kernel, bounds, history
  <2>2. Commanded' /\ SameEntries /\ SameAddJob /\ UNCHANGED <<frames, mask, dropped>>
    BY <1>2 DEF IInv, Commanded, InWindow, SameEntries, SameAddJob, Continue,
        LoopAt, table, history
  <2>3. SameChildren /\ NewsOfChildren' /\ NoNewsLost'
    BY <1>2 DEF IInv, Types, SameChildren, NewsOfChildren, NoNewsLost, Continue, kernel
  <2> QED BY <2>1, <2>2, <2>3, SameHandlers
<1> QED BY <1>1, <1>2, ForkInv, AddJobStepInv DEF LoopStep

-----------------------------------------------------------------------------
(* The handlers.  A handler that is not updating the list returns.         *)
LEMMA Returned ==
    ASSUME IInv, frames # << >>, Return, frames[1].at # "update", pc' = pc
    PROVE  /\ frames' \in Seq(Frame) /\ mask' \subseteq Signals
           /\ Masking' /\ BeingUpdated' = BeingUpdated
           /\ \A i \in Running : i # 1 => \E k \in Running' : frames'[k] = frames[i]
           /\ \A k \in Running' : \E i \in Running : frames'[k] = frames[i]
<1>1. /\ frames' \in Seq(Frame)
      /\ \A i \in Running' : i + 1 \in Running /\ frames'[i] = frames[i + 1]
      /\ \A i \in Running : i = 1 \/ (i - 1 \in Running'
                                      /\ frames'[i - 1] = frames[i])
  BY Popped DEF IInv, Return
<1>2. 1 \in Running /\ frames[1] \in Frame /\ mask' = frames[1].saved
  BY Stack DEF IInv, Return
<1>3. Running' \subseteq Nat \ {0}
  BY DEF Running
<1>4. Masking'
  <2>1. ASSUME NEW i \in Running'
        PROVE  /\ frames'[i].sig \in mask'
               /\ frames'[i].sig \notin frames'[i].saved
               /\ pc' = "addjob" => "CHLD" \in frames'[i].saved
    <3>1. 1 < i + 1 /\ i + 1 \in Running /\ frames'[i] = frames[i + 1]
      BY <1>1, <1>3
    <3> QED BY <1>2, <3>1 DEF IInv, Masking
  <2>2. ASSUME NEW i \in Running', NEW k \in Running', i < k
        PROVE  frames'[k].sig \in frames'[i].saved
    <3>1. /\ i + 1 < k + 1 /\ i + 1 \in Running /\ k + 1 \in Running
          /\ frames'[i] = frames[i + 1] /\ frames'[k] = frames[k + 1]
      <4>1. i + 1 < k + 1
        BY <1>3, <2>2
      <4> QED BY <1>1, <4>1
    <3> QED BY <3>1 DEF IInv, Masking
  <2>3. pc' = "addjob" => "CHLD" \in mask'
    BY <1>2 DEF IInv, Masking
  <2> QED BY <2>1, <2>2, <2>3 DEF Masking
<1>5. /\ \A i \in Running : i # 1 => \E k \in Running' : frames'[k] = frames[i]
      /\ \A k \in Running' : \E i \in Running : i # 1 /\ frames'[k] = frames[i]
  <2>1. \A k \in Running' : k + 1 # 1
    BY <1>3
  <2> QED BY <1>1, <2>1
<1>6. BeingUpdated' = BeingUpdated
  <2>1. ASSUME NEW q, q \in BeingUpdated PROVE q \in BeingUpdated'
    <3>1. PICK i \in Running : frames[i].at = "update" /\ frames[i].pid = q
      BY <2>1, BeingUpdatedIs
    <3> QED BY <1>5, <3>1, BeingUpdatedIs
  <2>2. ASSUME NEW q, q \in BeingUpdated' PROVE q \in BeingUpdated
    <3>1. PICK k \in Running' : frames'[k].at = "update" /\ frames'[k].pid = q
      BY <2>2, BeingUpdatedIs
    <3> QED BY <1>5, <3>1, BeingUpdatedIs
  <2> QED BY <2>1, <2>2
<1>7. frames[1].saved \subseteq Signals
  BY <1>2 DEF Frame
<1> QED BY <1>1, <1>2, <1>4, <1>5, <1>6, <1>7

(* The step of a handler that returns.                                     *)
LEMMA ReturnInv ==
    ASSUME IInv, frames # << >>, Return, frames[1].at # "update",
           proc' \in [Pids -> ProcStates], news' \subseteq Pids,
           pending' \subseteq Signals, SameChildren, NewsOfChildren',
           news' # {} => \/ "CHLD" \in pending'
                         \/ /\ news' = news /\ pending' = pending
                            /\ frames[1].sig # "CHLD",
           UNCHANGED <<table, pc, cmd, life, bounds, history>>
    PROVE  IInv'
<1>1. /\ frames' \in Seq(Frame) /\ mask' \subseteq Signals
      /\ Masking' /\ BeingUpdated' = BeingUpdated
      /\ \A i \in Running : i # 1 => \E k \in Running' : frames'[k] = frames[i]
      /\ \A k \in Running' : \E i \in Running : frames'[k] = frames[i]
  BY Returned
<1>2. Types' /\ Commanded' /\ SameEntries /\ SameAddJob /\ dropped' = dropped
  BY <1>1 DEF IInv, Types, Commanded, InWindow, SameEntries, SameAddJob, table,
        bounds, history
<1>3. Unlisted' /\ ListTracksChildren' /\ NoChildForgotten'
  BY <1>1, <1>2, SameList
<1>4. Updating'
  <2> SUFFICES ASSUME NEW k \in Running'
               PROVE  /\ frames'[k].at = "kill" => frames'[k].pid \in Pids
                      /\ frames'[k].at = "update" =>
                        /\ frames'[k].sig = "CHLD"
                        /\ frames'[k].pid \in Pids
                        /\ frames'[k].status = "ended" =>
                            proc'[frames'[k].pid] = "reaped"
                        /\ frames'[k].status # "ended" =>
                            proc'[frames'[k].pid] \notin {"none", "reaped"}
    BY DEF Updating
  <2>1. PICK i \in Running : frames'[k] = frames[i]
    BY <1>1
  <2> QED BY <2>1 DEF IInv, Updating, SameChildren
<1>5. NoNewsLost'
  <2>1. ASSUME news # {}, "CHLD" \notin pending, frames[1].sig # "CHLD"
        PROVE  \E k \in Running' : frames'[k].sig = "CHLD"
    <3>1. PICK i \in Running : frames[i].sig = "CHLD"
      BY <2>1 DEF IInv, NoNewsLost, Running
    <3> QED BY <1>1, <2>1, <3>1
  <2> QED BY <2>1 DEF NoNewsLost, Running
<1> QED BY <1>1, <1>2, <1>3, <1>4, <1>5 DEF IInv

LEMMA WaitPidDoneInv == ASSUME IInv, WaitPidDone PROVE IInv'
<1>1. /\ frames # << >> /\ Return /\ news = {}
      /\ frames[1].at = "start"
  BY Stack DEF IInv, WaitPidDone, HandlerAt
<1>2. /\ UNCHANGED <<proc, news, pending>>
      /\ UNCHANGED <<table, pc, cmd, life, bounds, history>>
  BY DEF WaitPidDone, kernel
<1>3. /\ proc' \in [Pids -> ProcStates] /\ news' \subseteq Pids
      /\ pending' \subseteq Signals /\ SameChildren /\ NewsOfChildren'
  BY <1>2 DEF IInv, Types, SameChildren, NewsOfChildren
<1> QED BY <1>1, <1>2, <1>3, ReturnInv

LEMMA ForwardInv == ASSUME IInv, NEW sig \in {"INT", "TSTP"}, Forward(sig) PROVE IInv'
<1> DEFINE p == Head(frames).pid
<1>1. /\ frames # << >> /\ frames[1].at = "kill" /\ frames[1].sig = sig
      /\ p \in Pids
  <2>1. /\ frames # << >> /\ Head(frames).at = "kill" /\ Head(frames).sig = sig
    BY DEF Forward, HandlerAt
  <2> QED BY <2>1, Stack DEF IInv, Updating
<1>2. UNCHANGED <<table, pc, cmd, bounds, history>>
  BY DEF Forward
<1> HIDE DEF p
<1>3. CASE ~HasGroup(p)
  <2>1. life' = "kill error" /\ UNCHANGED <<kernel, frames, mask>>
    BY <1>3 DEF Forward, p
  <2>2. Types' /\ Commanded'
    BY <1>2, <2>1 DEF IInv, Types, Commanded, InWindow, kernel, table, bounds, history
  <2>3. SameEntries /\ SameAddJob /\ dropped' = dropped
    BY <1>2 DEF SameEntries, SameAddJob, table, history
  <2> QED BY <2>1, <2>2, <2>3, LoopAlone
<1>4. CASE HasGroup(p)
  <2>1. /\ Return /\ life' = life
        /\ \/ /\ proc[p] = "running"
              /\ proc' = [proc EXCEPT ![p] = IF sig = "INT" THEN "zombie"
                                             ELSE "stopped"]
              /\ Tell(p)
           \/ UNCHANGED <<proc, news, pending>>
    BY <1>4 DEF Forward, p, kernel
  <2>2. /\ proc' \in [Pids -> ProcStates] /\ news' \subseteq Pids
        /\ pending' \subseteq Signals /\ SameChildren
    BY <1>1, <2>1 DEF IInv, Types, ProcStates, Signals, SameChildren, Tell
  <2>3. NewsOfChildren'
    BY <1>1, <2>1 DEF IInv, Types, NewsOfChildren, Tell
  <2>4. news' # {} => \/ "CHLD" \in pending'
                      \/ /\ news' = news /\ pending' = pending
                         /\ frames[1].sig # "CHLD"
    BY <1>1, <2>1 DEF Tell
  <2> QED BY <1>1, <1>2, <2>1, <2>2, <2>3, <2>4, ReturnInv
<1> QED BY <1>3, <1>4

(* A handler starts on top of the stack.                                   *)
LEMMA DeliverInv == ASSUME IInv, NEW sig \in Signals, Deliver(sig) PROVE IInv'
<1> DEFINE x == [sig |-> sig, at |-> "start", pid |-> NoPid, status |-> "none",
                 saved |-> mask]
<1>1. x \in Frame /\ frames' = <<x>> \o frames
  BY DEF IInv, Types, Frame, Deliver
<1>2. /\ x.sig = sig /\ x.at = "start" /\ x.saved = mask
      /\ sig \in pending /\ sig \notin mask
      /\ pending' = pending \ {sig} /\ mask' = mask \cup {sig}
      /\ pc' = IF pc = "suspended" THEN "check" ELSE pc
      /\ UNCHANGED <<jobs, nextjid, proc, news, cmd, life, builtins, keys, meddled,
                     dropped>>
  BY DEF Deliver, table, bounds, history
<1> HIDE DEF x
<1>3. /\ frames' \in Seq(Frame)
      /\ 1 \in Running' /\ frames'[1] = x
      /\ \A i \in Running' : i = 1 \/ (i - 1 \in Running
                                     /\ frames'[i] = frames[i - 1])
      /\ \A i \in Running : i + 1 \in Running' /\ frames'[i + 1] = frames[i]
  BY <1>1, Pushed DEF IInv
<1>4. Types' /\ Commanded' /\ SameEntries /\ SameChildren /\ SameAddJob
  BY <1>2, <1>3 DEF IInv, Types, Commanded, InWindow, SameEntries, SameChildren,
        SameAddJob, PCs
<1>5. Masking'
  <2>1. ASSUME NEW i \in Running'
        PROVE  /\ frames'[i].sig \in mask'
               /\ frames'[i].sig \notin frames'[i].saved
               /\ pc' = "addjob" => "CHLD" \in frames'[i].saved
    <3>1. CASE i = 1
      BY <1>2, <1>3, <3>1 DEF IInv, Masking
    <3>2. CASE i - 1 \in Running /\ frames'[i] = frames[i - 1]
      BY <1>2, <3>2 DEF IInv, Masking
    <3> QED BY <1>3, <3>1, <3>2
  <2>2. ASSUME NEW i \in Running', NEW k \in Running', i < k
        PROVE  frames'[k].sig \in frames'[i].saved
    <3>1. k # 1 /\ (i # 1 => i - 1 < k - 1)
      BY <2>2 DEF Running
    <3>2. k - 1 \in Running /\ frames'[k] = frames[k - 1]
      BY <1>3, <3>1
    <3>3. CASE i = 1
      BY <1>2, <1>3, <3>2, <3>3 DEF IInv, Masking
    <3>4. CASE i # 1
      <4>1. i - 1 \in Running /\ frames'[i] = frames[i - 1]
        BY <1>3, <3>4
      <4> QED BY <3>1, <3>2, <3>4, <4>1 DEF IInv, Masking
    <3> QED BY <3>3, <3>4
  <2>3. pc' = "addjob" => "CHLD" \in mask'
    BY <1>2 DEF IInv, Masking
  <2> QED BY <2>1, <2>2, <2>3 DEF Masking
<1>6. Updating'
  <2> SUFFICES ASSUME NEW i \in Running'
               PROVE  /\ frames'[i].at = "kill" => frames'[i].pid \in Pids
                      /\ frames'[i].at = "update" =>
                        /\ frames'[i].sig = "CHLD"
                        /\ frames'[i].pid \in Pids
                        /\ frames'[i].status = "ended" =>
                            proc'[frames'[i].pid] = "reaped"
                        /\ frames'[i].status # "ended" =>
                            proc'[frames'[i].pid] \notin {"none", "reaped"}
    BY DEF Updating
  <2>1. CASE i = 1
    BY <1>2, <1>3, <2>1
  <2>2. CASE i - 1 \in Running /\ frames'[i] = frames[i - 1]
    BY <1>2, <2>2 DEF IInv, Updating
  <2> QED BY <1>3, <2>1, <2>2
<1>7. BeingUpdated' = BeingUpdated
  <2>1. ASSUME NEW q, q \in BeingUpdated PROVE q \in BeingUpdated'
    <3>1. PICK i \in Running : frames[i].at = "update" /\ frames[i].pid = q
      BY <2>1, BeingUpdatedIs
    <3> QED BY <1>3, <3>1, BeingUpdatedIs
  <2>2. ASSUME NEW q, q \in BeingUpdated' PROVE q \in BeingUpdated
    <3>1. PICK i \in Running' : frames'[i].at = "update" /\ frames'[i].pid = q
      BY <2>2, BeingUpdatedIs
    <3>2. i # 1
      BY <1>2, <1>3, <3>1
    <3> QED BY <1>3, <3>1, <3>2, BeingUpdatedIs
  <2> QED BY <2>1, <2>2
<1>8. Unlisted' /\ ListTracksChildren' /\ NoChildForgotten'
  BY <1>2, <1>4, <1>7, SameList
<1>9. NewsOfChildren'
  BY <1>2 DEF IInv, NewsOfChildren
<1>10. NoNewsLost'
  <2>1. CASE sig = "CHLD"
    BY <1>2, <1>3, <2>1 DEF NoNewsLost, Running
  <2>2. ASSUME NEW i \in Running, frames[i].sig = "CHLD"
        PROVE  \E k \in Running' : frames'[k].sig = "CHLD"
    BY <1>3, <2>2
  <2> QED BY <1>2, <2>1, <2>2 DEF IInv, NoNewsLost, Running
<1> QED BY <1>4, <1>5, <1>6, <1>8, <1>9, <1>10 DEF IInv

(* A handler that goes on keeps its signal and the mask it saved.          *)
LEMMA GoneMasking ==
    ASSUME IInv, frames # << >>, UNCHANGED <<mask, pc>>,
           NEW l \in {"start", "update", "kill"}, NEW p \in Pids \cup {NoPid},
           NEW s \in {"none", "ended", "stopped"}, Go(l, p, s)
    PROVE  /\ Masking'
           /\ \A i \in Running : frames'[i].sig = frames[i].sig
<1>1. /\ Running' = Running
      /\ \A i \in Running : /\ frames'[i].sig = frames[i].sig
                            /\ frames'[i].saved = frames[i].saved
  BY Gone DEF IInv
<1> QED BY <1>1 DEF IInv, Masking

LEMMA FindFgInv == ASSUME IInv, NEW sig \in {"INT", "TSTP"}, FindFg(sig) PROVE IInv'
<1>1. /\ frames # << >> /\ frames[1].at = "start" /\ frames[1].sig = sig
      /\ 1 \in Running
  BY Stack DEF IInv, FindFg, HandlerAt
<1>2. UNCHANGED <<table, kernel, pc, cmd, life, bounds, history>>
  BY DEF FindFg
<1>3. CASE FgPid(jobs) = NoPid
  <2>1. Return
    BY <1>3 DEF FindFg
  <2>2. /\ UNCHANGED <<proc, news, pending>> /\ SameChildren
        /\ proc' \in [Pids -> ProcStates] /\ news' \subseteq Pids
        /\ pending' \subseteq Signals /\ NewsOfChildren'
    BY <1>2 DEF IInv, Types, SameChildren, NewsOfChildren, kernel
  <2>3. news' # {} => /\ news' = news /\ pending' = pending
                      /\ frames[1].sig # "CHLD"
    BY <1>1, <2>2
  <2> QED BY <1>1, <1>2, <2>1, <2>2, <2>3, ReturnInv
<1>4. CASE FgPid(jobs) # NoPid
  <2> DEFINE p == FgPid(jobs)
  <2>1. p \in Pids
    BY <1>4, FgPidType DEF IInv, Types
  <2>2. Go("kill", p, "none") /\ mask' = mask
    BY <1>4 DEF FindFg
  <2> HIDE DEF p
  <2>3. /\ frames' \in Seq(Frame)
        /\ Running' = Running
        /\ frames'[1].sig = frames[1].sig
        /\ frames'[1].at = "kill" /\ frames'[1].pid = p
        /\ \A i \in Running : i # 1 => frames'[i] = frames[i]
    BY <1>1, <2>1, <2>2, Gone DEF IInv
  <2>4. Masking' /\ \A i \in Running : frames'[i].sig = frames[i].sig
    BY <1>1, <1>2, <2>1, <2>2, GoneMasking
  <2>5. Types' /\ Commanded' /\ SameEntries /\ SameChildren /\ SameAddJob
    BY <1>2, <2>2, <2>3 DEF IInv, Types, Commanded, InWindow, SameEntries,
        SameChildren, SameAddJob, table, kernel, bounds, history
  <2>6. BeingUpdated' = BeingUpdated
    <3>1. \A q : q \in BeingUpdated => q \in BeingUpdated'
      BY <1>1, <2>3, BeingUpdatedIs
    <3>2. \A q : q \in BeingUpdated' => q \in BeingUpdated
      BY <1>1, <2>3, BeingUpdatedIs
    <3> QED BY <3>1, <3>2
  <2>7. Updating'
    BY <1>1, <1>2, <2>1, <2>3 DEF IInv, Updating, kernel
  <2>8. Unlisted' /\ ListTracksChildren' /\ NoChildForgotten'
    BY <1>2, <2>5, <2>6, SameList DEF history
  <2>9. NewsOfChildren' /\ NoNewsLost'
    BY <1>2, <2>3, <2>4 DEF IInv, NewsOfChildren, NoNewsLost, Running, kernel
  <2> QED BY <2>4, <2>5, <2>7, <2>8, <2>9 DEF IInv
<1> QED BY <1>3, <1>4

(* The handler of SIGCHLD is the innermost: no other is updating the list, *)
(* and the loop is not at addjob.                                          *)
LEMMA InHandler ==
    ASSUME IInv, NEW l, HandlerAt("CHLD", l)
    PROVE  /\ frames # << >> /\ 1 \in Running /\ Head(frames) = frames[1]
           /\ frames[1].at = l /\ frames[1].sig = "CHLD"
           /\ \A i \in Running : i # 1 => frames[i].sig # "CHLD"
                                          /\ frames[i].at # "update"
           /\ pc # "addjob"
<1>1. /\ frames # << >> /\ 1 \in Running /\ Head(frames) = frames[1]
      /\ frames[1].at = l /\ frames[1].sig = "CHLD"
  BY Stack DEF IInv, HandlerAt
<1>2. /\ \A i \in Running : i # 1 => frames[i].sig # "CHLD"
      /\ pc # "addjob"
  BY <1>1, OneHandler DEF IInv
<1>3. \A i \in Running : i # 1 => frames[i].at # "update"
  BY <1>2 DEF IInv, Updating
<1> QED BY <1>1, <1>2, <1>3

LEMMA WaitPidInv == ASSUME IInv, NEW p \in Pids, WaitPid(p) PROVE IInv'
<1> DEFINE s == IF proc[p] = "zombie" THEN "ended" ELSE "stopped"
<1>1. /\ frames # << >> /\ 1 \in Running
      /\ frames[1].at = "start" /\ frames[1].sig = "CHLD"
      /\ \A i \in Running : i # 1 => frames[i].sig # "CHLD"
                                     /\ frames[i].at # "update"
      /\ pc # "addjob"
  BY InHandler DEF WaitPid
<1>2. /\ p \in news /\ news' = news \ {p}
      /\ proc' = [proc EXCEPT ![p] = IF @ = "zombie" THEN "reaped" ELSE @]
      /\ Go("update", p, s)
      /\ UNCHANGED <<jobs, nextjid, pending, mask, pc, cmd, life, builtins, keys,
                     meddled, dropped>>
  BY DEF WaitPid, table, bounds, history
<1>3. s \in {"ended", "stopped"} /\ (s = "ended" <=> proc[p] = "zombie")
  OBVIOUS
<1> HIDE DEF s
<1>4. /\ frames' \in Seq(Frame)
      /\ Running' = Running
      /\ frames'[1].sig = frames[1].sig
      /\ frames'[1].at = "update" /\ frames'[1].pid = p /\ frames'[1].status = s
      /\ \A i \in Running : i # 1 => frames'[i] = frames[i]
  BY <1>1, <1>2, <1>3, Gone DEF IInv
<1>5. /\ proc' \in [Pids -> ProcStates]
      /\ proc[p] \notin {"none", "reaped"}
      /\ proc[p] = "zombie" => proc'[p] = "reaped"
      /\ proc[p] # "zombie" => proc'[p] = proc[p]
      /\ \A q \in Pids : q # p => proc'[q] = proc[q]
  BY <1>2 DEF IInv, Types, ProcStates, NewsOfChildren
<1>6. Types' /\ Commanded'
  BY <1>2, <1>4, <1>5 DEF IInv, Types, Commanded, InWindow
<1>7. Masking'
  BY <1>1, <1>2, <1>3, GoneMasking
<1>8. Updating'
  BY <1>1, <1>3, <1>4, <1>5 DEF IInv, Updating
<1>9. Unlisted' /\ NewsOfChildren' /\ NoNewsLost'
  BY <1>1, <1>2, <1>4, <1>5 DEF IInv, Types, Unlisted, NewsOfChildren, NoNewsLost,
        Running
<1>10. Listed' = Listed /\ p \in BeingUpdated' /\ BeingUpdated = {}
  <2>1. p \in BeingUpdated'
    BY <1>1, <1>4, BeingUpdatedIs
  <2>2. \A q : q \notin BeingUpdated
    BY <1>1, BeingUpdatedIs
  <2> QED BY <1>2, <2>1, <2>2 DEF Listed
<1>11. ListTracksChildren'
  <2>1. Listed \subseteq Pids
    BY ListedPids DEF IInv
  <2> QED BY <1>2, <1>5, <1>10, <2>1 DEF IInv, ListTracksChildren
<1>12. NoChildForgotten'
  BY <1>1, <1>2, <1>5, <1>10 DEF IInv, NoChildForgotten
<1> QED BY <1>6, <1>7, <1>8, <1>9, <1>11, <1>12 DEF IInv

LEMMA UpdateJobInv == ASSUME IInv, UpdateJob PROVE IInv'
<1> DEFINE p == frames[1].pid
<1>1. /\ frames # << >> /\ 1 \in Running /\ Head(frames) = frames[1]
      /\ frames[1].at = "update" /\ frames[1].sig = "CHLD"
      /\ \A i \in Running : i # 1 => frames[i].sig # "CHLD"
                                     /\ frames[i].at # "update"
      /\ pc # "addjob"
  BY InHandler DEF UpdateJob
<1>2. /\ p \in Pids
      /\ frames[1].status = "ended" => proc[p] = "reaped"
      /\ frames[1].status # "ended" => proc[p] \notin {"none", "reaped"}
  BY <1>1 DEF IInv, Updating
<1>3. /\ Go("start", NoPid, "none")
      /\ meddled' = (meddled \/ (InWindow /\ GetJobPid(jobs, p) # 0
                                 /\ GetJobPid(jobs, p) = cmd.slot))
      /\ UNCHANGED <<proc, news, pending, mask, pc, cmd, builtins, keys, dropped>>
  BY <1>1 DEF UpdateJob, kernel, bounds
<1>4. \/ /\ frames[1].status = "ended"
         /\ jobs' = DeleteJob(jobs, p)
         /\ nextjid' = NextJidDelete(jobs, nextjid, p)
         /\ life' = life
      \/ /\ frames[1].status # "ended" /\ GetJobPid(jobs, p) # 0
         /\ jobs' = [jobs EXCEPT ![GetJobPid(jobs, p)].state = "ST"]
         /\ nextjid' = nextjid /\ life' = life
      \/ /\ frames[1].status # "ended"
         /\ jobs' = jobs /\ nextjid' = nextjid
         /\ life' = "null dereferenced"
  BY <1>1 DEF UpdateJob, table
<1>5. BeingUpdated = {p}
  <2>1. \A q : q \in BeingUpdated <=> q = p
    BY <1>1, BeingUpdatedIs
  <2> QED BY <2>1
<1> HIDE DEF p
<1>6. /\ frames' \in Seq(Frame)
      /\ Running' = Running
      /\ frames'[1].sig = frames[1].sig /\ frames'[1].at = "start"
      /\ \A i \in Running : i # 1 => frames'[i] = frames[i]
  BY <1>1, <1>3, Gone DEF IInv
<1>7. BeingUpdated' = {}
  <2>1. \A q : q \notin BeingUpdated'
    BY <1>1, <1>6, BeingUpdatedIs
  <2> QED BY <2>1
<1>8. Masking'
  BY <1>1, <1>3, GoneMasking
<1>9. /\ jobs' \in Tables /\ nextjid' \in Nat \ {0}
      /\ \A i \in Slots : jobs'[i].pid = jobs[i].pid \/ jobs'[i].pid = NoPid
      /\ \A i \in Slots : jobs[i].pid # p => jobs'[i].pid = jobs[i].pid
      /\ frames[1].status = "ended" => \A i \in Slots : jobs'[i].pid # p
      /\ frames[1].status # "ended" => SameEntries
  <2>1. jobs \in Tables /\ nextjid \in Nat \ {0} /\ p # NoPid
    BY <1>2, JobsAssumption DEF IInv, Types
  <2>2. CASE frames[1].status = "ended"
    <3>1. jobs' \in Tables /\ nextjid' \in Nat \ {0}
      BY <1>2, <1>4, <2>1, <2>2, DeleteJobEffect, NextJidType
    <3>2. CASE jobs' = jobs /\ \A i \in Slots : jobs[i].pid # p
      BY <2>2, <3>1, <3>2
    <3>3. CASE \E i \in Slots : /\ jobs[i].pid = p
                                /\ jobs'[i].pid = NoPid
                                /\ \A k \in Slots \ {i} : jobs'[k] = jobs[k]
      <4>1. PICK i \in Slots : /\ jobs[i].pid = p
                               /\ jobs'[i].pid = NoPid
                               /\ \A k \in Slots \ {i} : jobs'[k] = jobs[k]
        BY <3>3
      <4>2. \A k \in Slots : jobs[k].pid = p => k = i
        BY <2>1, <4>1 DEF IInv, ListTracksChildren
      <4> QED BY <2>1, <2>2, <3>1, <4>1, <4>2
    <3> QED BY <1>2, <1>4, <2>1, <2>2, <3>2, <3>3, DeleteJobEffect
  <2>3. CASE frames[1].status # "ended" /\ GetJobPid(jobs, p) # 0
    <3> DEFINE i == GetJobPid(jobs, p)
    <3>1. i \in Slots
      BY <1>2, <2>1, <2>3, GetJobPidFound
    <3>2. jobs' = [jobs EXCEPT ![i].state = "ST"] \/ jobs' = jobs
      BY <1>4, <2>3
    <3>3. nextjid' = nextjid
      BY <1>4, <2>3
    <3> HIDE DEF i
    <3>4. jobs' \in Tables /\ \A k \in Slots : jobs'[k].pid = jobs[k].pid
      BY <2>1, <3>1, <3>2 DEF Tables, Entry, States
    <3> QED BY <2>1, <2>3, <3>3, <3>4 DEF SameEntries
  <2>4. CASE frames[1].status # "ended" /\ GetJobPid(jobs, p) = 0
    BY <1>4, <2>1, <2>4 DEF SameEntries
  <2> QED BY <2>2, <2>3, <2>4
<1>10. Types' /\ Commanded'
  BY <1>3, <1>4, <1>6, <1>9 DEF IInv, Types, Commanded, InWindow
<1>11. Updating'
  BY <1>1, <1>3, <1>6 DEF IInv, Updating
<1>12. Unlisted' /\ NewsOfChildren' /\ NoNewsLost'
  BY <1>1, <1>3, <1>6 DEF Unlisted, IInv, NewsOfChildren, NoNewsLost, Running
<1>13. ListTracksChildren'
  <2>1. \A i, k \in Slots :
            jobs'[i].pid = jobs'[k].pid /\ jobs'[i].pid # NoPid => i = k
    BY <1>9 DEF IInv, ListTracksChildren
  <2>2. ASSUME NEW q \in Listed', proc[q] \in {"none", "reaped"} PROVE FALSE
    <3>1. PICK i \in Slots : jobs'[i].pid = q /\ q # NoPid
      BY <2>2, ListedIs
    <3>2. jobs[i].pid = q /\ q \in Listed
      BY <1>9, <3>1, ListedIs
    <3>3. q = p
      BY <1>5, <2>2, <3>2 DEF IInv, ListTracksChildren
    <3> QED BY <1>2, <1>9, <2>2, <3>1, <3>3
  <2> QED BY <1>3, <2>1, <2>2 DEF ListTracksChildren
<1>14. NoChildForgotten'
  <2>1. ASSUME NEW q \in Listed, q \notin Listed' PROVE q = p /\ proc[p] = "reaped"
    <3>1. PICK i \in Slots : jobs[i].pid = q /\ q # NoPid
      BY <2>1, ListedIs
    <3>2. jobs'[i].pid # q
      BY <2>1, <3>1, ListedIs
    <3> QED BY <1>2, <1>9, <3>1, <3>2 DEF SameEntries
  <2> QED BY <1>1, <1>3, <2>1 DEF IInv, NoChildForgotten
<1> QED BY <1>8, <1>10, <1>11, <1>12, <1>13, <1>14 DEF IInv

-----------------------------------------------------------------------------
LEMMA InitIInv == Init => IInv
<1> SUFFICES ASSUME Init PROVE IInv
  OBVIOUS
<1>1. frames = << >> /\ Running = {} /\ BeingUpdated = {}
  BY DEF Init, Running, BeingUpdated
<1>2. jobs \in Tables /\ \A i \in Slots : jobs[i].pid = NoPid
  BY DEF Init, NoJobs, Tables, Entry, States
<1>3. Listed = {}
  BY <1>2 DEF Listed
<1>4. frames \in Seq(Frame)
  BY <1>1, EmptySeq
<1>5. Types /\ Commanded
  <2>1. builtins \in 0 .. MaxBuiltins /\ keys \in 0 .. MaxKeys
    BY BoundsAssumption DEF Init
  <2>2. proc \in [Pids -> ProcStates] /\ pc \in PCs
    BY DEF Init, PCs, ProcStates
  <2>3. cmd \in [what : {"none", "FG", "BG"}, pid : Pids \cup {NoPid},
                slot : Slots \cup {0}]
    BY DEF Init, NoCmd
  <2>4. /\ nextjid \in Nat \ {0} /\ news = {} /\ pending = {} /\ mask = {}
        /\ life = "running" /\ dropped = {} /\ pc = "prompt"
    BY DEF Init
  <2>5. meddled \in BOOLEAN
    BY Zenon DEF Init
  <2> QED BY <1>2, <1>4, <2>1, <2>2, <2>3, <2>4, <2>5 DEF Types, Commanded, InWindow
<1>6. Unlisted /\ Masking /\ Updating /\ NewsOfChildren /\ NoNewsLost
  BY <1>1 DEF Init, Unlisted, Masking, Updating, NewsOfChildren, NoNewsLost
<1>7. ListTracksChildren
  BY <1>2, <1>3 DEF ListTracksChildren
<1>8. NoChildForgotten
  BY DEF Init, NoChildForgotten
<1> QED BY <1>5, <1>6, <1>7, <1>8 DEF IInv

LEMMA StutterInv == ASSUME IInv, UNCHANGED vars PROVE IInv'
<1>1. UNCHANGED <<jobs, nextjid, proc, news, pending, mask, pc, cmd, frames, life,
                  builtins, keys, meddled, dropped>>
  BY DEF vars, table, kernel, bounds, history
<1>2. Types' /\ Commanded' /\ SameEntries /\ SameAddJob
  BY <1>1 DEF IInv, Types, Commanded, InWindow, SameEntries, SameAddJob
<1> QED BY <1>1, <1>2, LoopAlone DEF kernel

LEMMA IInvStep == IInv /\ [Next]_vars => IInv'
<1> SUFFICES ASSUME IInv, [Next]_vars PROVE IInv'
  OBVIOUS
<1>1. CASE LoopStep
  BY <1>1, LoopInv
<1>2. CASE HandlerStep
  <2>1. ASSUME NEW p \in Pids, WaitPid(p) PROVE IInv'
    BY <2>1, WaitPidInv
  <2>2. ASSUME NEW sig \in {"INT", "TSTP"}, FindFg(sig) \/ Forward(sig) PROVE IInv'
    BY <2>2, FindFgInv, ForwardInv
  <2> QED BY <1>2, <2>1, <2>2, UpdateJobInv, WaitPidDoneInv DEF HandlerStep
<1>3. CASE Command
  BY <1>3, CommandInv
<1>4. CASE Child
  BY <1>4, ChildInv
<1>5. CASE Ended \/ Hang \/ UNCHANGED vars
  BY <1>5, StutterInv DEF Ended, Hang
<1>6. ASSUME NEW sig \in Signals, Deliver(sig) PROVE IInv'
  BY <1>6, DeliverInv
<1>7. ASSUME NEW sig \in {"INT", "TSTP"}, Key(sig) PROVE IInv'
  BY <1>7, KeyInv
<1> QED BY <1>1, <1>2, <1>3, <1>4, <1>5, <1>6, <1>7 DEF Next

THEOREM Invariance == Spec => []IInv
BY InitIInv, IInvStep, PTL DEF Spec

(* The state has the types that are written down, and there is at most one *)
(* handler of each signal on the stack, for the kernel blocks its signal.  *)
THEOREM TypeCorrect == Spec => []TypeOK
<1>1. IInv => TypeOK
  <2> SUFFICES ASSUME IInv PROVE TypeOK
    OBVIOUS
  <2>1. \A i, k \in 1 .. Len(frames) : frames[i].sig = frames[k].sig => i = k
    BY OneHandler DEF IInv, Running
  <2> QED BY <2>1 DEF IInv, Types, Tables, TypeOK
<1> QED BY <1>1, Invariance, PTL

(* The list never has a child twice, nor one that was reaped, but for the  *)
(* entry that the handler is about to delete: addjob never comes after     *)
(* deletejob, whatever signals arrive between fork and addjob.             *)
THEOREM ListTracksChildrenHolds == Spec => []ListTracksChildren
<1>1. IInv => ListTracksChildren
  BY DEF IInv
<1> QED BY <1>1, Invariance, PTL

(* Every child that lives is in the list, unless addjob found it full.     *)
THEOREM NoChildForgottenHolds == Spec => []NoChildForgotten
<1>1. IInv => NoChildForgotten
  BY DEF IInv
<1> QED BY <1>1, Invariance, PTL

(* No end or stop of a child is lost, though pending signals do not count: *)
(* SIGCHLD is pending or its handler is about to ask waitpid again.        *)
THEOREM NoNewsLostHolds == Spec => []NoNewsLost
<1>1. IInv => NoNewsLost
  BY DEF IInv
<1> QED BY <1>1, Invariance, PTL
-----------------------------------------------------------------------------
(* Why the list is sound unless a handler meddles.  waitpid tells of stops *)
(* and ends only, and a process it has told of stays stopped until the     *)
(* handler has entered that in the list: the loop, which alone continues   *)
(* processes, waits for the handler.                                       *)
ReportedStops ==
    /\ \A p \in news : proc[p] \in {"stopped", "zombie"}
    /\ \A i \in Running :
        frames[i].at = "update" /\ frames[i].status # "ended" =>
            proc[frames[i].pid] = "stopped"

(* do_bgfg's entry is a job's, and the one whose process it continues.     *)
Window ==
    InWindow => /\ jobs[cmd.slot].pid # NoPid
                /\ pc # "loadpid" => cmd.pid = jobs[cmd.slot].pid

(* The stop of a process that was just started or continued has not made   *)
(* it into the list.                                                       *)
Untold ==
    pc \in {"addjob", "setstate"} /\ proc[cmd.pid] = "stopped" =>
        cmd.pid \in news \cup BeingUpdated

(* An entry is a job's or cleared.                                         *)
Entries ==
    \A i \in Slots : /\ (jobs[i].pid = NoPid) <=> (jobs[i].state = "UNDEF")
                     /\ jobs[i].pid = NoPid => jobs[i].jid = 0

(* A foreground job is there only while waitfg waits for it.               *)
InWaitfg == pc \in {"check", "suspend", "suspended"}
OneFg == AtMostOneFg /\ (InWaitfg \/ \A i \in Slots : jobs[i].state # "FG")

(* An entry agrees with its process unless there is news of it, or do_bgfg *)
(* has continued it and not yet said so.                                   *)
Agree ==
    \A i \in Slots :
        \/ jobs[i].pid \in {NoPid} \cup news \cup BeingUpdated
        \/ pc = "setstate" /\ i = cmd.slot
        \/ (jobs[i].state = "ST") <=> (proc[jobs[i].pid] = "stopped")

Sound == ReportedStops /\ (~meddled => Window /\ Untold /\ Entries /\ OneFg /\ Agree)

LEMMA NoFg ==
    ASSUME Types, Entries
    PROVE  FgPid(jobs) = NoPid <=> \A i \in Slots : jobs[i].state # "FG"
<1>1. \A i \in Slots : jobs[i].state = "FG" => jobs[i].pid # NoPid
  BY DEF Entries
<1> QED BY <1>1, FgPidNone DEF Types

(* No step but waitpid's and the one after it changes what is being        *)
(* updated.                                                                *)
LEMMA SameUpdates ==
    ASSUME IInv, Next, ~UpdateJob, \A p \in Pids : ~WaitPid(p)
    PROVE  /\ BeingUpdated' = BeingUpdated
           /\ \A k \in Running' : frames'[k].at = "update" =>
                \E i \in Running : frames'[k] = frames[i]
<1>1. CASE frames' = frames
  BY <1>1 DEF BeingUpdated, Running
<1>2. ASSUME NEW sig \in Signals, Deliver(sig)
      PROVE  \A q : q \in BeingUpdated' <=> q \in BeingUpdated
  <2> DEFINE x == [sig |-> sig, at |-> "start", pid |-> NoPid, status |-> "none",
                   saved |-> mask]
  <2>1. x \in Frame /\ frames' = <<x>> \o frames /\ x.at = "start"
    BY <1>2 DEF IInv, Types, Frame, Deliver
  <2> HIDE DEF x
  <2>2. /\ frames'[1] = x
        /\ \A i \in Running' : i = 1 \/ (i - 1 \in Running
                                        /\ frames'[i] = frames[i - 1])
        /\ \A i \in Running : i + 1 \in Running' /\ frames'[i + 1] = frames[i]
    BY <2>1, Pushed DEF IInv
  <2>3. ASSUME NEW q, q \in BeingUpdated PROVE q \in BeingUpdated'
    <3>1. PICK i \in Running : frames[i].at = "update" /\ frames[i].pid = q
      BY <2>3, BeingUpdatedIs
    <3> QED BY <2>2, <3>1, BeingUpdatedIs
  <2>4. ASSUME NEW q, q \in BeingUpdated' PROVE q \in BeingUpdated
    <3>1. PICK i \in Running' : frames'[i].at = "update" /\ frames'[i].pid = q
      BY <2>4, BeingUpdatedIs
    <3>2. i # 1
      BY <2>1, <2>2, <3>1
    <3> QED BY <2>2, <3>1, <3>2, BeingUpdatedIs
  <2> QED BY <2>3, <2>4
<1>3. ASSUME NEW sig \in Signals, Deliver(sig), NEW k \in Running',
             frames'[k].at = "update"
      PROVE  \E i \in Running : frames'[k] = frames[i]
  <2> DEFINE x == [sig |-> sig, at |-> "start", pid |-> NoPid, status |-> "none",
                   saved |-> mask]
  <2>1. x \in Frame /\ frames' = <<x>> \o frames /\ x.at = "start"
    BY <1>3 DEF IInv, Types, Frame, Deliver
  <2> HIDE DEF x
  <2>2. /\ frames'[1] = x
        /\ \A i \in Running' : i = 1 \/ (i - 1 \in Running
                                        /\ frames'[i] = frames[i - 1])
    BY <2>1, Pushed DEF IInv
  <2> QED BY <1>3, <2>1, <2>2
<1>4. CASE frames # << >> /\ Return /\ frames[1].at # "update" /\ pc' = pc
  BY <1>4, Returned
<1>5. ASSUME NEW sig \in {"INT", "TSTP"}, FindFg(sig), FgPid(jobs) # NoPid
      PROVE  /\ \A q : q \in BeingUpdated' <=> q \in BeingUpdated
             /\ \A k \in Running' : frames'[k].at = "update" =>
                    \E i \in Running : frames'[k] = frames[i]
  <2> DEFINE p == FgPid(jobs)
  <2>1. p \in Pids /\ Go("kill", p, "none") /\ frames # << >>
    BY <1>5, FgPidType DEF IInv, Types, FindFg, HandlerAt
  <2> HIDE DEF p
  <2>2. frames[1].at = "start"
    BY <1>5, Stack DEF IInv, FindFg, HandlerAt
  <2>3. /\ Running' = Running /\ frames'[1].at = "kill"
        /\ \A i \in Running : i # 1 => frames'[i] = frames[i]
    BY <2>1, Gone DEF IInv
  <2>4. \A k \in Running' : frames'[k].at = "update" => frames'[k] = frames[k]
    BY <2>3
  <2>5. \A k \in Running : frames[k].at = "update" => frames'[k] = frames[k]
    BY <2>2, <2>3
  <2> QED BY <2>3, <2>4, <2>5, BeingUpdatedIs
<1>6. CASE LoopStep
  BY <1>1, <1>6 DEF LoopStep, Fork, AddJobStep, CheckFg, Suspend, LoadPid, Continue,
     SetState
<1>7. CASE Command
  BY <1>1, <1>7 DEF Command, ReadRun, ReadBuiltin, ReadBlank, Quit
<1>8. CASE Child
  BY <1>1, <1>8 DEF Child, ChildSetpgid, ChildEnds, ChildStops, others
<1>9. CASE Ended \/ Hang
  BY <1>1, <1>9 DEF Ended, Hang, vars
<1>10. CASE \E sig \in {"INT", "TSTP"} : Key(sig)
  BY <1>1, <1>10 DEF Key
<1>11. CASE WaitPidDone
  <2>1. frames # << >> /\ Head(frames).at = "start" /\ Return /\ pc' = pc
    BY <1>11 DEF WaitPidDone, HandlerAt
  <2> QED BY <1>4, <2>1, Stack DEF IInv
<1>12. ASSUME NEW sig \in {"INT", "TSTP"}, FindFg(sig), FgPid(jobs) = NoPid
       PROVE frames # << >> /\ Return /\ frames[1].at # "update" /\ pc' = pc
  <2>1. frames # << >> /\ Head(frames).at = "start" /\ Return /\ pc' = pc
    BY <1>12 DEF FindFg, HandlerAt
  <2> QED BY <2>1, Stack DEF IInv
<1>13. ASSUME NEW sig \in {"INT", "TSTP"}, Forward(sig)
       PROVE  \/ frames' = frames
              \/ frames # << >> /\ Return /\ frames[1].at # "update" /\ pc' = pc
  <2>1. /\ frames # << >> /\ Head(frames).at = "kill" /\ pc' = pc
        /\ frames' = frames \/ Return
    BY <1>13 DEF Forward, HandlerAt
  <2> QED BY <2>1, Stack DEF IInv
<1>14. CASE HandlerStep
  BY <1>1, <1>4, <1>5, <1>11, <1>12, <1>13, <1>14 DEF HandlerStep
<1> QED BY <1>2, <1>3, <1>6, <1>7, <1>8, <1>9, <1>10, <1>14 DEF Next
(* A step that leaves the list alone, and takes no news away.              *)
OnlyMoreNews ==
    /\ news \subseteq news'
    /\ \A p \in news' : proc'[p] \in {"stopped", "zombie"}
    /\ \A p \in Pids : proc[p] = "stopped" => proc'[p] = "stopped"
    /\ \A p \in Pids : proc'[p] = "stopped" => proc[p] = "stopped" \/ p \in news'

LEMMA SoundQuiet ==
    ASSUME IInv, Sound, UNCHANGED <<jobs, meddled>>,
           BeingUpdated' = BeingUpdated,
           \A k \in Running' : frames'[k].at = "update" =>
                \E i \in Running : frames'[k] = frames[i],
           OnlyMoreNews,
           InWindow \/ InWindow' \/ pc' = "addjob" => pc' = pc /\ cmd' = cmd,
           InWaitfg => InWaitfg' \/ FgPid(jobs) = NoPid
    PROVE  Sound'
<1>1. ReportedStops'
  <2>1. ASSUME NEW k \in Running', frames'[k].at = "update", frames'[k].status # "ended"
        PROVE  proc'[frames'[k].pid] = "stopped"
    <3>1. PICK i \in Running : frames'[k] = frames[i]
      BY <2>1
    <3>2. frames[i].pid \in Pids /\ proc[frames[i].pid] = "stopped"
      BY <2>1, <3>1 DEF IInv, Updating, Sound, ReportedStops
    <3> QED BY <3>1, <3>2 DEF OnlyMoreNews
  <2> QED BY <2>1 DEF ReportedStops, OnlyMoreNews
<1>2. ASSUME ~meddled PROVE (Window /\ Untold /\ Entries /\ OneFg /\ Agree)'
  <2>1. Window /\ Untold /\ Entries /\ OneFg /\ Agree
    BY <1>2 DEF Sound
  <2>2. \A i \in Slots : jobs[i].pid \in Pids \cup {NoPid}
    BY DEF IInv, Types, Tables, Entry
  <2>3. Window'
    BY <2>1 DEF Window, InWindow
  <2>4. Untold'
    <3> SUFFICES ASSUME pc' \in {"addjob", "setstate"}, proc'[cmd'.pid] = "stopped"
                 PROVE  cmd'.pid \in news' \cup BeingUpdated'
      BY DEF Untold
    <3>1. pc' = pc /\ cmd' = cmd
      BY DEF InWindow
    <3>2. cmd.pid \in Pids
      <4>1. CASE pc = "addjob"
        BY <4>1 DEF IInv, Unlisted
      <4>2. CASE pc = "setstate"
        <5>1. cmd.slot \in Slots
          BY <4>2 DEF IInv, Commanded, InWindow
        <5> QED BY <2>1, <2>2, <4>2, <5>1 DEF Window, InWindow
      <4> QED BY <3>1, <4>1, <4>2
    <3> QED BY <2>1, <3>1, <3>2 DEF Untold, OnlyMoreNews
  <2>5. Entries'
    BY <2>1 DEF Entries
  <2>6. OneFg'
    BY <2>1, NoFg DEF IInv, OneFg, AtMostOneFg
  <2>7. Agree'
    <3> SUFFICES ASSUME NEW i \in Slots,
                        jobs[i].pid \notin {NoPid} \cup news' \cup BeingUpdated',
                        ~(pc' = "setstate" /\ i = cmd'.slot)
                 PROVE  (jobs[i].state = "ST") <=> (proc'[jobs[i].pid] = "stopped")
      BY DEF Agree
    <3>1. ~(pc = "setstate" /\ i = cmd.slot)
      BY DEF InWindow
    <3> QED BY <2>1, <2>2, <3>1 DEF Agree, OnlyMoreNews
  <2> QED BY <2>3, <2>4, <2>5, <2>6, <2>7
<1> QED BY <1>1, <1>2 DEF Sound
LEMMA QuietSteps ==
    ASSUME IInv, Sound, Next, ~UpdateJob, \A p \in Pids : ~WaitPid(p),
           ~AddJobStep, ~LoadPid, ~Continue, ~SetState,
           \A p \in Pids : ~Fork(p),
           \A what \in {"FG", "BG"}, jid \in Nat : ~ReadBuiltin(what, jid)
    PROVE  Sound'
<1>1. /\ BeingUpdated' = BeingUpdated
      /\ \A k \in Running' : frames'[k].at = "update" =>
            \E i \in Running : frames'[k] = frames[i]
  BY SameUpdates
<1>2. /\ \A p \in news : proc[p] \in {"stopped", "zombie"}
      /\ proc \in [Pids -> ProcStates] /\ news \subseteq Pids
  BY DEF Sound, ReportedStops, IInv, Types
<1>3. UNCHANGED <<proc, news>> => OnlyMoreNews
  BY <1>2 DEF OnlyMoreNews
<1>4. ASSUME NEW p \in Pids, ChildSetpgid(p) \/ ChildEnds(p) \/ ChildStops(p)
      PROVE  Sound'
  <2>1. OnlyMoreNews
    <3>1. CASE ChildSetpgid(p)
      BY <1>2, <3>1 DEF ChildSetpgid, OnlyMoreNews
    <3>2. CASE ChildEnds(p)
      BY <1>2, <3>2 DEF ChildEnds, Tell, OnlyMoreNews
    <3>3. CASE ChildStops(p)
      BY <1>2, <3>3 DEF ChildStops, Tell, OnlyMoreNews
    <3> QED BY <1>4, <3>1, <3>2, <3>3
  <2>2. UNCHANGED <<jobs, pc, cmd, meddled>>
    BY <1>4 DEF ChildSetpgid, ChildEnds, ChildStops, others, table, history
  <2> QED BY <1>1, <2>1, <2>2, SoundQuiet DEF InWaitfg
<1>5. ASSUME NEW sig \in {"INT", "TSTP"}, Key(sig) \/ FindFg(sig) PROVE Sound'
  <2>1. OnlyMoreNews
    BY <1>3, <1>5 DEF Key, FindFg, kernel
  <2>2. UNCHANGED <<jobs, pc, cmd, meddled>>
    BY <1>5 DEF Key, FindFg, table, history
  <2> QED BY <1>1, <2>1, <2>2, SoundQuiet DEF InWaitfg
<1>6. ASSUME NEW sig \in {"INT", "TSTP"}, Forward(sig) PROVE Sound'
  <2>1. OnlyMoreNews
    <3> DEFINE p == Head(frames).pid
    <3>1. p \in Pids
      <4>1. frames # << >> /\ Head(frames).at = "kill"
        BY <1>6 DEF Forward, HandlerAt
      <4> QED BY <4>1, Stack DEF IInv, Updating
    <3>2. \/ UNCHANGED <<proc, news>>
          \/ /\ proc[p] = "running" /\ Tell(p)
             /\ proc' = [proc EXCEPT ![p] = IF sig = "INT" THEN "zombie" ELSE "stopped"]
      BY <1>6 DEF Forward, kernel
    <3> HIDE DEF p
    <3> QED BY <1>2, <1>3, <3>1, <3>2 DEF OnlyMoreNews, Tell
  <2>2. UNCHANGED <<jobs, pc, cmd, meddled>>
    BY <1>6 DEF Forward, table, history
  <2> QED BY <1>1, <2>1, <2>2, SoundQuiet DEF InWaitfg
<1>7. CASE WaitPidDone
  <2>1. UNCHANGED <<jobs, pc, cmd, meddled, proc, news>>
    BY <1>7 DEF WaitPidDone, table, history, kernel
  <2> QED BY <1>1, <1>3, <2>1, SoundQuiet DEF InWaitfg
<1>8. ASSUME NEW sig \in Signals, Deliver(sig) PROVE Sound'
  <2>1. /\ UNCHANGED <<jobs, cmd, meddled, proc, news>>
        /\ pc' = IF pc = "suspended" THEN "check" ELSE pc
    BY <1>8 DEF Deliver, table, history
  <2> QED BY <1>1, <1>3, <2>1, SoundQuiet DEF InWaitfg, InWindow
<1>9. CASE CheckFg
  <2>1. /\ UNCHANGED <<jobs, cmd, meddled, proc, news>> /\ pc = "check"
        /\ pc' = IF FgPid(jobs) # NoPid THEN "suspend" ELSE "prompt"
    BY <1>9 DEF CheckFg, LoopAt, table, history, kernel
  <2> QED BY <1>1, <1>3, <2>1, SoundQuiet DEF InWaitfg, InWindow
<1>10. CASE Suspend
  <2>1. /\ UNCHANGED <<jobs, cmd, meddled, proc, news>> /\ pc = "suspend"
        /\ pc' = "suspended"
    BY <1>10 DEF Suspend, LoopAt, table, history, kernel
  <2> QED BY <1>1, <1>3, <2>1, SoundQuiet DEF InWaitfg, InWindow
<1>11. ASSUME NEW what \in {"FG", "BG"}, ReadRun(what) PROVE Sound'
  <2>1. /\ UNCHANGED <<jobs, meddled, proc, news>> /\ pc = "prompt" /\ pc' = "fork"
    BY <1>11 DEF ReadRun, LoopAt, table, history, kernel
  <2> QED BY <1>1, <1>3, <2>1, SoundQuiet DEF InWaitfg, InWindow
<1>12. CASE ReadBlank \/ Quit
  <2>1. UNCHANGED <<jobs, pc, cmd, meddled, proc, news>>
    BY <1>12 DEF ReadBlank, Quit, table, history, kernel
  <2> QED BY <1>1, <1>3, <2>1, SoundQuiet DEF InWaitfg
<1>13. CASE Ended \/ Hang
  <2>1. UNCHANGED <<jobs, pc, cmd, meddled, proc, news>>
    BY <1>13 DEF Ended, Hang, vars, table, history, kernel
  <2> QED BY <1>1, <1>3, <2>1, SoundQuiet DEF InWaitfg
<1>14. \A i \in Slots : jobs[i].jid \in Nat
  BY DEF IInv, Types, Tables, Entry
<1>15. CASE Command
  BY <1>11, <1>12, <1>14, <1>15 DEF Command
<1>16. CASE Child
  BY <1>4, <1>16 DEF Child
<1>17. CASE LoopStep
  BY <1>9, <1>10, <1>17 DEF LoopStep
<1>18. CASE HandlerStep
  BY <1>5, <1>6, <1>7, <1>18 DEF HandlerStep
<1> QED BY <1>5, <1>8, <1>13, <1>15, <1>16, <1>17, <1>18 DEF Next
(* The steps of the loop run with no handler on the stack.                 *)
LEMMA NoHandler ==
    ASSUME frames = << >>, frames' = frames
    PROVE  Running' = {} /\ BeingUpdated = {} /\ BeingUpdated' = {}
BY DEF Running, BeingUpdated

(* do_bgfg starts with the entry of some job.                              *)
LEMMA ReadBuiltinSound ==
    ASSUME IInv, Sound, NEW what \in {"FG", "BG"}, NEW jid \in Nat,
           ReadBuiltin(what, jid)
    PROVE  Sound'
<1> DEFINE k == GetJobJid(jobs, jid)
<1>1. /\ frames = << >> /\ frames' = frames /\ pc = "prompt"
      /\ UNCHANGED <<jobs, proc, news, meddled>>
      /\ IF k = 0 THEN UNCHANGED <<pc, cmd>>
         ELSE /\ pc' = "loadpid"
              /\ cmd' = [what |-> what, pid |-> NoPid, slot |-> k]
  BY DEF ReadBuiltin, LoopAt, table, kernel, history
<1>2. k = 0 \/ (k \in Slots /\ jobs[k].jid = jid /\ jid > 0)
  BY GetJobJidFound DEF IInv, Types
<1> HIDE DEF k
<1>3. ReportedStops'
  BY <1>1, NoHandler DEF Sound, ReportedStops
<1>4. ASSUME ~meddled PROVE (Window /\ Untold /\ Entries /\ OneFg /\ Agree)'
  <2>1. Window /\ Untold /\ Entries /\ OneFg /\ Agree
    BY <1>4 DEF Sound
  <2>2. CASE k = 0
    BY <1>1, <2>1, <2>2, NoHandler
       DEF Window, InWindow, Untold, Entries, OneFg, AtMostOneFg, InWaitfg, Agree
  <2>3. CASE k # 0
    <3>1. jobs[k].pid # NoPid
      BY <1>2, <2>1, <2>3 DEF Entries
    <3> QED BY <1>1, <2>1, <2>3, <3>1, NoHandler
        DEF Window, InWindow, Untold, Entries, OneFg, AtMostOneFg, InWaitfg, Agree
  <2> QED BY <2>2, <2>3
<1> QED BY <1>1, <1>3, <1>4 DEF Sound

(* A new child has not stopped.                                            *)
LEMMA ForkSound == ASSUME IInv, Sound, NEW p \in Pids, Fork(p) PROVE Sound'
<1>1. /\ frames = << >> /\ frames' = frames /\ pc = "fork" /\ pc' = "addjob"
      /\ UNCHANGED <<jobs, news, meddled>> /\ proc[p] = "none"
      /\ proc' = [proc EXCEPT ![p] = "forked"] /\ cmd'.pid = p
      /\ proc \in [Pids -> ProcStates] /\ news \subseteq Pids
      /\ \A i \in Slots : jobs[i].pid \in Pids \cup {NoPid}
  BY DEF Fork, LoopAt, table, history, IInv, Types, Tables, Entry
<1>2. ReportedStops'
  BY <1>1, NoHandler DEF Sound, ReportedStops
<1>3. ASSUME ~meddled PROVE (Window /\ Untold /\ Entries /\ OneFg /\ Agree)'
  <2>1. Window /\ Untold /\ Entries /\ OneFg /\ Agree
    BY <1>3 DEF Sound
  <2>2. \A q \in Pids : proc'[q] = "stopped" <=> proc[q] = "stopped"
    BY <1>1
  <2>3. Window' /\ Untold'
    BY <1>1 DEF Window, InWindow, Untold
  <2>4. Entries' /\ OneFg'
    BY <1>1, <2>1 DEF Entries, OneFg, AtMostOneFg, InWaitfg
  <2>5. Agree'
    BY <1>1, <2>1, <2>2, NoHandler DEF Agree
  <2> QED BY <2>3, <2>4, <2>5
<1> QED BY <1>1, <1>2, <1>3 DEF Sound

(* eval's addjob: if the child has stopped since, waitpid has yet to tell. *)
LEMMA AddJobSound == ASSUME IInv, Sound, AddJobStep PROVE Sound'
<1> DEFINE p == cmd.pid
           w == cmd.what
<1>1. /\ frames = << >> /\ frames' = frames /\ pc = "addjob"
      /\ pc' = IF w = "FG" THEN "check" ELSE "prompt"
      /\ UNCHANGED <<proc, news, cmd, meddled>>
      /\ jobs' = AddJob(jobs, nextjid, p, w)
  BY DEF AddJobStep, LoopAt, kernel
<1>2. /\ p \in Pids /\ w \in {"FG", "BG"} /\ jobs \in Tables /\ nextjid \in Nat
      /\ p # NoPid /\ w \in States
  BY <1>1, JobsAssumption DEF IInv, Types, Commanded, Unlisted, States
<1>3. ReportedStops'
  BY <1>1, NoHandler DEF Sound, ReportedStops
<1>4. ASSUME ~meddled PROVE (Window /\ Untold /\ Entries /\ OneFg /\ Agree)'
  <2>1. Window /\ Untold /\ Entries /\ OneFg /\ Agree
    BY <1>4 DEF Sound
  <2>2. proc[p] = "stopped" => p \in news
    BY <1>1, <2>1, NoHandler DEF Untold
  <2>3. \A i \in Slots : jobs[i].state # "FG"
    BY <1>1, <2>1 DEF OneFg, InWaitfg
  <2>4. ~InWindow' /\ pc' \notin {"addjob", "setstate"} /\ (w = "FG" => InWaitfg')
    BY <1>1 DEF InWindow, InWaitfg
  <2> HIDE DEF p, w
  <2>5. \/ jobs' = jobs
        \/ \E i \in Slots : /\ jobs[i].pid = NoPid
                            /\ jobs'[i].pid = p /\ jobs'[i].state = w
                            /\ \A k \in Slots \ {i} : jobs'[k] = jobs[k]
    BY <1>1, <1>2, AddJobEffect
  <2>6. CASE jobs' = jobs
    BY <1>1, <2>1, <2>3, <2>4, <2>6, NoHandler
       DEF Window, Untold, Entries, OneFg, AtMostOneFg, Agree
  <2>7. ASSUME NEW i \in Slots, jobs'[i].pid = p, jobs'[i].state = w,
               \A k \in Slots \ {i} : jobs'[k] = jobs[k]
        PROVE  (Window /\ Untold /\ Entries /\ OneFg /\ Agree)'
    <3>1. Window' /\ Untold'
      BY <2>4 DEF Window, Untold
    <3>2. Entries'
      BY <1>2, <2>1, <2>7 DEF Entries
    <3>3. OneFg'
      BY <1>2, <2>3, <2>4, <2>7 DEF OneFg, AtMostOneFg
    <3>4. Agree'
      BY <1>1, <1>2, <2>1, <2>2, <2>7, NoHandler DEF Agree
    <3> QED BY <3>1, <3>2, <3>3, <3>4
  <2> QED BY <2>5, <2>6, <2>7
<1> QED BY <1>1, <1>3, <1>4 DEF Sound

(* do_bgfg: the pid of its entry, ...                                      *)
LEMMA LoadPidSound == ASSUME IInv, Sound, LoadPid PROVE Sound'
<1>1. /\ frames = << >> /\ frames' = frames /\ pc = "loadpid" /\ pc' = "cont"
      /\ UNCHANGED <<jobs, proc, news, meddled>>
      /\ cmd' = [cmd EXCEPT !.pid = jobs[cmd.slot].pid]
  BY DEF LoadPid, LoopAt, table, kernel, history
<1>2. cmd'.pid = jobs[cmd.slot].pid /\ cmd'.slot = cmd.slot
  BY <1>1 DEF IInv, Types
<1>3. ReportedStops'
  BY <1>1, NoHandler DEF Sound, ReportedStops
<1>4. ASSUME ~meddled PROVE (Window /\ Untold /\ Entries /\ OneFg /\ Agree)'
  <2>1. Window /\ Untold /\ Entries /\ OneFg /\ Agree
    BY <1>4 DEF Sound
  <2> QED BY <1>1, <1>2, <2>1, NoHandler
      DEF Window, InWindow, Untold, Entries, OneFg, AtMostOneFg, InWaitfg, Agree
<1> QED BY <1>1, <1>3, <1>4 DEF Sound

(* ... the process continued, of whose stop there is no news any more...   *)
LEMMA ContinueSound == ASSUME IInv, Sound, Continue PROVE Sound'
<1> DEFINE p == cmd.pid
<1>1. /\ frames = << >> /\ frames' = frames /\ pc = "cont"
      /\ UNCHANGED <<jobs, cmd, meddled>>
      /\ \/ UNCHANGED <<proc, news, pc>>
         \/ /\ pc' = "setstate"
            /\ IF p # NoPid /\ proc[p] = "stopped"
               THEN /\ proc' = [proc EXCEPT ![p] = "running"]
                    /\ news' = news \ {p}
               ELSE UNCHANGED <<proc, news>>
  BY DEF Continue, LoopAt, table, kernel, history
<1>2. /\ proc \in [Pids -> ProcStates] /\ news \subseteq Pids
      /\ \A i \in Slots : jobs[i].pid \in Pids \cup {NoPid}
      /\ p \in Pids \cup {NoPid} /\ cmd.slot \in Slots
  BY <1>1 DEF IInv, Types, Tables, Entry, Commanded, InWindow
<1>3. ReportedStops'
  BY <1>1, <1>2, NoHandler DEF Sound, ReportedStops
<1>4. ASSUME ~meddled PROVE (Window /\ Untold /\ Entries /\ OneFg /\ Agree)'
  <2>1. Window /\ Untold /\ Entries /\ OneFg /\ Agree
    BY <1>4 DEF Sound
  <2>2. p = jobs[cmd.slot].pid /\ p \in Pids /\ p # NoPid
    BY <1>1, <1>2, <2>1 DEF Window, InWindow
  <2>3. Window' /\ Entries' /\ OneFg'
    BY <1>1, <2>1 DEF Window, InWindow, Entries, OneFg, AtMostOneFg, InWaitfg
  <2>4. Untold'
    BY <1>1, <1>2, <2>1, <2>2 DEF Untold
  <2>5. Agree'
    <3>1. CASE UNCHANGED <<proc, news, pc>>
      BY <1>1, <2>1, <3>1, NoHandler DEF Agree
    <3>2. CASE pc' = "setstate" /\ ~UNCHANGED <<proc, news, pc>>
      <4> SUFFICES ASSUME NEW i \in Slots,
                          jobs[i].pid \notin {NoPid} \cup news' \cup BeingUpdated',
                          i # cmd.slot
                   PROVE  (jobs[i].state = "ST") <=> (proc'[jobs[i].pid] = "stopped")
        BY <1>1, <3>2 DEF Agree
      <4>1. jobs[i].pid # p
        BY <1>2, <2>2 DEF IInv, ListTracksChildren
      <4>2. jobs[i].pid \notin news /\ proc'[jobs[i].pid] = proc[jobs[i].pid]
        BY <1>1, <1>2, <4>1
      <4> QED BY <1>1, <2>1, <4>2, NoHandler DEF Agree
    <3> QED BY <1>1, <3>1, <3>2
  <2> QED BY <2>3, <2>4, <2>5
<1> QED BY <1>1, <1>3, <1>4 DEF Sound

(* ... and the entry says so.                                              *)
LEMMA SetStateSound == ASSUME IInv, Sound, SetState PROVE Sound'
<1> DEFINE c == cmd.slot
           w == cmd.what
<1>1. /\ frames = << >> /\ frames' = frames /\ pc = "setstate"
      /\ UNCHANGED <<proc, news, cmd, meddled>>
      /\ jobs' = [jobs EXCEPT ![c].state = w]
      /\ pc' = IF w = "FG" THEN "check" ELSE "prompt"
  BY DEF SetState, LoopAt, kernel, history
<1>2. c \in Slots /\ w \in {"FG", "BG"} /\ jobs \in Tables
  BY <1>1 DEF IInv, Types, Commanded, InWindow
<1>3. ReportedStops'
  BY <1>1, NoHandler DEF Sound, ReportedStops
<1>4. ASSUME ~meddled PROVE (Window /\ Untold /\ Entries /\ OneFg /\ Agree)'
  <2>1. Window /\ Untold /\ Entries /\ OneFg /\ Agree
    BY <1>4 DEF Sound
  <2>2. jobs[c].pid # NoPid /\ cmd.pid = jobs[c].pid
    BY <1>1, <2>1 DEF Window, InWindow
  <2>3. proc[jobs[c].pid] = "stopped" => jobs[c].pid \in news
    BY <1>1, <2>1, <2>2, NoHandler DEF Untold
  <2>4. \A i \in Slots : jobs[i].state # "FG"
    BY <1>1, <2>1 DEF OneFg, InWaitfg
  <2>5. ~InWindow' /\ pc' \notin {"addjob", "setstate"} /\ (w = "FG" => InWaitfg')
    BY <1>1 DEF InWindow, InWaitfg
  <2> HIDE DEF c, w
  <2>6. /\ jobs'[c].pid = jobs[c].pid /\ jobs'[c].state = w
        /\ \A k \in Slots \ {c} : jobs'[k] = jobs[k]
    BY <1>1, <1>2 DEF Tables, Entry
  <2>7. Window' /\ Untold'
    BY <2>5 DEF Window, Untold
  <2>8. Entries'
    BY <1>2, <2>1, <2>2, <2>6 DEF Entries
  <2>9. OneFg'
    BY <1>2, <2>4, <2>5, <2>6 DEF OneFg, AtMostOneFg
  <2>10. Agree'
    <3> SUFFICES ASSUME NEW i \in Slots,
                        jobs'[i].pid \notin {NoPid} \cup news \cup BeingUpdated'
                 PROVE  (jobs'[i].state = "ST") <=> (proc[jobs'[i].pid] = "stopped")
      BY <1>1 DEF Agree
    <3>1. CASE i = c
      BY <1>2, <2>3, <2>6, <3>1
    <3>2. CASE i # c
      BY <1>1, <2>1, <2>6, <3>2, NoHandler DEF Agree, c
    <3> QED BY <3>1, <3>2
  <2> QED BY <2>7, <2>8, <2>9, <2>10
<1> QED BY <1>1, <1>3, <1>4 DEF Sound
(* What waitpid tells of is being updated from here on.                    *)
LEMMA WaitPidSound == ASSUME IInv, Sound, NEW p \in Pids, WaitPid(p) PROVE Sound'
<1> DEFINE s == IF proc[p] = "zombie" THEN "ended" ELSE "stopped"
<1>1. /\ frames # << >> /\ 1 \in Running
      /\ \A i \in Running : i # 1 => frames[i].at # "update"
      /\ frames[1].at = "start" /\ pc # "addjob"
  BY InHandler DEF WaitPid
<1>2. /\ p \in news /\ news' = news \ {p}
      /\ proc' = [proc EXCEPT ![p] = IF @ = "zombie" THEN "reaped" ELSE @]
      /\ Go("update", p, s)
      /\ UNCHANGED <<jobs, pc, cmd, meddled>>
  BY DEF WaitPid, table, history
<1>3. /\ proc \in [Pids -> ProcStates] /\ news \subseteq Pids
      /\ \A q \in news : proc[q] \in {"stopped", "zombie"}
      /\ \A i \in Slots : jobs[i].pid \in Pids \cup {NoPid}
  BY DEF IInv, Types, Tables, Entry, Sound, ReportedStops
<1>4. s \in {"ended", "stopped"} /\ (s # "ended" => proc[p] = "stopped")
  BY <1>2, <1>3
<1> HIDE DEF s
<1>5. /\ Running' = Running
      /\ frames'[1].at = "update" /\ frames'[1].pid = p /\ frames'[1].status = s
      /\ \A i \in Running : i # 1 => frames'[i] = frames[i]
  BY <1>1, <1>2, <1>4, Gone DEF IInv
<1>6. \A q \in Pids : proc'[q] = "stopped" <=> proc[q] = "stopped"
  BY <1>2, <1>3
<1>7. ReportedStops'
  <2>1. \A q \in news' : proc'[q] \in {"stopped", "zombie"}
    BY <1>2, <1>3
  <2>2. ASSUME NEW i \in Running, frames'[i].at = "update", frames'[i].status # "ended"
        PROVE  proc'[frames'[i].pid] = "stopped"
    <3>1. i = 1
      BY <1>1, <1>5, <2>2
    <3> QED BY <1>4, <1>5, <1>6, <2>2, <3>1
  <2> QED BY <1>5, <2>1, <2>2 DEF ReportedStops
<1>8. BeingUpdated = {} /\ BeingUpdated' = {p}
  <2>1. \A q : q \notin BeingUpdated
    BY <1>1, BeingUpdatedIs
  <2>2. \A q : q \in BeingUpdated' <=> q = p
    BY <1>1, <1>5, BeingUpdatedIs
  <2> QED BY <2>1, <2>2
<1>9. ASSUME ~meddled PROVE (Window /\ Untold /\ Entries /\ OneFg /\ Agree)'
  <2>1. Window /\ Untold /\ Entries /\ OneFg /\ Agree
    BY <1>9 DEF Sound
  <2>2. Window' /\ Entries' /\ OneFg'
    BY <1>2, <2>1 DEF Window, InWindow, Entries, OneFg, AtMostOneFg, InWaitfg
  <2>3. Untold'
    <3> SUFFICES ASSUME pc = "setstate", proc'[cmd.pid] = "stopped"
                 PROVE  cmd.pid \in news' \cup BeingUpdated'
      BY <1>1, <1>2 DEF Untold
    <3>1. cmd.slot \in Slots
      BY DEF IInv, Commanded, InWindow
    <3>2. cmd.pid \in Pids
      BY <1>3, <2>1, <3>1 DEF Window, InWindow
    <3>3. proc[cmd.pid] = "stopped"
      BY <1>6, <3>2
    <3>4. cmd.pid \in news
      BY <1>8, <2>1, <3>3 DEF Untold
    <3> QED BY <1>2, <1>8, <3>4
  <2>4. Agree'
    BY <1>2, <1>3, <1>6, <1>8, <2>1 DEF Agree
  <2> QED BY <2>2, <2>3, <2>4
<1> QED BY <1>2, <1>7, <1>9 DEF Sound

(* What was told is now in the list; in do_bgfg's entry it would meddle.   *)
LEMMA UpdateJobSound == ASSUME IInv, Sound, UpdateJob PROVE Sound'
<1> DEFINE p == frames[1].pid
           g == GetJobPid(jobs, p)
<1>1. /\ frames # << >> /\ 1 \in Running /\ Head(frames) = frames[1]
      /\ \A i \in Running : i # 1 => frames[i].at # "update"
      /\ frames[1].at = "update" /\ pc # "addjob"
  BY InHandler DEF UpdateJob
<1>2. /\ p \in Pids /\ p # NoPid
      /\ frames[1].status = "ended" => proc[p] = "reaped"
      /\ frames[1].status # "ended" => proc[p] = "stopped"
  BY <1>1, JobsAssumption DEF IInv, Updating, Sound, ReportedStops
<1>3. /\ Go("start", NoPid, "none")
      /\ meddled' = (meddled \/ (InWindow /\ g # 0 /\ g = cmd.slot))
      /\ UNCHANGED <<proc, news, pc, cmd>>
      /\ IF frames[1].status = "ended" THEN jobs' = DeleteJob(jobs, p)
         ELSE IF g # 0 THEN jobs' = [jobs EXCEPT ![g].state = "ST"]
         ELSE jobs' = jobs
  BY <1>1 DEF UpdateJob, kernel, table
<1>4. /\ jobs \in Tables /\ \A i \in Slots : jobs[i].pid \in Pids \cup {NoPid}
      /\ \A i, k \in Slots : jobs[i].pid = jobs[k].pid /\ jobs[i].pid # NoPid => i = k
  BY DEF IInv, Types, Tables, Entry, ListTracksChildren
<1>5. \/ g \in Slots /\ jobs[g].pid = p
      \/ g = 0 /\ \A i \in Slots : jobs[i].pid # p
  BY <1>2, <1>4, GetJobPidFound
<1>6. BeingUpdated = {p}
  <2>1. \A q : q \in BeingUpdated <=> q = p
    BY <1>1, BeingUpdatedIs
  <2> QED BY <2>1
<1> HIDE DEF p, g
<1>7. /\ Running' = Running /\ frames'[1].at = "start"
      /\ \A i \in Running : i # 1 => frames'[i] = frames[i]
  BY <1>1, <1>3, Gone DEF IInv
<1>8. \A i \in Running' : frames'[i].at # "update"
  BY <1>1, <1>7
<1>9. BeingUpdated' = {}
  <2>1. \A q : q \notin BeingUpdated'
    BY <1>8, BeingUpdatedIs
  <2> QED BY <2>1
<1>10. ReportedStops'
  BY <1>3, <1>8 DEF Sound, ReportedStops
<1>11. ASSUME ~meddled' PROVE (Window /\ Untold /\ Entries /\ OneFg /\ Agree)'
  <2>1. Window /\ Untold /\ Entries /\ OneFg /\ Agree
    BY <1>3, <1>11 DEF Sound
  <2>2. \A i \in Slots : jobs[i].pid # p => jobs'[i] = jobs[i]
    <3>1. CASE frames[1].status = "ended"
      <4>1. DeleteJob(jobs, p) = IF g = 0 THEN jobs ELSE [jobs EXCEPT ![g] = Cleared(@)]
        BY DEF DeleteJob, g
      <4> QED BY <1>3, <1>4, <1>5, <3>1, <4>1 DEF Tables
    <3>2. CASE frames[1].status # "ended"
      BY <1>3, <1>4, <1>5, <3>2 DEF Tables
    <3> QED BY <3>1, <3>2
  <2>3. ASSUME NEW i \in Slots, jobs[i].pid = p
        PROVE  \/ jobs'[i] = [pid |-> NoPid, jid |-> 0, state |-> "UNDEF"]
               \/ /\ jobs'[i].pid = p /\ jobs'[i].state = "ST"
                  /\ proc[p] = "stopped"
    <3>1. i = g /\ g \in Slots /\ g # 0
      BY <1>2, <1>4, <1>5, <2>3, NotZero
    <3>2. CASE frames[1].status = "ended"
      <4>1. DeleteJob(jobs, p) = IF g = 0 THEN jobs ELSE [jobs EXCEPT ![g] = Cleared(@)]
        BY DEF DeleteJob, g
      <4> QED BY <1>3, <1>4, <3>1, <3>2, <4>1 DEF Tables, Cleared
    <3>3. CASE frames[1].status # "ended"
      <4>1. jobs' = [jobs EXCEPT ![g].state = "ST"]
        BY <1>3, <3>1, <3>3
      <4>2. jobs'[g].pid = p /\ jobs'[g].state = "ST"
        BY <1>4, <2>3, <3>1, <4>1 DEF Tables, Entry
      <4> QED BY <1>2, <3>1, <3>3, <4>2
    <3> QED BY <3>2, <3>3
  <2>4. InWindow => cmd.slot \in Slots /\ jobs[cmd.slot].pid # p
    <3> SUFFICES ASSUME InWindow PROVE cmd.slot \in Slots /\ jobs[cmd.slot].pid # p
      OBVIOUS
    <3>1. cmd.slot \in Slots
      BY DEF IInv, Commanded
    <3>2. g = 0 \/ g # cmd.slot
      BY <1>3, <1>11
    <3>3. CASE g = 0
      BY <1>5, <3>1, <3>3, NotZero
    <3>4. CASE g # 0
      <4>1. g \in Slots /\ jobs[g].pid = p /\ g # cmd.slot
        BY <1>5, <3>2, <3>4
      <4> QED BY <1>2, <1>4, <3>1, <4>1
    <3> QED BY <3>3, <3>4
  <2>5. Window'
    BY <1>3, <2>1, <2>2, <2>4 DEF Window, InWindow
  <2>6. Untold'
    <3> SUFFICES ASSUME pc = "setstate", proc[cmd.pid] = "stopped"
                 PROVE  cmd.pid \in news
      BY <1>1, <1>3 DEF Untold
    <3>1. cmd.pid # p
      BY <2>1, <2>4 DEF Window, InWindow
    <3> QED BY <1>6, <2>1, <3>1 DEF Untold
  <2>7. Entries'
    <3>1. \A i \in Slots : jobs[i].pid = p =>
            /\ (jobs'[i].pid = NoPid) <=> (jobs'[i].state = "UNDEF")
            /\ jobs'[i].pid = NoPid => jobs'[i].jid = 0
      BY <1>2, <2>3
    <3> QED BY <2>1, <2>2, <3>1 DEF Entries
  <2>8. \A i \in Slots : jobs'[i].state = "FG" => jobs[i].state = "FG"
    <3>1. \A i \in Slots : jobs[i].pid = p => jobs'[i].state # "FG"
      BY <2>3
    <3> QED BY <2>2, <3>1
  <2>9. OneFg'
    BY <1>3, <2>1, <2>8 DEF OneFg, AtMostOneFg, InWaitfg
  <2>10. Agree'
    <3> SUFFICES ASSUME NEW i \in Slots,
                        jobs'[i].pid \notin {NoPid} \cup news,
                        ~(pc = "setstate" /\ i = cmd.slot)
                 PROVE  (jobs'[i].state = "ST") <=> (proc[jobs'[i].pid] = "stopped")
      BY <1>3, <1>9 DEF Agree
    <3>1. CASE jobs[i].pid = p
      BY <2>3, <3>1
    <3>2. CASE jobs[i].pid # p
      BY <1>6, <2>1, <2>2, <3>2 DEF Agree
    <3> QED BY <3>1, <3>2
  <2> QED BY <2>5, <2>6, <2>7, <2>9, <2>10
<1> QED BY <1>10, <1>11 DEF Sound

LEMMA SoundInit == Init => Sound
<1> SUFFICES ASSUME Init PROVE Sound
  OBVIOUS
<1>1. /\ news = {} /\ pc = "prompt" /\ Running = {}
      /\ \A i \in Slots : jobs[i] = [pid |-> NoPid, jid |-> 0, state |-> "UNDEF"]
  BY DEF Init, NoJobs, Running
<1>2. ReportedStops
  BY <1>1 DEF ReportedStops
<1>3. Window /\ Untold /\ Entries /\ OneFg /\ Agree
  BY <1>1 DEF Window, InWindow, Untold, Entries, OneFg, AtMostOneFg, Agree
<1> QED BY <1>2, <1>3 DEF Sound

LEMMA SoundStep == IInv /\ Sound /\ [Next]_vars => Sound'
<1> SUFFICES ASSUME IInv, Sound, [Next]_vars PROVE Sound'
  OBVIOUS
<1>1. CASE UNCHANGED vars
  <2>1. /\ UNCHANGED <<jobs, proc, news, pc, cmd, frames, meddled>>
    BY <1>1 DEF vars, table, kernel, history
  <2>2. BeingUpdated' = BeingUpdated /\ Running' = Running
    BY <2>1 DEF BeingUpdated, Running
  <2>3. OnlyMoreNews
    BY <2>1 DEF OnlyMoreNews, Sound, ReportedStops
  <2> QED BY <2>1, <2>2, <2>3, SoundQuiet DEF InWaitfg
<1>2. CASE Next
  BY <1>2, QuietSteps, ReadBuiltinSound, ForkSound, AddJobSound, LoadPidSound,
     ContinueSound, SetStateSound, WaitPidSound, UpdateJobSound
<1> QED BY <1>1, <1>2

(* As long as no handler changes the entry that do_bgfg works on, at most  *)
(* one job is in the foreground, none when the prompt is shown, and with   *)
(* the handlers done a job is ST exactly when its process is stopped, for  *)
(* any number of children, slots, commands and signals.                    *)
THEOREM SoundUnlessMeddledHolds == Spec => []SoundUnlessMeddled
<1>1. IInv /\ Sound /\ [Next]_vars => (IInv /\ Sound)'
  BY IInvStep, SoundStep
<1>2. Spec => [](IInv /\ Sound)
  BY InitIInv, SoundInit, <1>1, PTL DEF Spec
<1>3. IInv /\ Sound => SoundUnlessMeddled
  <2> SUFFICES ASSUME IInv, Sound, ~meddled
               PROVE  /\ AtMostOneFg
                      /\ \A i \in Slots : (jobs[i].pid = NoPid) <=> (jobs[i].state = "UNDEF")
                      /\ pc = "prompt" => FgPid(jobs) = NoPid
                      /\ life = "running" /\ Settled /\ ~InWindow =>
                          \A i \in Slots : jobs[i].pid # NoPid =>
                            (jobs[i].state = "ST" <=> proc[jobs[i].pid] = "stopped")
    BY DEF SoundUnlessMeddled
  <2>1. Entries /\ OneFg /\ Agree /\ Types
    BY DEF Sound, IInv
  <2>2. pc = "prompt" => FgPid(jobs) = NoPid
    BY <2>1, NoFg DEF OneFg, InWaitfg
  <2>3. frames = << >> => BeingUpdated = {}
    BY DEF BeingUpdated
  <2>4. Settled /\ ~InWindow => news = {} /\ BeingUpdated = {} /\ pc # "setstate"
    BY <2>3 DEF Settled, InWindow
  <2> QED BY <2>1, <2>2, <2>4 DEF Entries, OneFg, Agree
<1> QED BY <1>2, <1>3, PTL
=============================================================================
