-------------------------------- MODULE Jobs --------------------------------
(***************************************************************************)
(* The job list of the shell (tsh.c): a fixed array of entries, and the    *)
(* helper routines that search and change it.  They are operators on the   *)
(* array and on nextjid; the shell calls them with signals blocked, or     *)
(* not, and that is Shell's concern.                                       *)
(***************************************************************************)
EXTENDS Integers, FiniteSets

CONSTANTS
    MaxJobs,        \* MAXJOBS
    Pids,           \* the process ids fork may return
    NoPid           \* pid 0

ASSUME JobsAssumption ==
    /\ MaxJobs \in Nat \ {0}
    /\ NoPid \notin Pids

Slots == 1 .. MaxJobs
States == {"UNDEF", "FG", "BG", "ST"}

Entry == [pid : Pids \cup {NoPid}, jid : Nat, state : States]

(* clearjob; a mutant leaves the state.                                    *)
ClearedKeepsState(job) == [job EXCEPT !.pid = NoPid, !.jid = 0]
Cleared(job) == [pid |-> NoPid, jid |-> 0, state |-> "UNDEF"]

(* initjobs                                                                *)
NoJobs == [i \in Slots |-> [pid |-> NoPid, jid |-> 0, state |-> "UNDEF"]]

(* The first of some slots, which every search loop returns, or 0.         *)
First(S) == IF S = {} THEN 0 ELSE CHOOSE i \in S : \A k \in S : i <= k

(* getjobpid and getjobjid: a slot, or 0 for NULL.                         *)
GetJobPid(jobs, pid) == First({i \in Slots : pid # NoPid /\ jobs[i].pid = pid})
GetJobJid(jobs, jid) == First({i \in Slots : jid > 0 /\ jobs[i].jid = jid})

(* fgpid: the pid of the first entry in state FG, 0 if there is none.      *)
FgPid(jobs) ==
    LET i == First({k \in Slots : jobs[k].state = "FG"})
    IN IF i = 0 THEN NoPid ELSE jobs[i].pid

(* maxjid                                                                  *)
MaxJid(jobs) ==
    CHOOSE m \in {0} \cup {jobs[i].jid : i \in Slots} :
        \A i \in Slots : jobs[i].jid <= m

(* addjob: the first free slot takes the job, and nextjid goes on; with no *)
(* slot free nothing changes.  A mutant takes the first slot, free or not. *)
FreeSlotFirst(jobs) == 1
FreeSlot(jobs) == First({i \in Slots : jobs[i].pid = NoPid})

AddJob(jobs, nextjid, pid, state) ==
    IF FreeSlot(jobs) = 0 THEN jobs
    ELSE [jobs EXCEPT ![FreeSlot(jobs)] =
            [pid |-> pid, jid |-> nextjid, state |-> state]]

NextJidAdd(jobs, nextjid) ==
    IF FreeSlot(jobs) = 0 THEN nextjid
    ELSE IF nextjid + 1 > MaxJobs THEN 1 ELSE nextjid + 1

(* deletejob: the entry of pid is cleared, and nextjid is one past the     *)
(* largest id left; with no such entry nothing changes.                    *)
DeleteJob(jobs, pid) ==
    LET i == GetJobPid(jobs, pid)
    IN IF i = 0 THEN jobs ELSE [jobs EXCEPT ![i] = Cleared(@)]

(* A mutant forgets the "one past".                                        *)
NextJidDeleteMax(jobs, nextjid, pid) ==
    IF GetJobPid(jobs, pid) = 0 THEN nextjid ELSE MaxJid(DeleteJob(jobs, pid))

NextJidDelete(jobs, nextjid, pid) ==
    IF GetJobPid(jobs, pid) = 0 THEN nextjid
    ELSE MaxJid(DeleteJob(jobs, pid)) + 1
=============================================================================
