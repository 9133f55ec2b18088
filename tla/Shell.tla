------------------------------- MODULE Shell -------------------------------
(***************************************************************************)
(* The shell (tsh.c): its read/eval loop, the handlers of SIGCHLD, SIGINT  *)
(* and SIGTSTP that interrupt the loop and each other, and the kernel's    *)
(* side of it: the children, their zombies and stops, and the pending      *)
(* signals.  What the code does with all signals blocked is one step; a    *)
(* handler can run between any two steps that leave its signal unblocked.  *)
(***************************************************************************)
EXTENDS Jobs, Sequences

CONSTANTS
    MaxBuiltins,    \* bound on the fg and bg commands of a run
    MaxKeys         \* bound on the ctrl-c and ctrl-z of a run

ASSUME BoundsAssumption == MaxBuiltins \in Nat /\ MaxKeys \in Nat

VARIABLES
    jobs, nextjid,  \* the globals of tsh.c
    proc,           \* proc[p]: what process p is doing
    news,           \* the children whose end or stop waitpid has not reported
    pending,        \* the signals pending for the shell
    mask,           \* the signals the running code has blocked
    pc,             \* the next step of the read/eval loop
    cmd,            \* the command being evaluated: [what, pid, slot]
    frames,         \* the handlers running, the innermost first
    life,           \* the shell runs, or how it ended
    builtins, keys, \* commands and keys so far (they bound the model only)
    meddled,        \* a handler changed the job list inside do_bgfg's window
    dropped         \* the children addjob found no slot for

kernel == <<proc, news, pending>>
table == <<jobs, nextjid>>
bounds == <<builtins, keys>>
history == <<meddled, dropped>>
vars == <<table, kernel, mask, pc, cmd, frames, life, bounds, history>>

Signals == {"CHLD", "INT", "TSTP"}

(* A child is forked into the shell's process group, moves to a group of   *)
(* its own, runs, may stop and go on, ends, and is a zombie until waitpid. *)
ProcStates == {"none", "forked", "running", "stopped", "zombie", "reaped"}

PCs == {"prompt", "fork", "addjob", "check", "suspend", "suspended",
        "loadpid", "cont", "setstate"}

NoCmd == [what |-> "none", pid |-> NoPid, slot |-> 0]

Init ==
    /\ jobs = NoJobs /\ nextjid = 1
    /\ proc = [p \in Pids |-> "none"]
    /\ news = {} /\ pending = {} /\ mask = {}
    /\ pc = "prompt" /\ cmd = NoCmd
    /\ frames = << >>
    /\ life = "running"
    /\ builtins = 0 /\ keys = 0
    /\ meddled = FALSE /\ dropped = {}

(* The loop runs when no handler does, a handler when it is innermost.     *)
LoopAt(l) == life = "running" /\ frames = << >> /\ pc = l
HandlerAt(sig, l) ==
    /\ life = "running" /\ frames # << >>
    /\ Head(frames).sig = sig /\ Head(frames).at = l

(* kill(-p, sig) finds a process group unless p has not made one yet or    *)
(* has been reaped.                                                        *)
HasGroup(p) == proc[p] \in {"running", "stopped", "zombie"}

-----------------------------------------------------------------------------
(* The children.  The end and the stop of a child are news for waitpid and *)
(* raise SIGCHLD; pending signals do not count.                            *)
Tell(p) ==
    /\ news' = news \cup {p}
    /\ pending' = pending \cup {"CHLD"}

others == <<table, mask, pc, cmd, frames, bounds, history>>

(* Setpgid(0, 0), then Execve, in the child.                               *)
ChildSetpgid(p) ==
    /\ proc[p] = "forked"
    /\ proc' = [proc EXCEPT ![p] = "running"]
    /\ UNCHANGED <<others, news, pending, life>>

(* The child exits, or a signal kills it.                                  *)
ChildEnds(p) ==
    /\ proc[p] = "running"
    /\ proc' = [proc EXCEPT ![p] = "zombie"]
    /\ Tell(p)
    /\ UNCHANGED <<others, life>>

(* The child stops of its own accord.                                      *)
ChildStops(p) ==
    /\ proc[p] = "running"
    /\ proc' = [proc EXCEPT ![p] = "stopped"]
    /\ Tell(p)
    /\ UNCHANGED <<others, life>>

(* ctrl-c or ctrl-z at the keyboard.                                       *)
Key(sig) ==
    /\ life = "running" /\ keys < MaxKeys
    /\ keys' = keys + 1
    /\ pending' = pending \cup {sig}
    /\ UNCHANGED <<table, proc, news, mask, pc, cmd, frames, life, builtins,
                   history>>

-----------------------------------------------------------------------------
(* The read/eval loop reads a command to run...                            *)
ReadRun(what) ==
    /\ LoopAt("prompt")
    /\ pc' = "fork"
    /\ cmd' = [NoCmd EXCEPT !.what = what]
    /\ UNCHANGED <<table, kernel, mask, frames, life, bounds, history>>

(* ... or fg or bg with the id of a job; do_bgfg looks it up and returns   *)
(* when there is none...                                                   *)
ReadBuiltin(what, jid) ==
    /\ LoopAt("prompt") /\ builtins < MaxBuiltins
    /\ builtins' = builtins + 1
    /\ LET i == GetJobJid(jobs, jid) IN
        IF i = 0 THEN UNCHANGED <<pc, cmd>>
        ELSE /\ pc' = "loadpid"
             /\ cmd' = [what |-> what, pid |-> NoPid, slot |-> i]
    /\ UNCHANGED <<table, kernel, mask, frames, life, keys, history>>

(* ... or an empty line, of which eval compares the NULL argv[0]...         *)
ReadBlank ==
    /\ LoopAt("prompt")
    /\ life' = "null dereferenced"
    /\ UNCHANGED <<table, kernel, mask, pc, cmd, frames, bounds, history>>

(* ... or quit, or the end of its input.                                   *)
Quit ==
    /\ LoopAt("prompt")
    /\ life' = "quit"
    /\ UNCHANGED <<table, kernel, mask, pc, cmd, frames, bounds, history>>

(* eval: SIGCHLD is blocked, and the child forked; a mutant forgets the    *)
(* former.                                                                 *)
ForkMaskNone == {}
ForkMask == {"CHLD"}

Fork(p) ==
    /\ LoopAt("fork") /\ proc[p] = "none"
    /\ proc' = [proc EXCEPT ![p] = "forked"]
    /\ mask' = mask \cup ForkMask
    /\ cmd' = [cmd EXCEPT !.pid = p]
    /\ pc' = "addjob"
    /\ UNCHANGED <<table, news, pending, frames, life, bounds, history>>

(* eval: addjob with all signals blocked, which are then unblocked; its    *)
(* result, when the list is full, is not looked at.                        *)
AddJobStep ==
    /\ LoopAt("addjob")
    /\ jobs' = AddJob(jobs, nextjid, cmd.pid, cmd.what)
    /\ nextjid' = NextJidAdd(jobs, nextjid)
    /\ dropped' = IF FreeSlot(jobs) = 0 THEN dropped \cup {cmd.pid} ELSE dropped
    /\ mask' = {}
    /\ pc' = IF cmd.what = "FG" THEN "check" ELSE "prompt"
    /\ UNCHANGED <<kernel, cmd, frames, life, bounds, meddled>>

(* waitfg: while (fgpid(jobs))...                                          *)
CheckFg ==
    /\ LoopAt("check")
    /\ pc' = IF FgPid(jobs) # NoPid THEN "suspend" ELSE "prompt"
    /\ UNCHANGED <<table, kernel, mask, cmd, frames, life, bounds, history>>

(* ... sigsuspend(&mask): from here a handler must run.                    *)
Suspend ==
    /\ LoopAt("suspend")
    /\ pc' = "suspended"
    /\ UNCHANGED <<table, kernel, mask, cmd, frames, life, bounds, history>>

(* do_bgfg: targetJob->pid is read...                                      *)
LoadPid ==
    /\ LoopAt("loadpid")
    /\ cmd' = [cmd EXCEPT !.pid = jobs[cmd.slot].pid]
    /\ pc' = "cont"
    /\ UNCHANGED <<table, kernel, mask, frames, life, bounds, history>>

(* ... and its group continued: Kill exits when there is no such group,    *)
(* and with pid 0 signals the shell's own, which ignores it.               *)
Continue ==
    /\ LoopAt("cont")
    /\ IF cmd.pid # NoPid /\ ~HasGroup(cmd.pid)
       THEN /\ life' = "kill error"
            /\ UNCHANGED <<kernel, pc>>
       ELSE /\ pc' = "setstate"
            /\ IF cmd.pid # NoPid /\ proc[cmd.pid] = "stopped"
               THEN /\ proc' = [proc EXCEPT ![cmd.pid] = "running"]
                    /\ news' = news \ {cmd.pid}
                    /\ pending' = pending \cup {"CHLD"}
               ELSE UNCHANGED kernel
            /\ UNCHANGED life
    /\ UNCHANGED <<table, mask, cmd, frames, bounds, history>>

(* ... and targetJob->state assigned, whatever the slot holds by now.      *)
SetState ==
    /\ LoopAt("setstate")
    /\ jobs' = [jobs EXCEPT ![cmd.slot].state = cmd.what]
    /\ pc' = IF cmd.what = "FG" THEN "check" ELSE "prompt"
    /\ UNCHANGED <<nextjid, kernel, mask, cmd, frames, life, bounds, history>>

-----------------------------------------------------------------------------
(* A pending signal that is not blocked interrupts the shell.  Its handler *)
(* runs with the signal itself blocked, and sigsuspend returns after it.   *)
Deliver(sig) ==
    /\ life = "running"
    /\ sig \in pending \ mask
    /\ pending' = pending \ {sig}
    /\ frames' = <<[sig |-> sig, at |-> "start", pid |-> NoPid, status |-> "none",
                    saved |-> mask]>> \o frames
    /\ mask' = mask \cup {sig}
    /\ pc' = IF pc = "suspended" THEN "check" ELSE pc
    /\ UNCHANGED <<table, proc, news, cmd, life, bounds, history>>

(* The handler goes on to another of its steps, or returns.                *)
Go(l, pid, status) ==
    frames' = [frames EXCEPT ![1] =
                [@ EXCEPT !.at = l, !.pid = pid, !.status = status]]

Return ==
    /\ frames' = Tail(frames)
    /\ mask' = Head(frames).saved

(* sigchld_handler: waitpid reports some child that ended, which it reaps, *)
(* or stopped...                                                           *)
WaitPid(p) ==
    /\ HandlerAt("CHLD", "start") /\ p \in news
    /\ news' = news \ {p}
    /\ proc' = [proc EXCEPT ![p] = IF @ = "zombie" THEN "reaped" ELSE @]
    /\ Go("update", p, IF proc[p] = "zombie" THEN "ended" ELSE "stopped")
    /\ UNCHANGED <<table, pending, mask, pc, cmd, life, bounds, history>>

(* ... and with all signals blocked its entry is deleted, or becomes ST:   *)
(* getjobpid returns NULL for a child that is not in the list.             *)
InWindow == pc \in {"loadpid", "cont", "setstate"}

UpdateJob ==
    LET h == Head(frames)
        i == GetJobPid(jobs, h.pid) IN
    /\ HandlerAt("CHLD", "update")
    /\ IF h.status = "ended"
       THEN /\ jobs' = DeleteJob(jobs, h.pid)
            /\ nextjid' = NextJidDelete(jobs, nextjid, h.pid)
            /\ UNCHANGED life
       ELSE IF i # 0
       THEN /\ jobs' = [jobs EXCEPT ![i].state = "ST"]
            /\ UNCHANGED <<nextjid, life>>
       ELSE /\ life' = "null dereferenced"
            /\ UNCHANGED table
    /\ Go("start", NoPid, "none")
    /\ meddled' = (meddled \/ (InWindow /\ i # 0 /\ i = cmd.slot))
    /\ UNCHANGED <<kernel, mask, pc, cmd, bounds, dropped>>

(* A mutant of the loop's end that handles one child per signal.           *)
WaitPidDoneEarly ==
    /\ HandlerAt("CHLD", "start")
    /\ Return
    /\ UNCHANGED <<table, kernel, pc, cmd, life, bounds, history>>

WaitPidDone ==
    /\ HandlerAt("CHLD", "start") /\ news = {}
    /\ Return
    /\ UNCHANGED <<table, kernel, pc, cmd, life, bounds, history>>

(* sigint_handler, sigtstp_handler: the foreground job is looked up with   *)
(* all signals blocked; without one the handler returns...                 *)
FindFg(sig) ==
    /\ HandlerAt(sig, "start")
    /\ IF FgPid(jobs) # NoPid
       THEN Go("kill", FgPid(jobs), "none") /\ UNCHANGED mask
       ELSE Return
    /\ UNCHANGED <<table, kernel, pc, cmd, life, bounds, history>>

(* ... and its group signalled with them unblocked again.  Kill exits when *)
(* there is no such group.                                                 *)
Forward(sig) ==
    LET p == Head(frames).pid IN
    /\ HandlerAt(sig, "kill")
    /\ IF ~HasGroup(p)
       THEN /\ life' = "kill error"
            /\ UNCHANGED <<kernel, frames, mask>>
       ELSE /\ Return
            /\ UNCHANGED life
            /\ CASE proc[p] = "running" ->
                        /\ proc' = [proc EXCEPT ![p] =
                                IF sig = "INT" THEN "zombie" ELSE "stopped"]
                        /\ Tell(p)
                 [] OTHER -> UNCHANGED kernel
    /\ UNCHANGED <<table, pc, cmd, bounds, history>>

-----------------------------------------------------------------------------
LoopStep ==
    \/ \E p \in Pids : Fork(p)
    \/ AddJobStep \/ CheckFg \/ Suspend
    \/ LoadPid \/ Continue \/ SetState

HandlerStep ==
    \/ \E p \in Pids : WaitPid(p)
    \/ UpdateJob \/ WaitPidDone
    \/ \E sig \in {"INT", "TSTP"} : FindFg(sig) \/ Forward(sig)

Command ==
    \/ \E what \in {"FG", "BG"} :
        \/ /\ \E p \in Pids : proc[p] = "none"
           /\ ReadRun(what)
        \/ \E jid \in {0} \cup {jobs[i].jid : i \in Slots} :
            ReadBuiltin(what, jid)
    \/ ReadBlank \/ Quit

Child ==
    \E p \in Pids : ChildSetpgid(p) \/ ChildEnds(p) \/ ChildStops(p)

(* The shell has ended, or hangs: waitfg went to sleep after the last       *)
(* signal there was (408-410).                                             *)
Ended == life # "running" /\ UNCHANGED vars

Hang ==
    /\ LoopAt("suspended")
    /\ pending = {} /\ keys = MaxKeys
    /\ \A p \in Pids : proc[p] \notin {"forked", "running"}
    /\ UNCHANGED vars

Next ==
    \/ LoopStep \/ HandlerStep \/ Command \/ Child \/ Ended \/ Hang
    \/ \E sig \in Signals : Deliver(sig)
    \/ \E sig \in {"INT", "TSTP"} : Key(sig)

Spec == Init /\ [][Next]_vars

(* The shell is scheduled and its signals are delivered.  Neither the user *)
(* nor the children need do anything.                                      *)
Fairness ==
    /\ WF_vars(LoopStep)
    /\ WF_vars(HandlerStep)
    /\ \A sig \in Signals : WF_vars(Deliver(sig))

LiveSpec == Spec /\ Fairness

-----------------------------------------------------------------------------
Frame == [sig : Signals, at : {"start", "update", "kill"},
          pid : Pids \cup {NoPid}, status : {"none", "ended", "stopped"},
          saved : SUBSET Signals]

TypeOK ==
    /\ jobs \in [Slots -> Entry]
    /\ nextjid \in Nat \ {0}
    /\ proc \in [Pids -> ProcStates]
    /\ news \subseteq Pids
    /\ pending \subseteq Signals /\ mask \subseteq Signals
    /\ pc \in PCs
    /\ cmd \in [what : {"none", "FG", "BG"}, pid : Pids \cup {NoPid},
                slot : Slots \cup {0}]
    /\ frames \in Seq(Frame)
    /\ \A i, k \in 1 .. Len(frames) : frames[i].sig = frames[k].sig => i = k
    /\ life \in {"running", "quit", "kill error", "null dereferenced"}
    /\ builtins \in 0 .. MaxBuiltins /\ keys \in 0 .. MaxKeys
    /\ meddled \in BOOLEAN /\ dropped \subseteq Pids

Listed == {jobs[i].pid : i \in Slots} \ {NoPid}

(* The children waitpid has reported and the handler has not yet entered   *)
(* in the list.                                                            *)
BeingUpdated ==
    {frames[i].pid : i \in {k \in 1 .. Len(frames) : frames[k].at = "update"}}

(* The list and the kernel agree on who the shell's children are: no child *)
(* has two entries, and none is listed after it was reaped: eval's addjob  *)
(* never comes after the handler's deletejob (tsh.c:236-249).              *)
ListTracksChildren ==
    /\ \A i, k \in Slots :
        jobs[i].pid = jobs[k].pid /\ jobs[i].pid # NoPid => i = k
    /\ \A p \in Listed :
        proc[p] \in {"none", "reaped"} => p \in BeingUpdated

(* Every child is listed, from addjob to its end, unless the list was full *)
(* when it was started (248-255: the result of addjob is not looked at).   *)
NoChildForgotten ==
    \A p \in Pids \ dropped :
        \/ proc[p] \in {"none", "reaped"}
        \/ p \in Listed
        \/ pc = "addjob" /\ cmd.pid = p

(* While a child has ended or stopped and waitpid has not told, SIGCHLD is  *)
(* pending or its handler is in the loop that will ask: pending signals do *)
(* not count, so one handler must report all there is (436).               *)
NoNewsLost ==
    news # {} =>
        "CHLD" \in pending \/ \E i \in 1 .. Len(frames) : frames[i].sig = "CHLD"

(* At most 1 job can be in the FG state (tsh.c:35).                        *)
AtMostOneFg ==
    \A i, k \in Slots :
        jobs[i].state = "FG" /\ jobs[k].state = "FG" => i = k

(* No handler and no news: the list is up to date.                         *)
Settled == frames = << >> /\ news = {} /\ "CHLD" \notin pending

(* Unless a handler changes the entry that do_bgfg works on, between its   *)
(* lookup and its last assignment (tsh.c:363-394), the list is sound: one  *)
(* foreground job at most, none while the prompt waits for a command, and  *)
(* once settled a job is ST exactly when its process is stopped.           *)
SoundUnlessMeddled ==
    ~meddled =>
        /\ AtMostOneFg
        /\ \A i \in Slots : (jobs[i].pid = NoPid) <=> (jobs[i].state = "UNDEF")
        /\ pc = "prompt" => FgPid(jobs) = NoPid
        /\ life = "running" /\ Settled /\ ~InWindow =>
            \A i \in Slots : jobs[i].pid # NoPid =>
                (jobs[i].state = "ST" <=> proc[jobs[i].pid] = "stopped")

(* sigchld_handler reaps every zombie, whatever the loop is doing: a       *)
(* running shell is again and again without one, and a process id, used    *)
(* once here, stays reaped.                                                *)
ZombiesReaped ==
    []<>(life # "running" \/ \A p \in Pids : proc[p] # "zombie")

(* waitfg blocks until the process is no longer the foreground process     *)
(* (tsh.c:402): with no foreground job it does not stay in sigsuspend.     *)
WaitfgReturns ==
    (pc = "suspended" /\ FgPid(jobs) = NoPid) ~> (pc # "suspended" \/ life # "running")
=============================================================================
