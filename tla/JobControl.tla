----------------------------- MODULE JobControl -----------------------------
(***************************************************************************)
(* The job control of cush, src/src/cush.c: the read-eval loop of main,    *)
(* handle_job, the job table jid2job, wait_for_job, handle_child_status,   *)
(* the SIGCHLD handler and the builtins that act on jobs, with the         *)
(* terminal handling of src/src/termstate_management.c they call.          *)
(*                                                                         *)
(* The shell is one thread of control, `pc', and a signal handler that can *)
(* interrupt it wherever SIGCHLD is not blocked.  The steps of the         *)
(* children (module Kernel) interleave with both.  A step of the shell is  *)
(* one system call or one stretch of code between two of them; the handler *)
(* and the children may act between any two steps of the main thread.      *)
(***************************************************************************)
EXTENDS Integers, Kernel

CONSTANTS
  MAXJOBS,      (* size of jid2job; slot 0 is never used                   *)
  MaxCmds,      (* bound: the longest pipeline the user types              *)
  Unset         (* the content of a field nobody has assigned              *)

ASSUME JobControlAssumption ==
  /\ MAXJOBS \in Nat /\ MAXJOBS >= 2
  /\ MaxCmds \in Nat \ {0}
  /\ Unset \notin Pids \cup {Shell} \cup TtyModes

(* The job identifiers add_job may assign, and the index the loops start   *)
(* from, which names no job.                                               *)
Jids == 1 .. (MAXJOBS - 1)
NoJid == 0

(* enum job_status; "none" stands for an empty slot of jid2job.            *)
JobStatus == {"FOREGROUND", "BACKGROUND", "STOPPED", "NEEDSTERMINAL", "DONE"}

(* Where the main thread can be, and the ways the shell comes to an end.   *)
Labels == {"prompt", "eval", "spawn", "wait", "unblock",
           "back1", "back2", "back3",
           "fg1", "fg2", "fg3", "fg4", "fg5", "bg1", "sweep", "exitsweep"}
Dead == {"exited", "segv", "abort", "fatal_tcsetpgrp", "fatal_waitpid",
         "ttou_stopped"}

VARIABLES
  status,       (* job->status, or "none" where jid2job is NULL            *)
  alive,        (* job->num_processes_alive                                *)
  pids,         (* the cmd->pid of the job's commands that were spawned    *)
  pgid,         (* job->pgid                                               *)
  saved,        (* job->saved_tty_state                                    *)
  pc,           (* what the main thread does next                          *)
  cur,          (* the job in hand; in a sweep, delete_dead_jobs's index   *)
  left,         (* commands of the pipeline in hand still to be spawned    *)
  inHandler,    (* sigchld_handler has interrupted the main thread         *)
  blocked       (* the signals the main thread has blocked                 *)

table == <<status, alive, pids, pgid, saved>>
control == <<pc, cur, left, inHandler, blocked>>
vars == <<kernelVars, table, control>>

TypeOK ==
  /\ KernelTypeOK
  /\ status \in [Jids -> JobStatus \cup {"none"}]
  /\ alive \in [Jids -> Int]
  /\ pids \in [Jids -> SUBSET Pids]
  /\ pgid \in [Jids -> Pids \cup {Unset}]
  /\ saved \in [Jids -> TtyModes \cup {Unset}]
  /\ pc \in Labels \cup Dead
  /\ cur \in 0 .. MAXJOBS
  /\ left \in 0 .. MaxCmds
  /\ inHandler \in BOOLEAN
  /\ blocked \in SUBSET {"CHLD", "TTOU"}

Init ==
  /\ KernelInit
  /\ status = [j \in Jids |-> "none"]
  /\ alive = [j \in Jids |-> 0]
  /\ pids = [j \in Jids |-> {}]
  /\ pgid = [j \in Jids |-> Unset]
  /\ saved = [j \in Jids |-> Unset]
  /\ pc = "prompt"
  /\ cur = NoJid
  /\ left = 0
  /\ inHandler = FALSE
  /\ blocked = {}

-----------------------------------------------------------------------------
(* The job table                                                           *)

Used(j) == status[j] # "none"

(* get_job_from_jid: atoi accepts any number, a jid outside the table      *)
(* finds nothing just as an empty slot does.                               *)
JobExists(j) == j \in Jids /\ Used(j)

(* The processes of job j that the shell has not reaped.                   *)
Unreaped(j) == {p \in pids[j] : Exists(p)}

(* The slot add_job picks: the lowest one that is empty.                   *)
IsFreshJid(j) == ~Used(j) /\ \A k \in Jids : ~Used(k) => j <= k

(* _get_job_from_pid returns the job with the lowest jid one of whose      *)
(* commands has this pid.                                                  *)
IsJobOf(j, p) ==
  /\ Used(j) /\ p \in pids[j]
  /\ \A k \in Jids : Used(k) /\ p \in pids[k] => j <= k

(* The effect of delete_job on the table.                                  *)
DeleteJob(j) ==
  /\ status' = [status EXCEPT ![j] = "none"]
  /\ alive' = [alive EXCEPT ![j] = 0]
  /\ pids' = [pids EXCEPT ![j] = {}]
  /\ pgid' = [pgid EXCEPT ![j] = Unset]
  /\ saved' = [saved EXCEPT ![j] = Unset]

-----------------------------------------------------------------------------
(* handle_child_status                                                     *)

(* termstate_give_terminal_back_to_shell where nothing can interleave with *)
(* it: SIGCHLD is blocked here, and after tcsetpgrp no child is in the     *)
(* foreground to touch the attributes before tcsetattr.  It blocks SIGTTOU *)
(* first; the unblocking at its end finds the main thread's own mask       *)
(* either without SIGTTOU or about to be restored by the handler's return. *)
ReclaimUnsampled ==     (* variant: termstate_sample was never called *)
  /\ terminal' = Shell
  /\ tty' = Unset

ReclaimTerminal ==
  /\ terminal' = Shell
  /\ tty' = ShellTty

KeepTerminal == UNCHANGED <<terminal, tty>>

(* num_processes_alive is tested before it is decremented.                 *)
LastButOne(j) == alive[j] = 2    (* variant: off by one *)

LastProcess(j) == alive[j] = 1

StoppedUnmarked(j, how) ==       (* variant: the status is not updated *)
  /\ IF status[j] = "FOREGROUND"
       THEN saved' = [saved EXCEPT ![j] = tty] /\ ReclaimTerminal
       ELSE UNCHANGED saved /\ KeepTerminal
  /\ UNCHANGED <<status, alive>>

ChildStopped(j, how) ==
  /\ IF status[j] = "FOREGROUND"
       THEN saved' = [saved EXCEPT ![j] = tty] /\ ReclaimTerminal
       ELSE UNCHANGED saved /\ KeepTerminal
  /\ status' = [status EXCEPT ![j] =
                  IF how = "ttystop" THEN "NEEDSTERMINAL" ELSE "STOPPED"]
  /\ UNCHANGED alive

ChildExited(j) ==
  /\ IF status[j] = "FOREGROUND" /\ LastProcess(j)
       THEN ReclaimTerminal ELSE KeepTerminal
  /\ status' = [status EXCEPT ![j] =
                  IF @ = "BACKGROUND" /\ LastProcess(j) THEN "DONE" ELSE @]
  /\ alive' = [alive EXCEPT ![j] = @ - 1]
  /\ UNCHANGED saved

SignaledUncounted(j) ==          (* variant: the counter is not updated *)
  KeepTerminal /\ UNCHANGED <<status, alive, saved>>

ChildSignaled(j) ==
  /\ IF status[j] = "FOREGROUND" /\ LastProcess(j)
       THEN ReclaimTerminal ELSE KeepTerminal
  /\ alive' = [alive EXCEPT ![j] = @ - 1]
  /\ UNCHANGED <<status, saved>>

(* The job of child p is updated from the status waitpid reported.         *)
ChildOfJob(p, j) ==
  /\ IsJobOf(j, p)
  /\ \/ event[p] \in {"stopped", "ttystop"} /\ ChildStopped(j, event[p])
     \/ event[p] = "exited" /\ ChildExited(j)
     \/ event[p] = "signaled" /\ ChildSignaled(j)
  /\ UNCHANGED pc

(* No job has this pid: each branch dereferences the NULL it was given.    *)
ChildOfNoJob(p) ==
  /\ \A j \in Jids : ~IsJobOf(j, p)
  /\ pc' = "segv"
  /\ UNCHANGED <<status, alive, saved>> /\ KeepTerminal

(* waitpid returns p and handle_child_status is called with its status.    *)
ReapAndHandle(p) ==
  /\ Waitpid(p)
  /\ (\E j \in Jids : ChildOfJob(p, j)) \/ ChildOfNoJob(p)
  /\ UNCHANGED <<sigs, chld, pids, pgid, cur, left, inHandler, blocked>>

-----------------------------------------------------------------------------
(* sigchld_handler.  The kernel blocks SIGCHLD while it runs and restores  *)
(* the interrupted mask when it returns, so `blocked' stays what it was.   *)

Deliver ==
  /\ pc \notin Dead /\ ~inHandler /\ chld /\ "CHLD" \notin blocked
  /\ inHandler' = TRUE
  /\ chld' = FALSE
  /\ UNCHANGED <<pstate, pgrp, event, sigs, terminal, tty, table,
                 pc, cur, left, blocked>>

HandlerReap(p) == inHandler /\ pc \notin Dead /\ ReapAndHandle(p)

ReturnAfterOne ==                (* variant: if in the place of while *)
  /\ inHandler /\ pc \notin Dead
  /\ inHandler' = FALSE
  /\ UNCHANGED <<kernelVars, table, pc, cur, left, blocked>>

(* waitpid with WNOHANG has nothing left to report.                        *)
HandlerReturn ==
  /\ inHandler /\ pc \notin Dead
  /\ \A p \in Pids : ~Waitable(p)
  /\ inHandler' = FALSE
  /\ UNCHANGED <<kernelVars, table, pc, cur, left, blocked>>

Handler == Deliver \/ HandlerReturn \/ \E p \in Pids : HandlerReap(p)

-----------------------------------------------------------------------------
(* main: one line is read, its pipelines are run, dead jobs are deleted    *)

Main(l) == pc = l /\ ~inHandler

Goto(l) == pc' = l /\ UNCHANGED inHandler

ReadLine ==
  /\ Main("prompt") /\ Goto("eval")
  /\ UNCHANGED <<kernelVars, table, cur, left, blocked>>

(* readline returns NULL at the end of the input, and main returns.        *)
EndOfFile ==
  /\ Main("prompt") /\ Goto("exited")
  /\ UNCHANGED <<kernelVars, table, cur, left, blocked>>

(* The last pipeline of the line is done: delete_dead_jobs begins.         *)
EndLine ==
  /\ Main("eval") /\ Goto("sweep")
  /\ cur' = 1
  /\ UNCHANGED <<kernelVars, table, left, blocked>>

NearlyFinished(j) == Used(j) /\ alive[j] <= 1    (* variant: off by one *)

Finished(j) == Used(j) /\ alive[j] = 0

(* One round of delete_dead_jobs, called at the end of a line ("sweep")    *)
(* and by the exit builtin ("exitsweep").  SIGCHLD is not blocked.         *)
SweepStep(l) ==
  /\ Main(l) /\ cur \in Jids
  /\ cur' = cur + 1
  /\ IF Finished(cur) THEN DeleteJob(cur) ELSE UNCHANGED table
  /\ UNCHANGED <<kernelVars, pc, left, inHandler, blocked>>

SweepEnd(l, next) ==
  /\ Main(l) /\ cur \notin Jids /\ Goto(next)
  /\ cur' = NoJid
  /\ UNCHANGED <<kernelVars, table, left, blocked>>

Sweep ==
  \/ SweepStep("sweep") \/ SweepEnd("sweep", "prompt")
  \/ SweepStep("exitsweep") \/ SweepEnd("exitsweep", "exited")

-----------------------------------------------------------------------------
(* handle_job                                                              *)

(* signal_block(SIGCHLD) and add_job for a pipeline of n commands.         *)
StartJob(bg, n) ==
  /\ Main("eval") /\ Goto("spawn")
  /\ blocked' = blocked \cup {"CHLD"}
  /\ left' = n
  /\ \E j \in Jids :
       /\ IsFreshJid(j)
       /\ cur' = j
       /\ status' = [status EXCEPT ![j] =
                       IF bg THEN "BACKGROUND" ELSE "FOREGROUND"]
  /\ UNCHANGED <<kernelVars, alive, pids, pgid, saved>>

(* add_job finds no empty slot.                                            *)
TooManyJobs ==
  /\ Main("eval") /\ Goto("abort")
  /\ \A j \in Jids : Used(j)
  /\ UNCHANGED <<kernelVars, table, cur, left, blocked>>

(* posix_spawnp returns 0: the child has joined its group, the first one   *)
(* of a foreground job has taken the terminal, and it runs the program.    *)
SpawnOk(p) ==
  LET first == pids[cur] = {}
      group == IF first THEN p ELSE pgid[cur] IN
  /\ Main("spawn") /\ left > 0
  /\ Free(p)
  /\ Clone(p, group)
  /\ terminal' = IF first /\ status[cur] = "FOREGROUND" THEN group ELSE terminal
  /\ pgid' = [pgid EXCEPT ![cur] = group]
  /\ pids' = [pids EXCEPT ![cur] = @ \cup {p}]
  /\ alive' = [alive EXCEPT ![cur] = @ + 1]
  /\ left' = left - 1
  /\ UNCHANGED <<chld, tty, status, saved, pc, cur, inHandler, blocked>>

(* posix_spawnp fails and the job is deleted.  When it fails before there  *)
(* is a child, nothing else happens; when the exec in the child fails, the *)
(* child has become a process group and may own the terminal, and its      *)
(* death, although posix_spawn itself reaps it, leaves a SIGCHLD pending.  *)
SpawnFail ==
  /\ Main("spawn") /\ left > 0 /\ Goto("unblock")
  /\ DeleteJob(cur)
  /\ cur' = NoJid
  /\ left' = 0
  /\ \/ UNCHANGED <<chld, terminal>>
     \/ /\ chld' = TRUE
        /\ IF pids[cur] = {} /\ status[cur] = "FOREGROUND"
             THEN \E p \in Pids : Free(p) /\ terminal' = p
             ELSE UNCHANGED terminal
  /\ UNCHANGED <<pstate, pgrp, event, sigs, tty, blocked>>

(* Every command is spawned: wait for a foreground job, print the job id   *)
(* and group of a background job.                                          *)
EndSpawn ==
  /\ Main("spawn") /\ left = 0
  /\ Goto(IF status[cur] = "FOREGROUND" THEN "wait" ELSE "unblock")
  /\ UNCHANGED <<kernelVars, table, cur, left, blocked>>

MustWaitForAll == status[cur] = "FOREGROUND" /\ alive[cur] > 1    (* variant *)

(* wait_for_job's condition.                                               *)
MustWait == status[cur] = "FOREGROUND" /\ alive[cur] > 0

(* waitpid without WNOHANG: it blocks until a child has something to       *)
(* report, or fails with ECHILD when there is no child.                    *)
WaitReap ==
  /\ Main("wait") /\ MustWait
  /\ IF \A p \in Pids : ~Exists(p)
       THEN /\ Goto("fatal_waitpid")
            /\ UNCHANGED <<kernelVars, table, cur, left, blocked>>
       ELSE \E p \in Pids : ReapAndHandle(p)

WaitDone ==
  /\ Main("wait") /\ ~MustWait /\ Goto("unblock")
  /\ UNCHANGED <<kernelVars, table, cur, left, blocked>>

(* signal_unblock(SIGCHLD): a pending SIGCHLD is delivered before it       *)
(* returns.                                                                *)
UnblockChld ==
  /\ Main("unblock")
  /\ pc' = "back1"
  /\ blocked' = blocked \ {"CHLD"}
  /\ inHandler' = chld
  /\ chld' = FALSE
  /\ cur' = NoJid
  /\ UNCHANGED <<pstate, pgrp, event, sigs, terminal, tty, table, left>>

(* SIGTTOU stops a background process that touches the terminal without    *)
(* having blocked it; the shell does not survive that.                     *)
WouldStop == terminal # Shell /\ "TTOU" \notin blocked

(* termstate_give_terminal_back_to_shell: block SIGTTOU, tcsetpgrp, then   *)
(* tcsetattr and unblock.  SIGCHLD may arrive in between.                  *)
Back1Unblocked ==                (* variant: SIGTTOU is not blocked *)
  /\ Main("back1") /\ Goto("back2")
  /\ UNCHANGED <<kernelVars, table, cur, left, blocked>>

Back1 ==
  /\ Main("back1") /\ Goto("back2")
  /\ blocked' = blocked \cup {"TTOU"}
  /\ UNCHANGED <<kernelVars, table, cur, left>>

Back2 ==
  /\ Main("back2")
  /\ IF WouldStop
       THEN Goto("ttou_stopped") /\ UNCHANGED terminal
       ELSE Goto("back3") /\ terminal' = Shell
  /\ UNCHANGED <<pstate, pgrp, event, sigs, chld, tty, table, cur, left, blocked>>

Back3 ==
  /\ Main("back3")
  /\ IF WouldStop
       THEN Goto("ttou_stopped") /\ UNCHANGED <<tty, blocked>>
       ELSE Goto("eval") /\ tty' = ShellTty /\ blocked' = blocked \ {"TTOU"}
  /\ UNCHANGED <<pstate, pgrp, event, sigs, chld, terminal, table, cur, left>>

KeepIt ==                        (* variant: handle_job leaves it to the handler *)
  /\ Main("back1") /\ Goto("eval")
  /\ UNCHANGED <<kernelVars, table, cur, left, blocked>>

GiveBack == Back1 \/ Back2 \/ Back3

-----------------------------------------------------------------------------
(* handle_builtin                                                          *)

(* kill: SIGTERM to the job's group.                                       *)
Kill(j) ==
  /\ Main("eval") /\ JobExists(j)
  /\ Killpg(pgid[j], "TERM")
  /\ UNCHANGED <<pstate, pgrp, event, chld, terminal, tty, table, control>>

(* stop: SIGTSTP to the job's group.                                       *)
Stop(j) ==
  /\ Main("eval") /\ JobExists(j)
  /\ Killpg(pgid[j], "TSTP")
  /\ UNCHANGED <<pstate, pgrp, event, chld, terminal, tty, table, control>>

(* fg, first of its steps: the job is marked.                              *)
Fg(j) ==
  /\ Main("eval") /\ JobExists(j) /\ Goto("fg1")
  /\ cur' = j
  /\ status' = [status EXCEPT ![j] = "FOREGROUND"]
  /\ UNCHANGED <<kernelVars, alive, pids, pgid, saved, left, blocked>>

(* killpg(job->pgid, SIGCONT)                                              *)
Fg1 ==
  /\ Main("fg1") /\ Goto("fg2")
  /\ KillpgCont(pgid[cur])
  /\ UNCHANGED <<pgrp, terminal, tty, table, cur, left, blocked>>

(* termstate_give_terminal_to(NULL, job->pgid): block SIGTTOU, ...         *)
Fg2 ==
  /\ Main("fg2") /\ Goto("fg3")
  /\ blocked' = blocked \cup {"TTOU"}
  /\ UNCHANGED <<kernelVars, table, cur, left>>

(* ... tcsetpgrp, which fails when the group is no more, ...               *)
Fg3 ==
  /\ Main("fg3")
  /\ IF WouldStop
       THEN Goto("ttou_stopped") /\ UNCHANGED terminal
       ELSE IF Members(pgid[cur]) = {}
       THEN Goto("fatal_tcsetpgrp") /\ UNCHANGED terminal
       ELSE Goto("fg4") /\ terminal' = pgid[cur]
  /\ UNCHANGED <<pstate, pgrp, event, sigs, chld, tty, table, cur, left, blocked>>

(* ... and unblock SIGTTOU.                                                *)
Fg4 ==
  /\ Main("fg4") /\ Goto("fg5")
  /\ blocked' = blocked \ {"TTOU"}
  /\ UNCHANGED <<kernelVars, table, cur, left>>

(* signal_block(SIGCHLD), before wait_for_job.                             *)
Fg5 ==
  /\ Main("fg5") /\ Goto("wait")
  /\ blocked' = blocked \cup {"CHLD"}
  /\ UNCHANGED <<kernelVars, table, cur, left>>

(* bg: the job is marked and then continued.  No argument, or one that     *)
(* names no job, is dereferenced all the same.                             *)
Bg(j) ==
  /\ Main("eval") /\ JobExists(j) /\ Goto("bg1")
  /\ cur' = j
  /\ status' = [status EXCEPT ![j] = "BACKGROUND"]
  /\ UNCHANGED <<kernelVars, alive, pids, pgid, saved, left, blocked>>

BgNoJob ==
  /\ Main("eval") /\ Goto("segv")
  /\ UNCHANGED <<kernelVars, table, cur, left, blocked>>

Bg1 ==
  /\ Main("bg1") /\ Goto("eval")
  /\ KillpgCont(pgid[cur])
  /\ cur' = NoJid
  /\ UNCHANGED <<pgrp, terminal, tty, table, left, blocked>>

(* exit: delete_dead_jobs, then the process ends.                          *)
Exit ==
  /\ Main("eval") /\ Goto("exitsweep")
  /\ cur' = 1
  /\ UNCHANGED <<kernelVars, table, left, blocked>>

-----------------------------------------------------------------------------
(* What the user types decides between these.                              *)
Command ==
  \/ \E bg \in BOOLEAN, n \in 1 .. MaxCmds : StartJob(bg, n)
  \/ TooManyJobs
  \/ \E j \in Jids : Kill(j) \/ Stop(j) \/ Fg(j) \/ Bg(j)
  \/ BgNoJob
  \/ Exit
  \/ EndLine

(* What the shell does without being told.                                 *)
ShellStep ==
  \/ Sweep
  \/ \E p \in Pids : SpawnOk(p)
  \/ SpawnFail
  \/ EndSpawn
  \/ WaitReap
  \/ WaitDone
  \/ UnblockChld
  \/ GiveBack
  \/ Fg1 \/ Fg2 \/ Fg3 \/ Fg4 \/ Fg5
  \/ Bg1

(* The children outlive the shell; what they do then no longer concerns it.*)
Environment == pc \notin Dead /\ KernelStep /\ UNCHANGED <<table, control>>

Terminated == pc \in Dead /\ UNCHANGED vars

Next ==
  \/ ReadLine
  \/ EndOfFile
  \/ Command
  \/ ShellStep
  \/ Handler
  \/ Environment
  \/ Terminated

Spec == Init /\ [][Next]_vars

-----------------------------------------------------------------------------
(* Fairness.  The shell takes its next step whenever it can, and a SIGCHLD *)
(* that is pending and not blocked is delivered.  Nothing is assumed of    *)
(* the user, nor of the children.                                          *)
FairSpec == Spec /\ WF_vars(ShellStep) /\ WF_vars(Handler)

-----------------------------------------------------------------------------
(* Safety                                                                  *)

(* num_processes_alive is the number of the job's processes that have not  *)
(* been reaped, whoever reaped the others: the handler, wait_for_job for   *)
(* this job or wait_for_job for another one.                               *)
AliveCount == \A j \in Jids : Used(j) => alive[j] = Cardinality(Unreaped(j))

(* wait_for_job never blocks on a job that can no longer change: one of    *)
(* its processes runs or has a status to report.                           *)
NoLostWakeup ==
  pc = "wait" /\ MustWait =>
    \E p \in pids[cur] : pstate[p] = "run" \/ Waitable(p)

(* wait_for_job's waitpid never fails: the comment in it calls a failure a *)
(* logic bug of the shell.                                                 *)
WaitNeverFails == pc # "fatal_waitpid"

(* No status report is forgotten: although one SIGCHLD stands for many     *)
(* children, one is pending or being handled while anything is unreported. *)
NoLostSigchld ==
  pc \notin Dead => \A p \in Pids : Waitable(p) => chld \/ inHandler

(* Between two pipelines and while it reads a line the shell has the       *)
(* terminal, with its own attributes, and has no signal blocked.  Its own  *)
(* are those termstate_init sampled when it started.  The header says      *)
(* more: those a foreground process left when it last exited of itself     *)
(* (termstate_management.h:27-33).  The code samples no more than once, so *)
(* that what an exiting process has set is undone like all the rest.       *)
ShellOwnsPrompt ==
  pc \in {"prompt", "eval", "sweep", "exitsweep"} =>
    terminal = Shell /\ tty = ShellTty /\ blocked = {}

(* At most one job that still has processes is in the foreground.          *)
OneLiveForeground ==
  Cardinality({j \in Jids : status[j] = "FOREGROUND" /\ alive[j] > 0}) <= 1

(* While the shell waits for a foreground job, that job has the terminal,  *)
(* until the last of its processes has ended or one has stopped.           *)
ForegroundOwnsTerminal == pc = "wait" /\ MustWait => terminal = pgid[cur]

(* The shell never touches the terminal as a background process without    *)
(* SIGTTOU blocked, even where the handler interrupts the hand-over.       *)
NeverStoppedByTerminal == pc # "ttou_stopped"

(* A job reported as Done has no process left.                             *)
DoneMeansDone == \A j \in Jids : status[j] = "DONE" => Unreaped(j) = {}

(* A step that removes a job from the table finds all its processes reaped.*)
DeletesDead == \A j \in Jids : Used(j) /\ ~Used(j)' => Unreaped(j) = {}

(* delete_dead_jobs, interrupted by the handler as it may be, deletes only *)
(* jobs whose processes have all been reaped.                              *)
SweepDeletesDead ==
  [][(pc \in {"sweep", "exitsweep"}) => DeletesDead]_vars

-----------------------------------------------------------------------------
(* Liveness, under FairSpec                                                *)

(* Every child that dies is reaped, as long as the shell lives.            *)
ZombiesAreReaped ==
  \A p \in Pids : pstate[p] = "zombie" ~> pstate[p] = "reaped" \/ pc \in Dead

(* The shell returns from wait_for_job when none of the job's processes    *)
(* runs any more, and already when one of them has stopped, unless that    *)
(* one is killed before the shell looks.                                   *)
WaitReturns ==
  /\ (pc = "wait" /\ \A p \in pids[cur] : pstate[p] # "run") ~> pc # "wait"
  /\ \A p \in Pids :
       (pc = "wait" /\ p \in pids[cur] /\ pstate[p] = "stop")
         ~> (pc # "wait" \/ pstate[p] # "stop")

-----------------------------------------------------------------------------
(* What the documentation says and the code does not do.                   *)

(* delete_job: "should be called only when all processes that were forked  *)
(* for this job are known to have terminated".                             *)
DeleteOnlyWhenDead == [][DeletesDead]_vars

(* enum job_status: STOPPED is "job is stopped via SIGSTOP".  With every   *)
(* SIGCHLD handled, a job that is listed as Stopped is stopped.            *)
StoppedMeansStopped ==
  pc = "prompt" /\ ~inHandler /\ ~chld =>
    \A j \in Jids : status[j] = "STOPPED" /\ alive[j] > 0 =>
      \E p \in pids[j] : pstate[p] = "stop"

(* README, fg: "sends that job to the foreground".  It does not end the    *)
(* shell.                                                                  *)
FgNeverFatal == pc # "fatal_tcsetpgrp"

=============================================================================
