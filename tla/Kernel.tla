------------------------------- MODULE Kernel -------------------------------
(***************************************************************************)
(* The part of a Unix kernel that cush relies on: its children, their      *)
(* process groups, the status changes waitpid reports, SIGCHLD, and the    *)
(* controlling terminal with its foreground group and its attributes.      *)
(*                                                                         *)
(* None of this is code of the repository: it is modelled from how         *)
(* src/cush.c, src/termstate_management.c and src/signal_support.c use     *)
(* it.  The module gives the effect of each system call as an operator on  *)
(* the kernel's variables, and the steps the children take on their own.   *)
(***************************************************************************)
EXTENDS Naturals, FiniteSets

CONSTANTS
  Pids,         (* process identifiers the kernel may hand out             *)
  Shell,        (* the shell's own process group, shell_pgrp               *)
  TtyModes,     (* terminal attribute settings (struct termios)            *)
  ShellTty,     (* the setting sampled by termstate_init                   *)
  ReusePids     (* TRUE: an identifier may be handed out again after a wrap *)

ASSUME KernelAssumption ==
  /\ IsFiniteSet(Pids)
  /\ Shell \notin Pids
  /\ ShellTty \in TtyModes
  /\ ReusePids \in BOOLEAN

VARIABLES
  pstate,       (* what each child is doing                                *)
  pgrp,         (* the process group each child is in                      *)
  event,        (* the status change waitpid would report for a child      *)
  sigs,         (* job-control signals sent to a child, not yet delivered  *)
  chld,         (* SIGCHLD is pending for the shell                        *)
  terminal,     (* the foreground process group of the terminal            *)
  tty           (* the current terminal attributes                         *)

kernelVars == <<pstate, pgrp, event, sigs, chld, terminal, tty>>

KernelTypeOK ==
  /\ pstate \in [Pids -> {"free", "run", "stop", "zombie", "reaped"}]
  /\ pgrp \in [Pids -> Pids \cup {Shell}]
  /\ event \in [Pids -> {"none", "stopped", "ttystop", "exited", "signaled"}]
  /\ sigs \in [Pids -> SUBSET {"TSTP", "TERM"}]
  /\ chld \in BOOLEAN
  /\ terminal \in Pids \cup {Shell}
  /\ tty \in TtyModes

KernelInit ==
  /\ pstate = [p \in Pids |-> "free"]
  /\ pgrp = [p \in Pids |-> Shell]
  /\ event = [p \in Pids |-> "none"]
  /\ sigs = [p \in Pids |-> {}]
  /\ chld = FALSE
  /\ terminal = Shell
  /\ tty = ShellTty

-----------------------------------------------------------------------------
(* State functions                                                         *)

Live(p) == pstate[p] \in {"run", "stop"}

(* A child the shell has not reaped: running, stopped or a zombie.         *)
Exists(p) == pstate[p] \in {"run", "stop", "zombie"}

Members(g) == {p \in Pids : Exists(p) /\ pgrp[p] = g}

(* waitpid(-1, ..., WUNTRACED) has something to say about p.               *)
Waitable(p) == event[p] # "none"

(* An identifier clone may return: never used, or, after the identifiers   *)
(* have wrapped around, reaped and no longer the name of a group.          *)
Free(p) ==
  \/ pstate[p] = "free"
  \/ ReusePids /\ pstate[p] = "reaped" /\ Members(p) = {}

-----------------------------------------------------------------------------
(* System calls, as effects on the kernel's variables                      *)

(* A process p of group g starts to run.                                   *)
Clone(p, g) ==
  /\ pstate' = [pstate EXCEPT ![p] = "run"]
  /\ pgrp' = [pgrp EXCEPT ![p] = g]
  /\ event' = [event EXCEPT ![p] = "none"]
  /\ sigs' = [sigs EXCEPT ![p] = {}]

(* waitpid returns p: its report is consumed, and a zombie disappears and  *)
(* leaves its group.                                                       *)
Waitpid(p) ==
  /\ Waitable(p)
  /\ event' = [event EXCEPT ![p] = "none"]
  /\ IF pstate[p] = "zombie"
       THEN /\ pstate' = [pstate EXCEPT ![p] = "reaped"]
            /\ pgrp' = [pgrp EXCEPT ![p] = Shell]
       ELSE UNCHANGED <<pstate, pgrp>>

(* killpg(g, s) for a signal that stays pending until the process runs.    *)
Killpg(g, s) ==
  sigs' = [p \in Pids |->
             IF pgrp[p] = g /\ Live(p) THEN sigs[p] \cup {s} ELSE sigs[p]]

(* killpg(g, SIGCONT): every stopped member runs again, its unreported     *)
(* stop is forgotten, pending stop signals are discarded, and the parent   *)
(* is sent a SIGCHLD that waitpid has no report for.                       *)
KillpgCont(g) ==
  /\ pstate' = [p \in Pids |->
                  IF pgrp[p] = g /\ pstate[p] = "stop" THEN "run" ELSE pstate[p]]
  /\ event' = [p \in Pids |->
                  IF pgrp[p] = g /\ pstate[p] = "stop" THEN "none" ELSE event[p]]
  /\ sigs' = [p \in Pids |->
                  IF pgrp[p] = g /\ Live(p) THEN sigs[p] \ {"TSTP"} ELSE sigs[p]]
  /\ chld' = (chld \/ \E p \in Pids : pgrp[p] = g /\ pstate[p] = "stop")

-----------------------------------------------------------------------------
(* Steps of the children and of the user's keyboard                        *)

BecomesZombie(p, how) ==
  /\ pstate' = [pstate EXCEPT ![p] = "zombie"]
  /\ event' = [event EXCEPT ![p] = how]
  /\ sigs' = [sigs EXCEPT ![p] = {}]
  /\ chld' = TRUE
  /\ UNCHANGED <<pgrp, terminal, tty>>

BecomesStopped(p, how) ==
  /\ pstate' = [pstate EXCEPT ![p] = "stop"]
  /\ event' = [event EXCEPT ![p] = how]
  /\ sigs' = [sigs EXCEPT ![p] = @ \ {"TSTP"}]
  /\ chld' = TRUE
  /\ UNCHANGED <<pgrp, terminal, tty>>

(* The program calls exit().                                               *)
ProcExit(p) == pstate[p] = "run" /\ BecomesZombie(p, "exited")

(* A fatal signal from anywhere: ^C, a fault, SIGKILL.  SIGKILL also ends  *)
(* a stopped process.                                                      *)
ProcKilled(p) == Live(p) /\ BecomesZombie(p, "signaled")

(* A pending SIGTERM is delivered: only to a process that runs.            *)
ProcTerm(p) ==
  /\ pstate[p] = "run" /\ "TERM" \in sigs[p]
  /\ BecomesZombie(p, "signaled")

(* SIGTSTP is delivered, or somebody sends SIGSTOP.                        *)
ProcStop(p) == pstate[p] = "run" /\ BecomesStopped(p, "stopped")

(* A background process reads the terminal or sets its attributes and is   *)
(* stopped with SIGTTIN or SIGTTOU.                                        *)
ProcTtyStop(p) ==
  /\ pstate[p] = "run" /\ pgrp[p] # terminal
  /\ BecomesStopped(p, "ttystop")

(* A foreground process changes the terminal's attributes.                 *)
ProcSetTty(p) ==
  /\ pstate[p] = "run" /\ pgrp[p] = terminal
  /\ tty' \in TtyModes
  /\ UNCHANGED <<pstate, pgrp, event, sigs, chld, terminal>>

(* The user types ^Z while a job is in the foreground.                     *)
KeySuspend ==
  /\ terminal # Shell
  /\ Killpg(terminal, "TSTP")
  /\ UNCHANGED <<pstate, pgrp, event, chld, terminal, tty>>

KernelStep ==
  \/ \E p \in Pids : \/ ProcExit(p) \/ ProcKilled(p) \/ ProcTerm(p)
                     \/ ProcStop(p) \/ ProcTtyStop(p) \/ ProcSetTty(p)
  \/ KeySuspend

=============================================================================
