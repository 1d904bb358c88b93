--------------------------- MODULE ForegroundCheck ---------------------------
(***************************************************************************)
(* The tests watch the shell from outside: proc_check.py of src/           *)
(* pexpect-dpty polls the terminal until the shell has given it away and   *)
(* then looks in /proc whether the new owner is a child of the shell.      *)
(* This module composes that observer with the shell, its handler and its  *)
(* children (module JobControl).  The observer takes no lock: whatever it  *)
(* has read may have changed by the time it uses it.                       *)
(***************************************************************************)
EXTENDS JobControl

VARIABLES
  check,        (* where wait_until_child_is_in_foreground is; a test that *)
                (* is between two calls is at "poll"                       *)
  process_pid   (* the group it takes for the foreground job               *)

observer == <<check, process_pid>>
allVars == <<vars, observer>>

CheckInit == Init /\ check = "poll" /\ process_pid = Shell

(* The loop goes round as long as the shell owns the terminal, until it    *)
(* raises: the test may call again.  With timeout=None the whole of it,    *)
(* the rest of the function included, is skipped.                          *)
StopPolling ==
  /\ check = "poll"
  /\ terminal # Shell
  /\ check' = "owner"
  /\ UNCHANGED <<process_pid, vars>>

(* The second tcgetpgrp.  The shell is not its own child: for its pid the *)
(* call raises, whatever else the stat file says.                          *)
ReadOwner ==
  /\ check = "owner"
  /\ check' = IF terminal = Shell THEN "poll" ELSE "stat"
  /\ process_pid' = terminal
  /\ UNCHANGED vars

(* check_foreground_process: /proc/<pid>/stat is there, for a zombie, too; *)
(* the file, read all at once, has pgrp equal to tpgid, and ppid is the    *)
(* shell.  Whether the file is there is tested twice, with the same        *)
(* consequence.                                                            *)
OwnsTty == Exists(process_pid) /\ pgrp[process_pid] = terminal
ChildOfShell == pc \notin Dead
Accepts == OwnsTty /\ ChildOfShell

(* The call ends: it returns if it accepts, and raises otherwise.          *)
CheckStat ==
  /\ check = "stat"
  /\ check' = "poll"
  /\ process_pid' = Shell
  /\ UNCHANGED vars

CheckStep ==
  \/ StopPolling \/ ReadOwner \/ CheckStat

CheckNext == CheckStep \/ (Next /\ UNCHANGED observer)

CheckSpec == CheckInit /\ [][CheckNext]_allVars

-----------------------------------------------------------------------------
(* What the tests conclude is so: a process that is accepted is one of the *)
(* job that is in the foreground or that the shell has in hand, or the     *)
(* shell is on its way to take the terminal back.  In particular no        *)
(* process passes for the foreground job while the shell is at its prompt. *)
OfForegroundJob(p) ==
  \E j \in Jids : /\ Used(j) /\ p \in Unreaped(j)
                  /\ (status[j] = "FOREGROUND" \/ cur = j)
AcceptedIsForeground ==
  check = "stat" /\ Accepts =>
    OfForegroundJob(process_pid) \/ pc \in {"unblock", "back1", "back2"}
=============================================================================
