------------------------ MODULE JobControl_ownership ------------------------
(***************************************************************************)
(* Theorems about who owns the terminal in JobControl: the shell at its    *)
(* prompt, the one job in the foreground while the shell waits for it.     *)
(***************************************************************************)
EXTENDS JobControl_proofs

-----------------------------------------------------------------------------
(* The shell at home.  None of this depends on how the kernel hands out    *)
(* identifiers.                                                            *)

(* The signals the main thread has blocked, by where it is.                *)
Unmasked == {"prompt", "eval", "sweep", "exitsweep", "fg1", "fg2", "fg5", "bg1",
             "back1"}
MaskOf(l) ==
  IF l \in Unmasked THEN {}
  ELSE IF l \in {"spawn", "wait", "unblock"} THEN {"CHLD"} ELSE {"TTOU"}
MasksKept == pc \notin Dead => blocked = MaskOf(pc)

(* No child is in the shell's own group, so none has the terminal when the *)
(* shell has it.                                                           *)
GroupsApart == \A p \in Pids : Exists(p) => pgrp[p] # Shell

(* Where the terminal is the shell's, and where its attributes are, too.   *)
Home == {"prompt", "eval", "sweep", "exitsweep", "fg1", "fg2", "fg3", "bg1"}
AtHome ==
  /\ pc \in Home \cup {"back3"} => terminal = Shell
  /\ pc \in Home => tty = ShellTty

HomeInv == TypeInv /\ MasksKept /\ GroupsApart /\ AtHome /\ NeverStoppedByTerminal

LEMMA InitHome == Init => HomeInv
<1> SUFFICES ASSUME Init PROVE HomeInv
  OBVIOUS
<1>1. TypeInv
  BY InitType
<1>2. MasksKept /\ GroupsApart /\ AtHome /\ NeverStoppedByTerminal
  BY DEF Init, KernelInit, MasksKept, MaskOf, Unmasked, GroupsApart, Exists, AtHome,
         Home, NeverStoppedByTerminal, Dead
<1> QED
  BY <1>1, <1>2 DEF HomeInv

(* What the recording of a child's status can do to the job table and to   *)
(* the terminal.                                                           *)
LEMMA Recorded ==
  ASSUME TypeInv, NEW p \in Pids, ReapAndHandle(p)
  PROVE  /\ UNCHANGED <<pids, pgid, cur, left, blocked>>
         /\ pc' \in {pc, "segv"}
         /\ \/ UNCHANGED <<terminal, tty>>
            \/ terminal' = Shell /\ tty' = ShellTty
         /\ \A q \in Pids : /\ Exists(q)' => Exists(q) /\ pgrp'[q] = pgrp[q]
                            /\ pstate[q] # "free" => pstate'[q] # "free"
         /\ \A j \in Jids : /\ Used(j)' <=> Used(j)
                            /\ status'[j] = "FOREGROUND" => status[j] = "FOREGROUND"
                            /\ alive'[j] <= alive[j]
                            /\ alive'[j] # alive[j] => Used(j)
<1>1. TypeOK /\ KernelTypeOK
  BY DEF TypeInv, TypeOK
<1>2. UNCHANGED <<pids, pgid, cur, left, blocked>>
  BY DEF ReapAndHandle
<1>3. \A q \in Pids : /\ Exists(q)' => Exists(q) /\ pgrp'[q] = pgrp[q]
                      /\ pstate[q] # "free" => pstate'[q] # "free"
  BY <1>1 DEF ReapAndHandle, Waitpid, KernelTypeOK, Exists
<1>4. CASE ChildOfNoJob(p)
  BY <1>1, <1>2, <1>3, <1>4 DEF ChildOfNoJob, KeepTerminal, Used, TypeOK
<1>5. ASSUME NEW i \in Jids, ChildOfJob(p, i)
      PROVE  /\ pc' = pc
             /\ \/ UNCHANGED <<terminal, tty>>
                \/ terminal' = Shell /\ tty' = ShellTty
             /\ \A j \in Jids :
                  /\ Used(j)' <=> Used(j)
                  /\ status'[j] = "FOREGROUND" => status[j] = "FOREGROUND"
                  /\ alive'[j] <= alive[j]
                  /\ alive'[j] # alive[j] => Used(j)
  <2>1. Used(i) /\ pc' = pc
    BY <1>5 DEF ChildOfJob, IsJobOf
  <2>2. CASE ChildStopped(i, event[p])
    BY <1>1, <2>1, <2>2
    DEF ChildStopped, ReclaimTerminal, KeepTerminal, TypeOK, Used, JobStatus
  <2>3. CASE ChildExited(i) \/ ChildSignaled(i)
    BY <1>1, <2>1, <2>3
    DEF ChildExited, ChildSignaled, ReclaimTerminal, KeepTerminal, TypeOK, Used,
        JobStatus
  <2> QED
    BY <1>5, <2>1, <2>2, <2>3 DEF ChildOfJob
<1> QED
  BY <1>2, <1>3, <1>4, <1>5 DEF ReapAndHandle

LEMMA HomeStep == HomeInv /\ [Next]_vars => HomeInv'
<1> SUFFICES ASSUME HomeInv, [Next]_vars PROVE HomeInv'
  OBVIOUS
<1> USE DEF Main, Goto, table, control, kernelVars, Dead, NeverStoppedByTerminal
<1>1. TypeInv' /\ TypeInv /\ TypeOK /\ KernelTypeOK /\ InHand /\ Peopled /\ Grouped
  BY TypeStep DEF HomeInv, TypeInv, TypeOK
<1>2. MasksKept /\ GroupsApart /\ AtHome /\ pc # "ttou_stopped"
  BY DEF HomeInv
<1> DEFINE Goal == MasksKept' /\ GroupsApart' /\ AtHome' /\ pc' # "ttou_stopped"
<1> SUFFICES Goal
  BY <1>1 DEF HomeInv
<1> USE DEF MasksKept, MaskOf, Unmasked, AtHome, Home, Labels
(* The group of the job in hand is not the shell's.                        *)
<1>3. pc \in {"spawn", "fg3"} => cur \in Jids
  BY <1>1 DEF InHand
<1>4. ASSUME UNCHANGED <<pstate, pgrp>> PROVE GroupsApart'
  BY <1>2, <1>4 DEF GroupsApart, Exists
<1>5. CASE UNCHANGED vars
  BY <1>2, <1>4, <1>5 DEF vars
<1>6. CASE ReadLine \/ EndOfFile \/ EndLine \/ Exit \/ TooManyJobs \/ BgNoJob
  BY <1>2, <1>4, <1>6
  DEF ReadLine, EndOfFile, EndLine, Exit, TooManyJobs, BgNoJob
<1>7. ASSUME \/ SweepStep("sweep") \/ SweepEnd("sweep", "prompt")
             \/ SweepStep("exitsweep") \/ SweepEnd("exitsweep", "exited")
      PROVE  Goal
  BY <1>2, <1>4, <1>7 DEF SweepStep, SweepEnd
<1>8. ASSUME NEW j \in Jids, Kill(j) \/ Stop(j) \/ Fg(j) \/ Bg(j)
      PROVE  Goal
  BY <1>2, <1>4, <1>8 DEF Kill, Stop, Fg, Bg
<1>9. ASSUME NEW bg, NEW n, StartJob(bg, n) PROVE Goal
  BY <1>2, <1>4, <1>9 DEF StartJob
<1>10. ASSUME NEW p \in Pids, SpawnOk(p) PROVE Goal
  <2> DEFINE group == IF pids[cur] = {} THEN p ELSE pgid[cur]
  <2>1. cur \in Jids /\ group \in Pids /\ Clone(p, group) /\ pc = "spawn"
        /\ UNCHANGED <<pc, blocked>>
    BY <1>1, <1>10 DEF SpawnOk, InHand, Grouped
  <2>2. GroupsApart'
    BY <1>1, <1>2, <2>1, KernelAssumption DEF GroupsApart, Clone, Exists, KernelTypeOK
  <2> QED
    BY <1>2, <2>1, <2>2
<1>11. CASE SpawnFail \/ EndSpawn \/ WaitDone \/ UnblockChld
  BY <1>2, <1>4, <1>11 DEF SpawnFail, EndSpawn, WaitDone, UnblockChld
<1>12. CASE GiveBack
  BY <1>2, <1>4, <1>12 DEF GiveBack, Back1, Back2, Back3, WouldStop
<1>13. CASE Fg1 \/ Bg1
  <2>1. GroupsApart'
    BY <1>1, <1>2, <1>13 DEF Fg1, Bg1, KillpgCont, GroupsApart, Exists, KernelTypeOK
  <2> QED
    BY <1>2, <1>13, <2>1 DEF Fg1, Bg1
<1>14. CASE Fg2 \/ Fg4 \/ Fg5
  BY <1>2, <1>4, <1>14 DEF Fg2, Fg4, Fg5
<1>15. CASE Fg3
  BY <1>2, <1>4, <1>15 DEF Fg3, WouldStop
<1>16. ASSUME NEW p \in Pids, ReapAndHandle(p) PROVE Goal
  <2>1. GroupsApart'
    BY <1>1, <1>2, <1>16, Recorded DEF GroupsApart
  <2>2. /\ UNCHANGED blocked /\ pc' \in {pc, "segv"}
        /\ \/ UNCHANGED <<terminal, tty>>
           \/ terminal' = Shell /\ tty' = ShellTty
    BY <1>1, <1>16, Recorded
  <2> QED
    BY <1>2, <2>1, <2>2
<1>17. CASE WaitReap
  <2>1. CASE /\ pc' = "fatal_waitpid"
             /\ UNCHANGED <<kernelVars, table, cur, left, blocked>>
    BY <1>2, <1>4, <2>1
  <2> QED
    BY <1>16, <1>17, <2>1 DEF WaitReap
<1>18. CASE Deliver \/ HandlerReturn
  BY <1>2, <1>4, <1>18 DEF Deliver, HandlerReturn
<1>19. ASSUME NEW p \in Pids, HandlerReap(p) PROVE Goal
  BY <1>16, <1>19 DEF HandlerReap
<1>20. CASE Environment
  <2>1. UNCHANGED <<pgrp, terminal, pc, blocked>> /\ pc \notin Dead
    BY <1>20
    DEF Environment, KernelStep, ProcExit, ProcKilled, ProcTerm, ProcStop,
        ProcTtyStop, ProcSetTty, KeySuspend, BecomesZombie, BecomesStopped
  <2>2. \A p \in Pids : Exists(p)' => Exists(p)
    BY <1>1, <1>20
    DEF Environment, KernelStep, ProcExit, ProcKilled, ProcTerm, ProcStop,
        ProcTtyStop, ProcSetTty, KeySuspend, BecomesZombie, BecomesStopped,
        Exists, Live, KernelTypeOK
  <2>3. GroupsApart'
    BY <1>2, <2>1, <2>2 DEF GroupsApart
  <2>4. terminal = Shell => tty' = tty
    <3>1. ASSUME NEW p \in Pids, ProcSetTty(p) PROVE terminal # Shell
      BY <1>2, <3>1 DEF ProcSetTty, GroupsApart, Exists
    <3> QED
      BY <1>20, <3>1
      DEF Environment, KernelStep, ProcExit, ProcKilled, ProcTerm, ProcStop,
          ProcTtyStop, KeySuspend, BecomesZombie, BecomesStopped
  <2> QED
    BY <1>2, <2>1, <2>3, <2>4
<1> QED
  BY <1>5, <1>6, <1>7, <1>8, <1>9, <1>10, <1>11, <1>12, <1>13, <1>14, <1>15,
     <1>17, <1>18, <1>19, <1>20
  DEF Next, Command, ShellStep, Sweep, Handler, Terminated

(* Whatever its children did to the terminal, and wherever the handler     *)
(* interrupted the hand-over: when the shell reads a line or goes on to    *)
(* the next pipeline it has the terminal, the attributes it had when it    *)
(* started and an empty signal mask.                                       *)
THEOREM PromptOwned == Spec => []ShellOwnsPrompt
<1>1. HomeInv => ShellOwnsPrompt
  BY DEF HomeInv, ShellOwnsPrompt, MasksKept, MaskOf, Unmasked, AtHome, Home, Dead
<1> QED
  BY InitHome, HomeStep, <1>1, PTL DEF Spec

(* SIGTTOU is blocked wherever the shell touches a terminal that may not   *)
(* be its own.                                                             *)
THEOREM NotStopped == Spec => []NeverStoppedByTerminal
<1>1. HomeInv => NeverStoppedByTerminal
  BY DEF HomeInv
<1> QED
  BY InitHome, HomeStep, <1>1, PTL DEF Spec

-----------------------------------------------------------------------------
(* One job in the foreground.                                              *)

(* A job in the foreground that has processes left is the one in hand.     *)
Working == {"spawn", "wait", "fg1", "fg2", "fg3", "fg4", "fg5"}
OnlyInHand ==
  \A j \in Jids : status[j] = "FOREGROUND" /\ alive[j] > 0 =>
    j = cur /\ pc \in Working \cup Dead

(* An empty slot counts nothing.                                           *)
NothingLeft == \A j \in Jids : ~Used(j) => alive[j] = 0

ForeInv == TypeInv /\ OnlyInHand /\ NothingLeft

LEMMA InitFore == Init => ForeInv
<1> SUFFICES ASSUME Init PROVE ForeInv
  OBVIOUS
<1>1. OnlyInHand /\ NothingLeft
  BY DEF Init, OnlyInHand, NothingLeft
<1> QED
  BY <1>1, InitType DEF ForeInv

LEMMA ForeStep == ForeInv /\ [Next]_vars => ForeInv'
<1> SUFFICES ASSUME ForeInv, [Next]_vars PROVE ForeInv'
  OBVIOUS
<1> USE DEF Main, Goto, table, control, kernelVars, Dead, Working
<1>1. TypeInv' /\ TypeInv /\ TypeOK /\ InHand
  BY TypeStep DEF ForeInv, TypeInv
<1>2. OnlyInHand /\ NothingLeft
  BY DEF ForeInv
<1> DEFINE Goal == OnlyInHand' /\ NothingLeft'
<1> SUFFICES Goal
  BY <1>1 DEF ForeInv
<1> USE DEF OnlyInHand, NothingLeft, Used
<1>3. ASSUME UNCHANGED <<status, alive, cur>>, pc' = pc \/ pc' \in Working \cup Dead
      PROVE  Goal
  BY <1>2, <1>3
<1>4. ASSUME UNCHANGED <<status, alive>>, pc \notin Working \cup Dead PROVE Goal
  BY <1>2, <1>4
<1>5. CASE UNCHANGED vars \/ Deliver \/ HandlerReturn \/ Environment
  BY <1>3, <1>5 DEF vars, Deliver, HandlerReturn, Environment
<1>6. CASE \/ ReadLine \/ EndOfFile \/ EndLine \/ Exit \/ TooManyJobs \/ BgNoJob
           \/ UnblockChld \/ GiveBack \/ Bg1
  BY <1>4, <1>6
  DEF ReadLine, EndOfFile, EndLine, Exit, TooManyJobs, BgNoJob, UnblockChld,
      GiveBack, Back1, Back2, Back3, Bg1
<1>7. ASSUME NEW j \in Jids, Kill(j) \/ Stop(j) PROVE Goal
  BY <1>3, <1>7 DEF Kill, Stop
<1>8. ASSUME NEW j \in Jids, Fg(j) \/ Bg(j) PROVE Goal
  BY <1>1, <1>2, <1>8 DEF Fg, Bg, JobExists, TypeOK
<1>9. CASE Fg1 \/ Fg2 \/ Fg3 \/ Fg4 \/ Fg5
  BY <1>3, <1>9 DEF Fg1, Fg2, Fg3, Fg4, Fg5
<1>10. ASSUME NEW l \in {"sweep", "exitsweep"},
              SweepStep(l) \/ \E next : SweepEnd(l, next)
       PROVE  Goal
  <2>1. CASE UNCHANGED table
    BY <1>4, <1>10, <2>1 DEF SweepStep, SweepEnd
  <2>2. CASE SweepStep(l) /\ DeleteJob(cur)
    BY <1>1, <1>2, <2>2 DEF SweepStep, DeleteJob, TypeOK
  <2> QED
    BY <1>10, <2>1, <2>2 DEF SweepStep, SweepEnd
<1>11. ASSUME NEW bg, NEW n, StartJob(bg, n) PROVE Goal
  <2>1. PICK i \in Jids : /\ ~Used(i) /\ cur' = i
                          /\ status' = [status EXCEPT ![i] =
                               IF bg THEN "BACKGROUND" ELSE "FOREGROUND"]
    BY <1>11 DEF StartJob, IsFreshJid
  <2>2. pc = "eval" /\ pc' = "spawn" /\ alive' = alive
    BY <1>11 DEF StartJob
  <2> QED
    BY <1>1, <1>2, <2>1, <2>2 DEF TypeOK
<1>12. ASSUME NEW p \in Pids, SpawnOk(p) PROVE Goal
  BY <1>1, <1>2, <1>12 DEF SpawnOk, InHand, TypeOK
<1>13. CASE SpawnFail
  BY <1>1, <1>2, <1>13 DEF SpawnFail, DeleteJob, InHand, TypeOK
<1>14. CASE EndSpawn
  BY <1>1, <1>2, <1>14 DEF EndSpawn
<1>15. CASE WaitDone
  BY <1>1, <1>2, <1>15 DEF WaitDone, MustWait
<1>16. ASSUME NEW p \in Pids, ReapAndHandle(p) PROVE Goal
  <2>1. /\ UNCHANGED cur /\ pc' \in {pc, "segv"}
        /\ \A j \in Jids : /\ Used(j)' <=> Used(j)
                           /\ status'[j] = "FOREGROUND" => status[j] = "FOREGROUND"
                           /\ alive'[j] <= alive[j]
                           /\ alive'[j] # alive[j] => Used(j)
    BY <1>1, <1>16, Recorded
  <2>2. alive \in [Jids -> Int] /\ alive' \in [Jids -> Int]
    BY <1>1 DEF TypeInv, TypeOK
  <2>3. OnlyInHand'
    BY <1>2, <2>1, <2>2
  <2>4. NothingLeft'
    BY <1>2, <2>1, <2>2
  <2> QED
    BY <2>3, <2>4
<1>17. CASE WaitReap
  <2>1. CASE /\ pc' = "fatal_waitpid"
             /\ UNCHANGED <<kernelVars, table, cur, left, blocked>>
    BY <1>3, <2>1
  <2> QED
    BY <1>16, <1>17, <2>1 DEF WaitReap
<1>18. ASSUME NEW p \in Pids, HandlerReap(p) PROVE Goal
  BY <1>16, <1>18 DEF HandlerReap
<1> QED
  BY <1>5, <1>6, <1>7, <1>8, <1>9, <1>10, <1>11, <1>12, <1>13, <1>14, <1>15,
     <1>17, <1>18
  DEF Next, Command, ShellStep, Sweep, Handler, Terminated

(* There is one job in the foreground at most, not counting those that     *)
(* have ended and are only waiting to be deleted, however fg, bg, the      *)
(* handler and the children interleave.                                    *)
THEOREM OneForeground == Spec => []OneLiveForeground
<1>1. ASSUME ForeInv PROVE OneLiveForeground
  <2> DEFINE S == {j \in Jids : status[j] = "FOREGROUND" /\ alive[j] > 0}
  <2>1. S \in SUBSET {cur}
    BY <1>1 DEF ForeInv, OnlyInHand
  <2>2. IsFiniteSet({cur}) /\ Cardinality({cur}) = 1
    BY FS_Singleton
  <2>3. Cardinality(S) <= 1
    BY <2>1, <2>2, FS_Subset
  <2> QED
    BY <2>3 DEF OneLiveForeground
<1> QED
  BY InitFore, ForeStep, <1>1, PTL DEF Spec

-----------------------------------------------------------------------------
(* Whose the terminal is while the shell has a job in hand.  From here on  *)
(* identifiers are not reused, so that the accounting of processes holds.  *)

(* A job that is being spawned has the status it was given.                *)
NewStatus == pc = "spawn" => status[cur] \in {"FOREGROUND", "BACKGROUND"}

DoneIsOver == \A j \in Jids : status[j] = "DONE" => alive[j] = 0

(* The job in the foreground has the terminal, from its first process on.  *)
Waited == {"wait", "fg4", "fg5"}
Owner ==
  /\ pc = "spawn" /\ status[cur] = "FOREGROUND" /\ pids[cur] # {} =>
       terminal = pgid[cur]
  /\ pc \in Waited /\ MustWait => terminal = pgid[cur]

(* Nobody else gets it.                                                    *)
Tenant ==
  /\ pc = "spawn" /\ ~(status[cur] = "FOREGROUND" /\ pids[cur] # {}) =>
       terminal = Shell
  /\ pc \in Waited => terminal \in {Shell, pgid[cur]}

OwnInv ==
  /\ CountInv /\ HomeInv /\ ForeInv
  /\ NewStatus /\ DoneIsOver /\ Owner /\ Tenant

(* A process whose status is recorded is one its job still counts; so the  *)
(* terminal is taken back from the job in hand only, and only when that    *)
(* has ended or stopped.                                                   *)
LEMMA TakenBack ==
  ASSUME CountInv, ForeInv, NEW p \in Pids, ReapAndHandle(p)
  PROVE  \A j \in Jids :
           /\ DoneIsOver => (status'[j] = "DONE" => alive'[j] = 0)
           /\ (j = cur /\ status'[j] = "FOREGROUND" /\ alive'[j] > 0) =>
                terminal' = terminal
<1>1. TypeOK /\ KernelTypeOK /\ EventOK /\ AliveCount /\ OnlyInHand
  BY DEF CountInv, TypeInv, TypeOK, ForeInv, Books
<1>2. CASE ChildOfNoJob(p)
  BY <1>2 DEF ChildOfNoJob, KeepTerminal, DoneIsOver
<1>3. ASSUME NEW i \in Jids, ChildOfJob(p, i)
      PROVE  \A j \in Jids :
               /\ DoneIsOver => (status'[j] = "DONE" => alive'[j] = 0)
               /\ (j = cur /\ status'[j] = "FOREGROUND" /\ alive'[j] > 0) =>
                    terminal' = terminal
  <2>1. alive[i] \in Nat /\ alive[i] > 0
    <3>1. Used(i) /\ p \in Unreaped(i)
      BY <1>1, <1>3
      DEF ChildOfJob, IsJobOf, Unreaped, Exists, ReapAndHandle, Waitpid, Waitable,
          EventOK, KernelTypeOK
    <3>2. IsFiniteSet(Unreaped(i)) /\ alive[i] = Cardinality(Unreaped(i))
      BY <1>1, <3>1, UnreapedFinite DEF AliveCount
    <3> QED
      BY <3>1, <3>2, FS_EmptySet, FS_CardinalityType
  <2>2. status[i] = "FOREGROUND" => i = cur
    BY <1>1, <2>1 DEF OnlyInHand
  <2>3. CASE ChildStopped(i, event[p])
    <3>1. /\ alive' = alive /\ status'[i] \in {"STOPPED", "NEEDSTERMINAL"}
          /\ \A j \in Jids : j # i => status'[j] = status[j]
          /\ status[i] # "FOREGROUND" => terminal' = terminal
      BY <1>1, <2>3 DEF ChildStopped, KeepTerminal, TypeOK
    <3> QED
      BY <2>2, <3>1 DEF DoneIsOver
  <2>4. CASE ChildExited(i) \/ ChildSignaled(i)
    <3>1. /\ alive'[i] = alive[i] - 1
          /\ status'[i] = "DONE" => status[i] = "DONE" \/ alive[i] = 1
          /\ \A j \in Jids : j # i => status'[j] = status[j] /\ alive'[j] = alive[j]
          /\ status[i] # "FOREGROUND" \/ alive[i] # 1 => terminal' = terminal
      BY <1>1, <2>4
      DEF ChildExited, ChildSignaled, LastProcess, KeepTerminal, TypeOK
    <3> QED
      BY <2>1, <2>2, <3>1 DEF DoneIsOver
  <2> QED
    BY <1>3, <2>3, <2>4 DEF ChildOfJob
<1> QED
  BY <1>2, <1>3 DEF ReapAndHandle

LEMMA InitOwn == Init => OwnInv
<1> SUFFICES ASSUME Init PROVE OwnInv
  OBVIOUS
<1>1. NewStatus /\ DoneIsOver /\ Owner /\ Tenant
  BY DEF Init, NewStatus, DoneIsOver, Owner, Tenant, Waited
<1> QED
  BY <1>1, InitCount, InitHome, InitFore DEF OwnInv

LEMMA OwnStep ==
  ASSUME ~ReusePids, OwnInv, [Next]_vars
  PROVE  OwnInv'
<1> USE DEF Main, Goto, table, control, kernelVars
<1>1. CountInv /\ HomeInv /\ ForeInv /\ CountInv' /\ HomeInv' /\ ForeInv'
  BY CountStep, HomeStep, ForeStep DEF OwnInv
<1>2. TypeOK /\ KernelTypeOK /\ InHand /\ Masked /\ Peopled /\ AtHome
  BY <1>1 DEF CountInv, HomeInv, TypeInv, TypeOK
<1>3. NewStatus /\ DoneIsOver /\ Owner /\ Tenant
  BY DEF OwnInv
<1> DEFINE Goal == NewStatus' /\ DoneIsOver' /\ Owner' /\ Tenant'
<1> SUFFICES Goal
  BY <1>1 DEF OwnInv
<1> USE DEF NewStatus, DoneIsOver, Owner, Tenant, Waited, MustWait
<1>4. ASSUME UNCHANGED <<table, cur, terminal>>,
             pc' \in Waited \cup {"spawn"} => pc' = pc \/ {pc, pc'} \subseteq Waited
      PROVE  Goal
  BY <1>3, <1>4
<1>5. ASSUME pc' \notin Waited \cup {"spawn"},
             UNCHANGED <<status, alive>> \/ DeleteJob(cur)
      PROVE  Goal
  BY <1>2, <1>3, <1>5 DEF DeleteJob, TypeOK
<1>6. CASE UNCHANGED vars \/ Deliver \/ HandlerReturn \/ Environment
  <2>1. UNCHANGED <<table, pc, cur, terminal>>
    BY <1>6
    DEF vars, Deliver, HandlerReturn, Environment, KernelStep, ProcExit,
        ProcKilled, ProcTerm, ProcStop, ProcTtyStop, ProcSetTty, KeySuspend,
        BecomesZombie, BecomesStopped
  <2> QED
    BY <1>4, <2>1
<1>7. CASE \/ ReadLine \/ EndOfFile \/ EndLine \/ Exit \/ TooManyJobs \/ BgNoJob
           \/ UnblockChld \/ GiveBack \/ Bg1 \/ WaitDone \/ SpawnFail
           \/ Fg1 \/ Fg2
  BY <1>5, <1>7
  DEF ReadLine, EndOfFile, EndLine, Exit, TooManyJobs, BgNoJob, UnblockChld,
      GiveBack, Back1, Back2, Back3, Bg1, WaitDone, SpawnFail, Fg1, Fg2
<1>8. ASSUME NEW j \in Jids, Kill(j) \/ Stop(j) PROVE Goal
  BY <1>5, <1>8 DEF Kill, Stop
<1>9. ASSUME NEW j \in Jids, Fg(j) \/ Bg(j) PROVE Goal
  BY <1>2, <1>3, <1>9 DEF Fg, Bg, TypeOK
<1>10. CASE Fg3
  BY <1>3, <1>10 DEF Fg3
<1>11. CASE Fg4 \/ Fg5
  BY <1>4, <1>11 DEF Fg4, Fg5
<1>12. ASSUME NEW l \in {"sweep", "exitsweep"},
              SweepStep(l) \/ \E next \in {"prompt", "exited"} : SweepEnd(l, next)
       PROVE  Goal
  BY <1>5, <1>12 DEF SweepStep, SweepEnd
<1>13. ASSUME NEW bg, NEW n, StartJob(bg, n) PROVE Goal
  <2>1. PICK i \in Jids : /\ ~Used(i) /\ cur' = i
                          /\ status' = [status EXCEPT ![i] =
                               IF bg THEN "BACKGROUND" ELSE "FOREGROUND"]
    BY <1>13 DEF StartJob, IsFreshJid
  <2>2. pc = "eval" /\ pc' = "spawn" /\ UNCHANGED <<alive, pids, terminal>>
    BY <1>13 DEF StartJob
  <2>3. pids[i] = {}
    BY <1>1, <2>1 DEF CountInv, Books, EmptySlots
  <2>4. terminal = Shell
    BY <1>2, <2>2 DEF AtHome, Home
  <2> QED
    BY <1>2, <1>3, <2>1, <2>2, <2>3, <2>4 DEF TypeOK
<1>14. ASSUME NEW p \in Pids, SpawnOk(p) PROVE Goal
  <2>1. cur \in Jids /\ pc = "spawn"
    BY <1>2, <1>14 DEF SpawnOk, InHand
  <2>2. /\ UNCHANGED <<status, pc, cur>>
        /\ pids'[cur] = pids[cur] \cup {p}
        /\ pgid'[cur] = IF pids[cur] = {} THEN p ELSE pgid[cur]
        /\ terminal' = IF pids[cur] = {} /\ status[cur] = "FOREGROUND"
                         THEN p ELSE terminal
        /\ \A j \in Jids : j # cur => alive'[j] = alive[j]
    BY <1>2, <1>14, <2>1 DEF SpawnOk, TypeOK
  <2> QED
    BY <1>3, <2>1, <2>2
<1>15. CASE EndSpawn
  <2>1. cur \in Jids /\ pids[cur] # {}
    BY <1>2, <1>15 DEF EndSpawn, InHand, Peopled
  <2> QED
    BY <1>3, <1>15, <2>1 DEF EndSpawn
<1>16. ASSUME NEW p \in Pids, ReapAndHandle(p), pc # "spawn" PROVE Goal
  <2>1. /\ UNCHANGED <<pids, pgid, cur>>
        /\ pc' \in {pc, "segv"}
        /\ terminal' \in {Shell, terminal}
        /\ \A j \in Jids : /\ status'[j] = "FOREGROUND" => status[j] = "FOREGROUND"
                           /\ alive'[j] <= alive[j]
    BY <1>1, <1>16, Recorded DEF CountInv
  <2>2. \A j \in Jids : /\ status'[j] = "DONE" => alive'[j] = 0
                        /\ (j = cur /\ status'[j] = "FOREGROUND" /\ alive'[j] > 0) =>
                             terminal' = terminal
    BY <1>1, <1>3, <1>16, TakenBack
  <2>3. pc \in Waited => cur \in Jids
    BY <1>2 DEF InHand
  <2>4. \A j \in Jids : alive[j] \in Int /\ alive'[j] \in Int
    BY <1>1 DEF CountInv, TypeInv, TypeOK
  <2>5. Owner'
    BY <1>3, <1>16, <2>1, <2>2, <2>3, <2>4
  <2> QED
    BY <1>3, <1>16, <2>1, <2>2, <2>5
<1>17. CASE WaitReap
  <2>1. CASE /\ pc' = "fatal_waitpid"
             /\ UNCHANGED <<kernelVars, table, cur, left, blocked>>
    BY <1>5, <2>1
  <2> QED
    BY <1>16, <1>17, <2>1 DEF WaitReap
<1>18. ASSUME NEW p \in Pids, HandlerReap(p) PROVE Goal
  BY <1>2, <1>16, <1>18 DEF HandlerReap, Masked
<1> QED
  BY <1>6, <1>7, <1>8, <1>9, <1>10, <1>11, <1>12, <1>13, <1>14, <1>15, <1>17,
     <1>18
  DEF Next, Command, ShellStep, Sweep, Handler, Terminated

LEMMA Owned == ASSUME ~ReusePids PROVE Spec => []OwnInv
  BY InitOwn, OwnStep, PTL DEF Spec

(* From tcsetpgrp to the end of wait_for_job, the job the shell waits for  *)
(* has the terminal as long as one of its processes is left and none has   *)
(* been seen to stop, whatever the handler records in between.             *)
THEOREM ForegroundKept == ASSUME ~ReusePids PROVE Spec => []ForegroundOwnsTerminal
<1>1. OwnInv => ForegroundOwnsTerminal
  BY DEF OwnInv, Owner, Waited, ForegroundOwnsTerminal
<1> QED
  BY Owned, <1>1, PTL

(* A job is Done only when the last of its processes has been reaped.      *)
THEOREM DoneIsDone == ASSUME ~ReusePids PROVE Spec => []DoneMeansDone
<1>1. ASSUME OwnInv, NEW j \in Jids, status[j] = "DONE" PROVE Unreaped(j) = {}
  <2>1. Used(j) /\ alive[j] = 0 /\ TypeOK
    BY <1>1 DEF OwnInv, DoneIsOver, Used, CountInv, TypeInv
  <2>2. Cardinality(Unreaped(j)) = 0 /\ IsFiniteSet(Unreaped(j))
    BY <1>1, <2>1, UnreapedFinite DEF OwnInv, CountInv, Books, AliveCount
  <2> QED
    BY <2>2, FS_EmptySet
<1>2. OwnInv => DoneMeansDone
  BY <1>1 DEF DoneMeansDone
<1> QED
  BY Owned, <1>2, PTL
=============================================================================
