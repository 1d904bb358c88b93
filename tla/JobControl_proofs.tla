-------------------------- MODULE JobControl_proofs --------------------------
(***************************************************************************)
(* Theorems about JobControl, for any number of processes, job slots and   *)
(* commands in a pipeline.                                                 *)
(***************************************************************************)
EXTENDS JobControl, FiniteSetTheorems, TLAPS

-----------------------------------------------------------------------------
(* Type correctness.  The job in hand must be in the table for its fields  *)
(* to mean anything, and a job must have a process for its pgid to be one. *)

(* Where the main thread works on a job, the job is in the table.          *)
InHand ==
  pc \in {"spawn", "wait", "fg1", "fg2", "fg3", "fg4", "fg5", "bg1"} =>
    cur \in Jids /\ Used(cur)

(* SIGCHLD is blocked while jobs are built and waited for.                 *)
Masked ==
  pc \in {"spawn", "wait", "unblock"} => "CHLD" \in blocked /\ ~inHandler

(* A job has processes, unless its first one is still to be spawned.       *)
Peopled ==
  \A j \in Jids : Used(j) => \/ pids[j] # {}
                             \/ pc = "spawn" /\ j = cur /\ left > 0

(* The group of a job that has processes is one of a process.              *)
Grouped == \A j \in Jids : pids[j] # {} => pgid[j] \in Pids

TypeInv == TypeOK /\ InHand /\ Masked /\ Peopled /\ Grouped

LEMMA InitType == Init => TypeInv
<1> SUFFICES ASSUME Init PROVE TypeInv
  OBVIOUS
<1>1. KernelTypeOK
  BY KernelAssumption DEF Init, KernelInit, KernelTypeOK
<1>2. TypeOK
  <2>1. status \in [Jids -> JobStatus \cup {"none"}] /\ alive \in [Jids -> Int]
    BY DEF Init
  <2>2. pids \in [Jids -> SUBSET Pids]
    BY DEF Init
  <2>3. pgid \in [Jids -> Pids \cup {Unset}] /\ saved \in [Jids -> TtyModes \cup {Unset}]
    BY DEF Init
  <2>4. pc \in Labels \cup Dead /\ cur \in 0 .. MAXJOBS /\ left \in 0 .. MaxCmds
    BY JobControlAssumption DEF Init, Labels, NoJid
  <2> QED
    BY <1>1, <2>1, <2>2, <2>3, <2>4 DEF Init, TypeOK
<1>3. InHand /\ Masked /\ Peopled /\ Grouped
  BY DEF Init, InHand, Masked, Peopled, Grouped, Used
<1> QED
  BY <1>2, <1>3 DEF TypeInv

(* The steps of the children and of the keyboard.                          *)
LEMMA KernelType ==
  ASSUME KernelTypeOK, KernelStep
  PROVE  KernelTypeOK'
<1> USE DEF KernelTypeOK
<1>1. ASSUME NEW p \in Pids, NEW how \in {"exited", "signaled"}, BecomesZombie(p, how)
      PROVE  KernelTypeOK'
  BY <1>1 DEF BecomesZombie
<1>2. ASSUME NEW p \in Pids, NEW how \in {"stopped", "ttystop"}, BecomesStopped(p, how)
      PROVE  KernelTypeOK'
  BY <1>2 DEF BecomesStopped
<1>3. ASSUME NEW p \in Pids, ProcSetTty(p)
      PROVE  KernelTypeOK'
  BY <1>3 DEF ProcSetTty
<1>4. CASE KeySuspend
  BY <1>4 DEF KeySuspend, Killpg
<1> QED
  BY <1>1, <1>2, <1>3, <1>4
  DEF KernelStep, ProcExit, ProcKilled, ProcTerm, ProcStop, ProcTtyStop

(* The signals the shell sends.                                            *)
LEMMA KillpgType ==
  ASSUME KernelTypeOK, NEW g, NEW s \in {"TERM", "TSTP"}, Killpg(g, s)
  PROVE  sigs' \in [Pids -> SUBSET {"TSTP", "TERM"}]
  BY DEF KernelTypeOK, Killpg

LEMMA KillpgContType ==
  ASSUME KernelTypeOK, NEW g, KillpgCont(g), UNCHANGED <<pgrp, terminal, tty>>
  PROVE  KernelTypeOK'
  BY DEF KernelTypeOK, KillpgCont, Live

(* A child's status is recorded, by wait_for_job or by the handler.        *)
LEMMA ReapType ==
  ASSUME TypeInv, NEW p \in Pids, ReapAndHandle(p),
         pc \notin {"spawn"}
  PROVE  TypeInv'
<1> USE DEF TypeInv
<1>1. /\ pstate' \in [Pids -> {"free", "run", "stop", "zombie", "reaped"}]
      /\ pgrp' \in [Pids -> Pids \cup {Shell}]
      /\ event' \in [Pids -> {"none", "stopped", "ttystop", "exited", "signaled"}]
  BY DEF TypeOK, KernelTypeOK, ReapAndHandle, Waitpid
<1> DEFINE Recorded ==
             /\ status' \in [Jids -> JobStatus \cup {"none"}]
             /\ alive' \in [Jids -> Int]
             /\ saved' \in [Jids -> TtyModes \cup {Unset}]
             /\ terminal' \in Pids \cup {Shell} /\ tty' \in TtyModes
             /\ \A j \in Jids : Used(j)' <=> Used(j)
             /\ pc' \in {pc, "segv"}
<1>2. Recorded
  <2>1. CASE ChildOfNoJob(p)
    BY <2>1 DEF ChildOfNoJob, KeepTerminal, TypeOK, KernelTypeOK, Used
  <2>2. ASSUME NEW j \in Jids, ChildOfJob(p, j)
        PROVE  Recorded
    <3>1. status[j] # "none" /\ pc' = pc
      BY <2>2 DEF ChildOfJob, IsJobOf, Used
    <3>2. terminal' \in Pids \cup {Shell} /\ tty' \in TtyModes
      BY <2>2, KernelAssumption
      DEF ChildOfJob, ChildStopped, ChildExited, ChildSignaled, ReclaimTerminal,
          KeepTerminal, TypeOK, KernelTypeOK
    <3>3. CASE ChildStopped(j, event[p])
      BY <3>1, <3>2, <3>3, KernelAssumption
      DEF ChildStopped, ReclaimTerminal, KeepTerminal, TypeOK, KernelTypeOK, Used, JobStatus
    <3>4. CASE ChildExited(j) \/ ChildSignaled(j)
      BY <3>1, <3>2, <3>4 DEF ChildExited, ChildSignaled, TypeOK, Used, JobStatus
    <3> QED
      BY <2>2, <3>3, <3>4 DEF ChildOfJob
  <2> QED
    BY <2>1, <2>2 DEF ReapAndHandle
<1>3. UNCHANGED <<sigs, chld, pids, pgid, cur, left, inHandler, blocked>>
  BY DEF ReapAndHandle
<1>4. TypeOK'
  BY <1>1, <1>2, <1>3 DEF TypeOK, KernelTypeOK, Dead
<1>5. InHand' /\ Masked'
  BY <1>2, <1>3 DEF InHand, Masked
<1>6. Peopled' /\ Grouped'
  BY <1>2, <1>3 DEF Peopled, Grouped
<1> QED
  BY <1>4, <1>5, <1>6

LEMMA TypeStep == TypeInv /\ [Next]_vars => TypeInv'
<1> SUFFICES ASSUME TypeInv, [Next]_vars PROVE TypeInv'
  OBVIOUS
<1>0. TypeOK /\ KernelTypeOK /\ InHand /\ Masked /\ Peopled /\ Grouped
  BY DEF TypeInv, TypeOK
<1>a. MAXJOBS \in Nat /\ MAXJOBS >= 2 /\ MaxCmds \in Nat \ {0}
  BY JobControlAssumption
<1> USE DEF Main, Goto, table, control, kernelVars
<1>1. ASSUME UNCHANGED <<kernelVars, table>>, blocked' = blocked, left' = left,
             inHandler' = inHandler, pc' \in (Labels \cup Dead) \ {"spawn"},
             pc # "spawn", cur' \in 0 .. MAXJOBS, InHand', Masked'
      PROVE  TypeInv'
  BY <1>0, <1>1 DEF TypeInv, TypeOK, KernelTypeOK, Peopled, Grouped, Used
<1>2. CASE ReadLine \/ EndOfFile
  BY <1>0, <1>1, <1>2
  DEF ReadLine, EndOfFile, InHand, Masked, TypeOK, Labels, Dead
<1>3. CASE EndLine \/ Exit
  BY <1>0, <1>a, <1>1, <1>3
  DEF EndLine, Exit, InHand, Masked, TypeOK, Labels, Dead
<1>4. CASE TooManyJobs \/ BgNoJob
  BY <1>0, <1>1, <1>4
  DEF TooManyJobs, BgNoJob, InHand, Masked, TypeOK, Labels, Dead
<1>5. ASSUME NEW l \in {"sweep", "exitsweep"}, NEW next \in {"prompt", "exited"},
             SweepEnd(l, next)
      PROVE  TypeInv'
  BY <1>0, <1>a, <1>1, <1>5
  DEF SweepEnd, InHand, Masked, TypeOK, Labels, Dead, NoJid
<1>6. ASSUME NEW l \in {"sweep", "exitsweep"}, SweepStep(l)
      PROVE  TypeInv'
  <2>1. pc' = pc /\ pc = l /\ cur' \in 0 .. MAXJOBS
    BY <1>a, <1>6 DEF SweepStep, Jids
  <2>2. CASE UNCHANGED table
    BY <1>0, <1>6, <2>1, <2>2, <1>1
    DEF SweepStep, InHand, Masked, TypeOK, Labels, Dead
  <2>3. CASE DeleteJob(cur)
    <3>1. TypeOK'
      BY <1>0, <1>6, <2>1, <2>3 DEF SweepStep, DeleteJob, TypeOK, KernelTypeOK
    <3>2. Peopled' /\ Grouped' /\ InHand' /\ Masked'
      BY <1>0, <1>6, <2>1, <2>3
      DEF SweepStep, DeleteJob, TypeOK, Peopled, Grouped, Used, InHand, Masked
    <3> QED
      BY <3>1, <3>2 DEF TypeInv
  <2> QED
    BY <1>6, <2>2, <2>3 DEF SweepStep
<1>7. ASSUME NEW bg \in BOOLEAN, NEW n \in 1 .. MaxCmds, StartJob(bg, n)
      PROVE  TypeInv'
  <2>1. PICK j \in Jids : /\ IsFreshJid(j) /\ cur' = j
                          /\ status' = [status EXCEPT ![j] =
                               IF bg THEN "BACKGROUND" ELSE "FOREGROUND"]
    BY <1>7 DEF StartJob
  <2>2. TypeOK'
    BY <1>0, <1>a, <1>7, <2>1
    DEF StartJob, TypeOK, KernelTypeOK, Jids, Labels, JobStatus
  <2>3. Peopled' /\ Grouped' /\ InHand' /\ Masked'
    BY <1>0, <1>a, <1>7, <2>1
    DEF StartJob, TypeOK, Peopled, Grouped, Used, InHand, Masked
  <2> QED
    BY <2>2, <2>3 DEF TypeInv
<1>8. ASSUME NEW p \in Pids, SpawnOk(p)
      PROVE  TypeInv'
  <2> DEFINE group == IF pids[cur] = {} THEN p ELSE pgid[cur]
  <2>1. cur \in Jids /\ Used(cur) /\ group \in Pids
    BY <1>0, <1>8 DEF SpawnOk, InHand, Grouped
  <2>2. KernelTypeOK'
    BY <1>0, <1>8, <2>1 DEF SpawnOk, Clone, KernelTypeOK
  <2>3. TypeOK'
    BY <1>0, <1>a, <1>8, <2>1, <2>2 DEF SpawnOk, TypeOK
  <2>4. Peopled' /\ Grouped' /\ InHand' /\ Masked'
    BY <1>0, <1>8, <2>1
    DEF SpawnOk, TypeOK, Peopled, Grouped, Used, InHand, Masked
  <2> QED
    BY <2>3, <2>4 DEF TypeInv
<1>9. CASE SpawnFail
  <2>1. cur \in Jids /\ Used(cur)
    BY <1>0, <1>9 DEF SpawnFail, InHand
  <2>2. KernelTypeOK'
    BY <1>0, <1>9 DEF SpawnFail, KernelTypeOK
  <2>3. TypeOK'
    BY <1>0, <1>a, <1>9, <2>1, <2>2 DEF SpawnFail, DeleteJob, TypeOK, Labels, NoJid
  <2>4. Peopled' /\ Grouped' /\ InHand' /\ Masked'
    BY <1>0, <1>9, <2>1
    DEF SpawnFail, DeleteJob, TypeOK, Peopled, Grouped, Used, InHand, Masked
  <2> QED
    BY <2>3, <2>4 DEF TypeInv
<1>10. CASE EndSpawn
  <2>1. TypeOK'
    BY <1>0, <1>10 DEF EndSpawn, TypeOK, KernelTypeOK, Labels
  <2>2. Peopled' /\ Grouped' /\ InHand' /\ Masked'
    BY <1>0, <1>10 DEF EndSpawn, TypeOK, Peopled, Grouped, Used, InHand, Masked
  <2> QED
    BY <2>1, <2>2 DEF TypeInv
<1>11. CASE WaitReap
  <2>1. ASSUME NEW p \in Pids, Main("wait"), ReapAndHandle(p)
        PROVE  TypeInv'
    BY <2>1, ReapType
  <2>2. CASE /\ Goto("fatal_waitpid")
             /\ UNCHANGED <<kernelVars, table, cur, left, blocked>>
    BY <1>0, <1>1, <1>11, <2>2
    DEF WaitReap, InHand, Masked, TypeOK, Labels, Dead
  <2> QED
    BY <1>11, <2>1, <2>2 DEF WaitReap
<1>12. CASE WaitDone
  BY <1>0, <1>1, <1>12 DEF WaitDone, InHand, Masked, TypeOK, Labels, Dead
<1>13. CASE UnblockChld
  <2>a. chld' \in BOOLEAN /\ inHandler' \in BOOLEAN
    BY <1>0, <1>13, Zenon DEF UnblockChld, KernelTypeOK
  <2>b. /\ UNCHANGED <<pstate, pgrp, event, sigs, terminal, tty, table, left>>
        /\ pc' \in Labels /\ cur' \in 0 .. MAXJOBS
        /\ blocked' \in SUBSET {"CHLD", "TTOU"}
    BY <1>0, <1>a, <1>13 DEF UnblockChld, TypeOK, Labels, NoJid
  <2>1. TypeOK'
    BY <1>0, <2>a, <2>b DEF TypeOK, KernelTypeOK
  <2>2. Peopled' /\ Grouped' /\ InHand' /\ Masked'
    BY <1>0, <1>13 DEF UnblockChld, Peopled, Grouped, Used, InHand, Masked
  <2> QED
    BY <2>1, <2>2 DEF TypeInv
<1>14. CASE GiveBack
  <2>1. TypeOK'
    BY <1>0, <1>14, KernelAssumption
    DEF GiveBack, Back1, Back2, Back3, TypeOK, KernelTypeOK, Labels, Dead
  <2>2. Peopled' /\ Grouped' /\ InHand' /\ Masked'
    BY <1>0, <1>14
    DEF GiveBack, Back1, Back2, Back3, Peopled, Grouped, Used, InHand, Masked
  <2> QED
    BY <2>1, <2>2 DEF TypeInv
<1>15. ASSUME NEW j \in Jids, Kill(j) \/ Stop(j)
       PROVE  TypeInv'
  <2>1. KernelTypeOK'
    BY <1>0, <1>15, KillpgType DEF Kill, Stop, KernelTypeOK
  <2> QED
    BY <1>0, <1>15, <2>1
    DEF Kill, Stop, TypeInv, TypeOK, Peopled, Grouped, Used, InHand, Masked
<1>16. ASSUME NEW j \in Jids, Fg(j) \/ Bg(j)
       PROVE  TypeInv'
  <2>a. /\ UNCHANGED <<kernelVars, alive, pids, pgid, saved, left, blocked, inHandler>>
        /\ cur' \in 0 .. MAXJOBS /\ pc' \in Labels
    BY <1>a, <1>16 DEF Fg, Bg, Jids, Labels
  <2>b. status' \in [Jids -> JobStatus \cup {"none"}]
    BY <1>0, <1>16 DEF Fg, Bg, TypeOK, JobStatus
  <2>1. TypeOK'
    BY <1>0, <2>a, <2>b DEF TypeOK, KernelTypeOK
  <2>2. Peopled' /\ Grouped' /\ InHand' /\ Masked'
    BY <1>0, <1>16
    DEF Fg, Bg, JobExists, TypeOK, Peopled, Grouped, Used, InHand, Masked
  <2> QED
    BY <2>1, <2>2 DEF TypeInv
<1>17. CASE Fg1 \/ Bg1
  <2>1. KernelTypeOK'
    BY <1>0, <1>17, KillpgContType DEF Fg1, Bg1
  <2>a. /\ UNCHANGED <<table, left, blocked, inHandler>>
        /\ cur' \in 0 .. MAXJOBS /\ pc' \in Labels
    BY <1>0, <1>a, <1>17 DEF Fg1, Bg1, TypeOK, Labels, NoJid
  <2>2. TypeOK'
    BY <1>0, <2>1, <2>a DEF TypeOK
  <2>3. Peopled' /\ Grouped' /\ InHand' /\ Masked'
    BY <1>0, <1>17 DEF Fg1, Bg1, Peopled, Grouped, Used, InHand, Masked
  <2> QED
    BY <2>2, <2>3 DEF TypeInv
<1>18. CASE Fg2 \/ Fg4 \/ Fg5
  <2>1. TypeOK'
    BY <1>0, <1>18 DEF Fg2, Fg4, Fg5, TypeOK, KernelTypeOK, Labels
  <2>2. Peopled' /\ Grouped' /\ InHand' /\ Masked'
    BY <1>0, <1>18 DEF Fg2, Fg4, Fg5, Peopled, Grouped, Used, InHand, Masked
  <2> QED
    BY <2>1, <2>2 DEF TypeInv
<1>19. CASE Fg3
  <2>1. cur \in Jids /\ pgid[cur] \in Pids
    BY <1>0, <1>19 DEF Fg3, InHand, Peopled, Grouped
  <2>2. TypeOK'
    BY <1>0, <1>19, <2>1 DEF Fg3, TypeOK, KernelTypeOK, Labels, Dead
  <2>3. Peopled' /\ Grouped' /\ InHand' /\ Masked'
    BY <1>0, <1>19 DEF Fg3, Peopled, Grouped, Used, InHand, Masked
  <2> QED
    BY <2>2, <2>3 DEF TypeInv
<1>20. CASE Deliver \/ HandlerReturn
  <2>1. TypeOK'
    BY <1>0, <1>20 DEF Deliver, HandlerReturn, TypeOK, KernelTypeOK
  <2>2. Peopled' /\ Grouped' /\ InHand' /\ Masked'
    BY <1>0, <1>20
    DEF Deliver, HandlerReturn, Peopled, Grouped, Used, InHand, Masked
  <2> QED
    BY <2>1, <2>2 DEF TypeInv
<1>21. ASSUME NEW p \in Pids, HandlerReap(p)
       PROVE  TypeInv'
  BY <1>0, <1>21, ReapType DEF HandlerReap, Masked
<1>22. CASE Environment
  BY <1>0, <1>22, KernelType
  DEF Environment, TypeInv, TypeOK, Peopled, Grouped, Used, InHand, Masked
<1>23. CASE UNCHANGED vars
  BY <1>0, <1>23
  DEF vars, TypeInv, TypeOK, KernelTypeOK, Peopled, Grouped, Used, InHand, Masked
<1> QED
  BY <1>2, <1>3, <1>4, <1>5, <1>6, <1>7, <1>8, <1>9, <1>10, <1>11, <1>12, <1>13,
     <1>14, <1>15, <1>16, <1>17, <1>18, <1>19, <1>20, <1>21, <1>22, <1>23
  DEF Next, Command, ShellStep, Sweep, Handler, Terminated

(* Every variable of the shell and the kernel keeps its type: in           *)
(* particular give_terminal_to is only ever asked to give the terminal to  *)
(* the process group of a job that has one.                                *)
THEOREM TypeCorrect == Spec => []TypeOK
<1>1. TypeInv => TypeOK
  BY DEF TypeInv
<1> QED
  BY InitType, TypeStep, <1>1, PTL DEF Spec

-----------------------------------------------------------------------------
(* The accounting of processes.  It needs identifiers not to be reused: a  *)
(* job keeps the pid of a process that was reaped, and _get_job_from_pid   *)
(* takes the first job that has the pid.                                   *)

(* The report waitpid has for a child fits what became of the child.       *)
EventOK ==
  \A p \in Pids :
    /\ event[p] \in {"exited", "signaled"} <=> pstate[p] = "zombie"
    /\ event[p] \in {"stopped", "ttystop"} => pstate[p] = "stop"

(* Every process of a job was spawned, and for that job alone.             *)
Known == \A j \in Jids : \A p \in pids[j] : pstate[p] # "free"
Disjoint == \A j, k \in Jids : j # k => pids[j] \cap pids[k] = {}

(* An empty slot has left nothing behind.                                  *)
EmptySlots == \A j \in Jids : ~Used(j) => pids[j] = {} /\ alive[j] = 0

Books == Known /\ Disjoint /\ EmptySlots /\ AliveCount

CountInv == TypeInv /\ EventOK /\ Books

LEMMA UnreapedFinite ==
  ASSUME TypeOK, NEW j \in Jids
  PROVE  IsFiniteSet(Unreaped(j)) /\ Cardinality(Unreaped(j)) \in Nat
<1>1. Unreaped(j) \subseteq Pids
  BY DEF Unreaped, TypeOK
<1> QED
  BY <1>1, KernelAssumption, FS_Subset, FS_CardinalityType

(* A step that neither spawns, reaps nor deletes keeps the books.          *)
LEMMA SameBooks ==
  ASSUME CountInv, TypeOK', UNCHANGED <<pids, alive>>,
         \A j \in Jids : Used(j)' <=> Used(j),
         \A p \in Pids : /\ Exists(p)' <=> Exists(p)
                         /\ pstate[p] # "free" => pstate'[p] # "free"
  PROVE  Books'
<1>1. \A j \in Jids : pids[j] \subseteq Pids
  BY DEF CountInv, TypeInv, TypeOK
<1>2. \A j \in Jids : Unreaped(j)' = Unreaped(j)
  BY <1>1 DEF Unreaped
<1>3. Known' /\ Disjoint' /\ EmptySlots'
  BY <1>1 DEF CountInv, Books, Known, Disjoint, EmptySlots
<1>4. AliveCount'
  BY <1>2 DEF CountInv, Books, AliveCount
<1> QED
  BY <1>3, <1>4 DEF Books

(* Deleting a job keeps the books of the others.                           *)
LEMMA DeleteBooks ==
  ASSUME CountInv, NEW i \in Jids, DeleteJob(i), UNCHANGED pstate
  PROVE  Books'
<1> USE DEF CountInv, TypeInv, Books
<1>1. TypeOK
  OBVIOUS
<1>2. /\ \A j \in Jids : j # i => /\ pids'[j] = pids[j] /\ alive'[j] = alive[j]
                                  /\ status'[j] = status[j]
      /\ pids'[i] = {} /\ alive'[i] = 0 /\ status'[i] = "none"
  BY <1>1 DEF DeleteJob, TypeOK
<1>3. Known' /\ Disjoint' /\ EmptySlots'
  BY <1>2 DEF Known, Disjoint, EmptySlots, Used
<1>4. \A j \in Jids : j # i => Unreaped(j)' = Unreaped(j)
  BY <1>2 DEF Unreaped, Exists
<1>5. AliveCount'
  BY <1>2, <1>4 DEF AliveCount, Used
<1> QED
  BY <1>3, <1>5

(* Recording what waitpid reported keeps the books: the process that was   *)
(* reaped, if one was, is struck off its job and no other.                 *)
LEMMA ReapBooks ==
  ASSUME CountInv, NEW p \in Pids, ReapAndHandle(p)
  PROVE  Books' /\ EventOK'
<1> USE DEF CountInv, TypeInv, Books
<1>1. TypeOK /\ KernelTypeOK
  BY DEF TypeOK
<1>2. EventOK'
  BY <1>1 DEF EventOK, ReapAndHandle, Waitpid, KernelTypeOK
<1>3. UNCHANGED pids /\ \A j \in Jids : pids[j] \subseteq Pids
  BY <1>1 DEF ReapAndHandle, TypeOK
<1>4. \A q \in Pids : q # p => pstate'[q] = pstate[q]
  BY <1>1 DEF ReapAndHandle, Waitpid, KernelTypeOK
<1>5. Known' /\ Disjoint'
  <2>1. \A q \in Pids : pstate[q] # "free" => pstate'[q] # "free"
    BY <1>1 DEF ReapAndHandle, Waitpid, KernelTypeOK
  <2> QED
    BY <1>3, <2>1 DEF Known, Disjoint
<1>6. CASE ChildOfNoJob(p)
  <2>1. \A j \in Jids : p \notin pids[j]
    <3> SUFFICES ASSUME NEW j \in Jids, p \in pids[j] PROVE FALSE
      OBVIOUS
    <3>1. Used(j) /\ \A k \in Jids : p \in pids[k] => k = j
      BY DEF EmptySlots, Disjoint
    <3>2. j <= j
      BY DEF Jids
    <3> QED
      BY <1>6, <3>1, <3>2 DEF ChildOfNoJob, IsJobOf
  <2>2. UNCHANGED <<status, alive>>
    BY <1>6 DEF ChildOfNoJob
  <2>3. \A j \in Jids : Unreaped(j)' = Unreaped(j)
    BY <1>3, <1>4, <2>1 DEF Unreaped, Exists
  <2> QED
    BY <1>2, <1>3, <1>5, <2>2, <2>3 DEF EmptySlots, AliveCount, Used
<1>7. ASSUME NEW i \in Jids, ChildOfJob(p, i)
      PROVE  Books'
  <2>1. Used(i) /\ p \in pids[i] /\ \A k \in Jids : k # i => p \notin pids[k]
    BY <1>7 DEF ChildOfJob, IsJobOf, Disjoint
  <2>2. \A j \in Jids : j # i => status'[j] = status[j] /\ alive'[j] = alive[j]
    BY <1>1, <1>7
    DEF ChildOfJob, ChildStopped, ChildExited, ChildSignaled, TypeOK
  <2>3. Used(i)'
    BY <1>1, <1>7, <2>1
    DEF ChildOfJob, ChildStopped, ChildExited, ChildSignaled, TypeOK, Used
  <2>4. EmptySlots'
    BY <1>3, <2>1, <2>2, <2>3 DEF EmptySlots, Used
  <2>5. \A j \in Jids : j # i => Unreaped(j)' = Unreaped(j)
    BY <1>3, <1>4, <2>1 DEF Unreaped, Exists
  <2>6. alive'[i] = Cardinality(Unreaped(i)')
    <3>1. alive[i] = Cardinality(Unreaped(i)) /\ IsFiniteSet(Unreaped(i))
      BY <1>1, <2>1, UnreapedFinite DEF AliveCount
    <3>2. CASE event[p] \in {"stopped", "ttystop"}
      <4>1. alive' = alive
        BY <1>7, <3>2 DEF ChildOfJob, ChildStopped
      <4>2. pstate' = pstate
        BY <3>2 DEF EventOK, ReapAndHandle, Waitpid
      <4>3. Unreaped(i)' = Unreaped(i)
        BY <1>3, <4>2 DEF Unreaped, Exists
      <4> QED
        BY <3>1, <4>1, <4>3
    <3>3. CASE event[p] \in {"exited", "signaled"}
      <4>1. alive'[i] = alive[i] - 1
        BY <1>1, <1>7, <3>3 DEF ChildOfJob, ChildExited, ChildSignaled, TypeOK
      <4>2. pstate[p] = "zombie" /\ pstate'[p] = "reaped"
        BY <1>1, <3>3 DEF EventOK, ReapAndHandle, Waitpid, KernelTypeOK
      <4>3. p \in Unreaped(i) /\ Unreaped(i)' = Unreaped(i) \ {p}
        BY <1>3, <1>4, <2>1, <4>2 DEF Unreaped, Exists
      <4> QED
        BY <3>1, <4>1, <4>3, FS_RemoveElement
    <3> QED
      BY <1>7, <3>2, <3>3 DEF ChildOfJob
  <2>7. AliveCount'
    BY <2>2, <2>5, <2>6 DEF AliveCount, Used
  <2> QED
    BY <1>5, <2>4, <2>7
<1> QED
  BY <1>2, <1>6, <1>7 DEF ReapAndHandle

(* The steps of the children disturb neither the books nor the reports.    *)
LEMMA KernelBooks ==
  ASSUME KernelTypeOK, EventOK, KernelStep
  PROVE  /\ EventOK'
         /\ \A p \in Pids : /\ Exists(p)' <=> Exists(p)
                            /\ pstate[p] # "free" => pstate'[p] # "free"
<1> DEFINE Kept == /\ EventOK'
                   /\ \A p \in Pids : /\ Exists(p)' <=> Exists(p)
                                      /\ pstate[p] # "free" => pstate'[p] # "free"
<1> USE DEF KernelTypeOK, EventOK, Exists, Live
<1>1. ASSUME NEW p \in Pids, NEW how \in {"exited", "signaled"}, Live(p),
             BecomesZombie(p, how)
      PROVE  Kept
  BY <1>1 DEF BecomesZombie
<1>2. ASSUME NEW p \in Pids, NEW how \in {"stopped", "ttystop"}, Live(p),
             BecomesStopped(p, how)
      PROVE  Kept
  BY <1>2 DEF BecomesStopped
<1>3. ASSUME UNCHANGED <<pstate, event>> PROVE Kept
  BY <1>3
<1> QED
  BY <1>1, <1>2, <1>3
  DEF KernelStep, ProcExit, ProcKilled, ProcTerm, ProcStop, ProcTtyStop,
      ProcSetTty, KeySuspend

LEMMA ContinueBooks ==
  ASSUME KernelTypeOK, EventOK, NEW g, KillpgCont(g)
  PROVE  /\ EventOK'
         /\ \A p \in Pids : /\ Exists(p)' <=> Exists(p)
                            /\ pstate[p] # "free" => pstate'[p] # "free"
  BY DEF KernelTypeOK, EventOK, Exists, KillpgCont

LEMMA InitCount == Init => CountInv
<1> SUFFICES ASSUME Init PROVE CountInv
  OBVIOUS
<1>1. TypeInv
  BY InitType
<1>2. EventOK /\ Known /\ Disjoint /\ EmptySlots /\ AliveCount
  BY DEF Init, KernelInit, EventOK, Known, Disjoint, EmptySlots, AliveCount, Used
<1> QED
  BY <1>1, <1>2 DEF CountInv, Books

LEMMA CountStep ==
  ASSUME ~ReusePids, CountInv, [Next]_vars
  PROVE  CountInv'
<1> USE DEF Main, Goto, table, control, kernelVars
<1>1. TypeInv /\ TypeInv' /\ TypeOK /\ TypeOK' /\ KernelTypeOK
  BY TypeStep DEF CountInv, TypeInv, TypeOK
<1>2. EventOK /\ Books
  BY DEF CountInv
<1> SUFFICES EventOK' /\ Books'
  BY <1>1 DEF CountInv
<1>3. ASSUME UNCHANGED <<pstate, event, pids, alive>>,
             \A j \in Jids : Used(j)' <=> Used(j)
      PROVE  EventOK' /\ Books'
  BY <1>1, <1>2, <1>3, SameBooks DEF EventOK, Exists
<1>4. CASE \/ UNCHANGED vars \/ ReadLine \/ EndOfFile \/ EndLine \/ Exit
           \/ TooManyJobs \/ BgNoJob
  BY <1>3, <1>4
  DEF vars, ReadLine, EndOfFile, EndLine, Exit, TooManyJobs, BgNoJob, Used
<1>5. CASE \/ EndSpawn \/ WaitDone \/ UnblockChld \/ GiveBack \/ Fg2 \/ Fg3
           \/ Fg4 \/ Fg5 \/ Deliver \/ HandlerReturn
  BY <1>3, <1>5
  DEF EndSpawn, WaitDone, UnblockChld, GiveBack, Back1, Back2, Back3, Fg2, Fg3,
      Fg4, Fg5, Deliver, HandlerReturn, Used
<1>6. ASSUME NEW j \in Jids, Kill(j) \/ Stop(j)
      PROVE  EventOK' /\ Books'
  BY <1>3, <1>6 DEF Kill, Stop, Used
<1>7. ASSUME NEW j \in Jids, Fg(j) \/ Bg(j)
      PROVE  EventOK' /\ Books'
  BY <1>1, <1>3, <1>7 DEF Fg, Bg, JobExists, Used, TypeOK
<1>8. CASE Fg1 \/ Bg1
  BY <1>1, <1>2, <1>8, SameBooks, ContinueBooks DEF Fg1, Bg1, Used
<1>9. ASSUME NEW l, NEW next, SweepEnd(l, next) \/ SweepStep(l)
      PROVE  EventOK' /\ Books'
  <2>1. CASE UNCHANGED table
    BY <1>3, <1>9, <2>1 DEF SweepEnd, SweepStep, Used
  <2>2. ASSUME SweepStep(l), DeleteJob(cur) PROVE EventOK' /\ Books'
    BY <1>2, <2>2, DeleteBooks DEF SweepStep, EventOK
  <2> QED
    BY <1>9, <2>1, <2>2 DEF SweepEnd, SweepStep
<1>10. CASE SpawnFail
  BY <1>1, <1>2, <1>10, DeleteBooks DEF SpawnFail, TypeInv, InHand, EventOK
<1>11. ASSUME NEW bg, NEW n, StartJob(bg, n)
       PROVE  EventOK' /\ Books'
  <2>1. PICK i \in Jids : /\ ~Used(i)
                          /\ status' = [status EXCEPT ![i] =
                               IF bg THEN "BACKGROUND" ELSE "FOREGROUND"]
    BY <1>11 DEF StartJob, IsFreshJid
  <2>2. /\ UNCHANGED <<pstate, event, pids, alive>>
        /\ \A j \in Jids : j # i => status'[j] = status[j]
    BY <1>1, <1>11, <2>1 DEF StartJob, TypeOK
  <2>3. pids[i] = {} /\ alive[i] = 0 /\ Unreaped(i) = {}
    BY <1>2, <2>1 DEF Books, EmptySlots, Unreaped
  <2>4. \A j \in Jids : Unreaped(j)' = Unreaped(j)
    BY <2>2 DEF Unreaped, Exists
  <2>5. EventOK' /\ Known' /\ Disjoint' /\ EmptySlots'
    BY <1>2, <2>1, <2>2, <2>3
    DEF Books, EventOK, Known, Disjoint, EmptySlots, Used
  <2>6. AliveCount'
    BY <1>2, <2>2, <2>3, <2>4, FS_EmptySet DEF Books, AliveCount, Used
  <2> QED
    BY <2>5, <2>6 DEF Books
<1>12. ASSUME NEW p \in Pids, SpawnOk(p)
       PROVE  EventOK' /\ Books'
  <2>1. cur \in Jids /\ Used(cur)
    BY <1>1, <1>12 DEF SpawnOk, TypeInv, InHand
  <2>2. pstate[p] = "free" /\ \A j \in Jids : p \notin pids[j]
    BY <1>2, <1>12 DEF SpawnOk, Free, Books, Known
  <2>3. /\ status' = status /\ cur' = cur
        /\ pids'[cur] = pids[cur] \cup {p} /\ alive'[cur] = alive[cur] + 1
        /\ \A j \in Jids : j # cur => pids'[j] = pids[j] /\ alive'[j] = alive[j]
        /\ pstate'[p] = "run" /\ \A q \in Pids : q # p => pstate'[q] = pstate[q]
    BY <1>1, <1>12, <2>1 DEF SpawnOk, Clone, TypeOK, KernelTypeOK
  <2>4. EventOK'
    BY <1>1, <1>2, <1>12 DEF EventOK, SpawnOk, Clone, KernelTypeOK
  <2>5. Known' /\ Disjoint' /\ EmptySlots'
    BY <1>1, <1>2, <2>1, <2>2, <2>3
    DEF Books, Known, Disjoint, EmptySlots, Used, TypeOK
  <2>6. \A j \in Jids : j # cur => Unreaped(j)' = Unreaped(j)
    BY <1>1, <2>2, <2>3 DEF Unreaped, Exists, TypeOK
  <2>7. alive'[cur] = Cardinality(Unreaped(cur)')
    <3>1. alive[cur] = Cardinality(Unreaped(cur)) /\ IsFiniteSet(Unreaped(cur))
      BY <1>1, <1>2, <2>1, UnreapedFinite DEF Books, AliveCount
    <3>2. p \notin Unreaped(cur) /\ Unreaped(cur)' = Unreaped(cur) \cup {p}
      BY <1>1, <2>1, <2>2, <2>3 DEF Unreaped, Exists, TypeOK
    <3> QED
      BY <2>3, <3>1, <3>2, FS_AddElement
  <2>8. AliveCount'
    BY <1>2, <2>3, <2>6, <2>7 DEF Books, AliveCount, Used
  <2> QED
    BY <2>4, <2>5, <2>8 DEF Books
<1>13. CASE WaitReap
  <2>1. CASE UNCHANGED <<kernelVars, table>>
    BY <1>3, <2>1 DEF Used
  <2> QED
    BY <1>13, <2>1, ReapBooks DEF WaitReap
<1>14. ASSUME NEW p \in Pids, HandlerReap(p)
       PROVE  EventOK' /\ Books'
  BY <1>14, ReapBooks DEF HandlerReap
<1>15. CASE Environment
  BY <1>1, <1>2, <1>15, KernelBooks, SameBooks DEF Environment, Used
<1> QED
  BY <1>4, <1>5, <1>6, <1>7, <1>8, <1>9, <1>10, <1>11, <1>12, <1>13, <1>14, <1>15
  DEF Next, Command, ShellStep, Sweep, Handler, Terminated

LEMMA Counted == ASSUME ~ReusePids PROVE Spec => []CountInv
  BY InitCount, CountStep, PTL DEF Spec

(* Whoever reaps a process, num_processes_alive stays the number of the    *)
(* job's processes that are left: delete_dead_jobs and wait_for_job rely   *)
(* on it.                                                                  *)
THEOREM AliveCounted == ASSUME ~ReusePids PROVE Spec => []AliveCount
<1>1. CountInv => AliveCount
  BY DEF CountInv, Books
<1> QED
  BY Counted, <1>1, PTL

(* delete_dead_jobs deletes no job that has a process left, as long as     *)
(* pids are not reused.                                                    *)
THEOREM SweepSafe == ASSUME ~ReusePids PROVE Spec => SweepDeletesDead
<1>1. ASSUME CountInv, [Next]_vars, pc \in {"sweep", "exitsweep"}
      PROVE  DeletesDead
  <2> SUFFICES ASSUME NEW j \in Jids, Used(j), ~Used(j)' PROVE Unreaped(j) = {}
    BY DEF DeletesDead
  <2>1. alive[j] = 0 => Unreaped(j) = {}
    BY <1>1, FS_EmptySet, UnreapedFinite
    DEF CountInv, TypeInv, Books, AliveCount
  <2>2. alive[j] = 0
    <3>1. status' # status /\ status'[j] = "none"
      BY DEF Used
    <3>2. CASE \E l \in {"sweep", "exitsweep"} : SweepStep(l)
      BY <1>1, <3>1, <3>2
      DEF CountInv, TypeInv, TypeOK, SweepStep, DeleteJob, Finished, table, Used
    <3>3. ASSUME NEW p \in Pids, HandlerReap(p) PROVE FALSE
      BY <1>1, <3>1, <3>3
      DEF CountInv, TypeInv, TypeOK, HandlerReap, ReapAndHandle, ChildOfJob,
          ChildOfNoJob, ChildStopped, ChildExited, ChildSignaled, IsJobOf, Used
    <3>4. CASE \/ UNCHANGED vars \/ ReadLine \/ EndOfFile \/ Environment
               \/ Deliver \/ HandlerReturn
      BY <3>1, <3>4
      DEF vars, table, ReadLine, EndOfFile, Environment, Deliver, HandlerReturn
    <3>5. ASSUME NEW l, NEW next, SweepEnd(l, next) PROVE FALSE
      BY <3>1, <3>5 DEF SweepEnd, table
    <3>6. ~Command
      BY <1>1 DEF Command, StartJob, TooManyJobs, Kill, Stop, Fg, Bg, BgNoJob,
                  Exit, EndLine, Main
    <3>7. ShellStep => Sweep
      BY <1>1 DEF ShellStep, SpawnOk, SpawnFail, EndSpawn, WaitReap, WaitDone,
                  UnblockChld, GiveBack, Back1, Back2, Back3, Fg1, Fg2, Fg3,
                  Fg4, Fg5, Bg1, Main
    <3> QED
      BY <1>1, <3>2, <3>3, <3>4, <3>5, <3>6, <3>7
      DEF Next, Sweep, Handler, Terminated
  <2> QED
    BY <2>1, <2>2
<1>2. CountInv /\ [Next]_vars => [(pc \in {"sweep", "exitsweep"}) => DeletesDead]_vars
  BY <1>1
<1> QED
  BY Counted, <1>2, PTL DEF Spec, SweepDeletesDead

(* wait_for_job never asks for a child when there is none: its "waitpid    *)
(* failed" is unreachable, as long as pids are not reused.                 *)
THEOREM WaitSucceeds == ASSUME ~ReusePids PROVE Spec => []WaitNeverFails
<1>1. Init => WaitNeverFails
  BY DEF Init, WaitNeverFails
<1>2. ASSUME CountInv, WaitNeverFails, [Next]_vars
      PROVE  WaitNeverFails'
  <2>1. pc' = "fatal_waitpid" => WaitReap /\ \A p \in Pids : ~Exists(p)
    BY <1>2
    DEF WaitNeverFails, Next, Command, ShellStep, Sweep, Handler, Terminated,
        vars, control, ReadLine, EndOfFile, EndLine, Exit, TooManyJobs, BgNoJob,
        StartJob, Kill, Stop, Fg, Bg, SweepStep, SweepEnd, SpawnOk, SpawnFail,
        EndSpawn, WaitReap, WaitDone, UnblockChld, GiveBack, Back1, Back2,
        Back3, Fg1, Fg2, Fg3, Fg4, Fg5, Bg1, Deliver, HandlerReturn,
        HandlerReap, ReapAndHandle, ChildOfJob, ChildOfNoJob, Environment,
        Main, Goto
  <2>2. ASSUME WaitReap, \A p \in Pids : ~Exists(p) PROVE FALSE
    <3>1. cur \in Jids /\ Used(cur) /\ alive[cur] > 0
      BY <1>2, <2>2 DEF WaitReap, MustWait, CountInv, TypeInv, InHand, Main
    <3>2. Unreaped(cur) = {}
      BY <1>2, <2>2, <3>1 DEF Unreaped, CountInv, TypeInv, TypeOK
    <3> QED
      BY <1>2, <3>1, <3>2, FS_EmptySet DEF CountInv, Books, AliveCount
  <2> QED
    BY <2>1, <2>2 DEF WaitNeverFails
<1> QED
  BY Counted, <1>1, <1>2, PTL DEF Spec

-----------------------------------------------------------------------------
(* No report is lost.                                                      *)

LEMMA SigchldStep ==
  ASSUME TypeInv, NoLostSigchld, [Next]_vars
  PROVE  NoLostSigchld'
<1> USE DEF NoLostSigchld, Main, Goto, table, control, kernelVars, Waitable
<1>1. TypeOK /\ KernelTypeOK /\ Masked
  BY DEF TypeInv, TypeOK
<1>2. ASSUME UNCHANGED <<event, chld, inHandler>>, pc \notin Dead
      PROVE  NoLostSigchld'
  BY <1>2
<1>3. ASSUME UNCHANGED vars PROVE NoLostSigchld'
  BY <1>3 DEF vars
<1>4. CASE pc \in Dead
  <2>1. ~ReadLine /\ ~EndOfFile /\ ~Environment
    BY <1>4 DEF ReadLine, EndOfFile, Environment, Dead
  <2>2. ~Command
    BY <1>4 DEF Command, StartJob, TooManyJobs, Kill, Stop, Fg, Bg, BgNoJob,
                Exit, EndLine, Dead
  <2>3. ~ShellStep
    BY <1>4
    DEF ShellStep, Sweep, SweepStep, SweepEnd, SpawnOk, SpawnFail, EndSpawn,
        WaitReap, WaitDone, UnblockChld, GiveBack, Back1, Back2, Back3, Fg1,
        Fg2, Fg3, Fg4, Fg5, Bg1, Dead
  <2>4. ~Handler
    BY <1>4 DEF Handler, Deliver, HandlerReap, HandlerReturn
  <2> QED
    BY <1>3, <2>1, <2>2, <2>3, <2>4 DEF Next, Terminated
<1> SUFFICES ASSUME pc \notin Dead PROVE NoLostSigchld'
  BY <1>4
<1>5. CASE ReadLine \/ EndOfFile \/ Command
  BY <1>2, <1>5
  DEF ReadLine, EndOfFile, Command, StartJob, TooManyJobs, Kill, Stop, Fg, Bg,
      BgNoJob, Exit, EndLine
<1>6. ASSUME NEW p \in Pids, ReapAndHandle(p) PROVE NoLostSigchld'
  BY <1>1, <1>6 DEF ReapAndHandle, Waitpid, KernelTypeOK
<1>7. ASSUME NEW p \in Pids, SpawnOk(p) PROVE NoLostSigchld'
  BY <1>1, <1>7 DEF SpawnOk, Clone, KernelTypeOK
<1>8. CASE SpawnFail
  BY <1>8 DEF SpawnFail
<1>9. CASE UnblockChld
  BY <1>9 DEF UnblockChld
<1>10. CASE Fg1 \/ Bg1
  BY <1>1, <1>10 DEF Fg1, Bg1, KillpgCont, KernelTypeOK
<1>11. CASE Sweep \/ EndSpawn \/ WaitDone \/ GiveBack \/ Fg2 \/ Fg3 \/ Fg4 \/ Fg5
  BY <1>2, <1>11
  DEF Sweep, SweepStep, SweepEnd, EndSpawn, WaitDone, GiveBack, Back1, Back2,
      Back3, Fg2, Fg3, Fg4, Fg5
<1>12. CASE WaitReap
  BY <1>2, <1>6, <1>12 DEF WaitReap
<1>13. CASE Deliver
  BY <1>13 DEF Deliver
<1>14. CASE HandlerReturn
  BY <1>14 DEF HandlerReturn
<1>15. CASE Environment
  BY <1>1, <1>15
  DEF Environment, KernelStep, ProcExit, ProcKilled, ProcTerm, ProcStop,
      ProcTtyStop, ProcSetTty, KeySuspend, BecomesZombie, BecomesStopped,
      KernelTypeOK
<1> QED
  BY <1>3, <1>5, <1>6, <1>7, <1>8, <1>9, <1>10, <1>11, <1>12, <1>13, <1>14, <1>15
  DEF Next, ShellStep, Handler, HandlerReap, Terminated

(* The loop in sigchld_handler makes up for signals that merge: whatever   *)
(* waitpid could report, a SIGCHLD is on its way or is being handled.      *)
THEOREM ReportsNotLost == Spec => []NoLostSigchld
<1>1. Init => NoLostSigchld
  BY DEF Init, KernelInit, NoLostSigchld, Waitable
<1> QED
  BY InitType, TypeStep, SigchldStep, <1>1, PTL DEF Spec

-----------------------------------------------------------------------------
(* wait_for_job cannot hang.                                               *)

(* A job's processes are in the job's group, so SIGCONT reaches them all.  *)
InGroup ==
  \A j \in Jids : \A p \in pids[j] : Exists(p) => pgrp[p] = pgid[j]

(* A foreground job's stopped process has not been reported yet: once it   *)
(* is, the job is no longer in the foreground.  The exception is fg, which *)
(* marks the job before it continues it.                                   *)
Watched ==
  pc \notin Dead =>
    \A j \in Jids : status[j] = "FOREGROUND" /\ ~(pc = "fg1" /\ cur = j) =>
      \A p \in pids[j] : pstate[p] = "stop" => Waitable(p)

WakeInv == CountInv /\ InGroup /\ Watched

LEMMA WakeStep ==
  ASSUME ~ReusePids, WakeInv, [Next]_vars
  PROVE  WakeInv'
<1> USE DEF Main, Goto, table, control, kernelVars
<1>1. CountInv /\ CountInv' /\ TypeOK /\ KernelTypeOK /\ EventOK /\ InGroup /\ Watched
  BY CountStep DEF WakeInv, CountInv, TypeInv, TypeOK
<1>2. \A j \in Jids : pids[j] \subseteq Pids
  BY <1>1 DEF TypeOK
<1> SUFFICES InGroup' /\ Watched'
  BY <1>1 DEF WakeInv
<1>3. ASSUME UNCHANGED <<pstate, pgrp, event, pids, pgid, status, cur>>,
             pc' \in Dead \/ pc \notin Dead, pc # "fg1" \/ pc' = "fg1" \/ pc' \in Dead
      PROVE  InGroup' /\ Watched'
  BY <1>1, <1>3 DEF InGroup, Watched, Exists, Waitable
<1>4. CASE UNCHANGED vars
  BY <1>3, <1>4 DEF vars, Watched
<1>5. CASE ReadLine \/ EndOfFile \/ TooManyJobs \/ BgNoJob
  BY <1>3, <1>5 DEF ReadLine, EndOfFile, TooManyJobs, BgNoJob, Dead
<1>6. CASE EndSpawn \/ WaitDone \/ GiveBack \/ Fg2 \/ Fg3 \/ Fg4 \/ Fg5
  BY <1>3, <1>6
  DEF EndSpawn, WaitDone, GiveBack, Back1, Back2, Back3, Fg2, Fg3, Fg4, Fg5, Dead
<1>7. CASE \/ EndLine \/ Exit \/ UnblockChld
           \/ \E l \in {"sweep", "exitsweep"} :
                \E next \in {"prompt", "exited"} : SweepEnd(l, next)
  BY <1>1, <1>7
  DEF EndLine, Exit, UnblockChld, SweepEnd, InGroup, Watched, Exists, Waitable, Dead
<1>8. ASSUME NEW l \in {"sweep", "exitsweep"}, SweepStep(l)
      PROVE  InGroup' /\ Watched'
  BY <1>1, <1>8
  DEF SweepStep, DeleteJob, InGroup, Watched, Exists, Waitable, TypeOK, Dead
<1>9. ASSUME NEW j \in Jids, Kill(j) \/ Stop(j)
      PROVE  InGroup' /\ Watched'
  BY <1>3, <1>9 DEF Kill, Stop, Dead
<1>10. ASSUME NEW j \in Jids, Fg(j) \/ Bg(j)
       PROVE  InGroup' /\ Watched'
  BY <1>1, <1>10 DEF Fg, Bg, InGroup, Watched, Exists, Waitable, TypeOK, Dead
<1>11. CASE Fg1 \/ Bg1
  <2>1. UNCHANGED <<pgrp, table>> /\ pc \notin Dead
    BY <1>11 DEF Fg1, Bg1, Dead
  <2>2. cur \in Jids /\ KillpgCont(pgid[cur])
    BY <1>1, <1>11 DEF Fg1, Bg1, CountInv, TypeInv, InHand
  <2>3. InGroup'
    BY <1>1, <1>2, <2>1, <2>2
    DEF InGroup, KillpgCont, Exists, KernelTypeOK
  <2>4. \A p \in pids[cur] : pstate'[p] # "stop"
    BY <1>1, <1>2, <2>2 DEF InGroup, KillpgCont, Exists, KernelTypeOK
  <2>5. \A p \in Pids : pstate'[p] = "stop" => pstate[p] = "stop" /\ event'[p] = event[p]
    BY <1>1, <2>2 DEF KillpgCont, KernelTypeOK
  <2>6. Watched'
    BY <1>1, <1>2, <2>1, <2>4, <2>5 DEF Watched, Waitable
  <2> QED
    BY <2>3, <2>6
<1>12. ASSUME NEW bg, NEW n, StartJob(bg, n)
       PROVE  InGroup' /\ Watched'
  <2>1. PICK i \in Jids : /\ ~Used(i)
                          /\ status' = [status EXCEPT ![i] =
                               IF bg THEN "BACKGROUND" ELSE "FOREGROUND"]
    BY <1>12 DEF StartJob, IsFreshJid
  <2>2. pids[i] = {}
    BY <1>1, <2>1 DEF CountInv, Books, EmptySlots
  <2> QED
    BY <1>1, <1>12, <2>1, <2>2
    DEF StartJob, InGroup, Watched, Exists, Waitable, TypeOK, Dead
<1>13. ASSUME NEW p \in Pids, SpawnOk(p)
       PROVE  InGroup' /\ Watched'
  <2>1. cur \in Jids /\ \A j \in Jids : p \notin pids[j]
    BY <1>1, <1>13
    DEF SpawnOk, Free, CountInv, TypeInv, InHand, Books, Known
  <2>2. /\ \A q \in Pids : q # p => /\ pstate'[q] = pstate[q]
                                    /\ pgrp'[q] = pgrp[q] /\ event'[q] = event[q]
        /\ pstate'[p] = "run" /\ pgrp'[p] = pgid'[cur]
        /\ pids[cur] # {} => pgid' = pgid
        /\ \A j \in Jids : j # cur => pids'[j] = pids[j] /\ pgid'[j] = pgid[j]
        /\ pids'[cur] = pids[cur] \cup {p}
        /\ UNCHANGED <<status, pc, cur>>
    BY <1>1, <1>13, <2>1 DEF SpawnOk, Clone, TypeOK, KernelTypeOK
  <2>3. InGroup'
    <3> SUFFICES ASSUME NEW j \in Jids, NEW q \in pids'[j], Exists(q)'
                 PROVE  pgrp'[q] = pgid'[j]
      BY DEF InGroup
    <3>1. CASE q = p
      BY <1>2, <2>1, <2>2, <3>1
    <3>2. CASE q # p
      BY <1>1, <1>2, <2>1, <2>2, <3>2 DEF InGroup, Exists
    <3> QED
      BY <3>1, <3>2
  <2>4. Watched'
    BY <1>1, <1>2, <2>1, <2>2 DEF Watched, Waitable
  <2> QED
    BY <2>3, <2>4
<1>14. CASE SpawnFail
  <2>1. cur \in Jids
    BY <1>1, <1>14 DEF SpawnFail, CountInv, TypeInv, InHand
  <2> QED
    BY <1>1, <1>14, <2>1
    DEF SpawnFail, DeleteJob, InGroup, Watched, Exists, Waitable, TypeOK, Dead
<1>15. ASSUME NEW p \in Pids, ReapAndHandle(p), pc \notin Dead
       PROVE  InGroup' /\ Watched'
  <2>1. UNCHANGED <<pids, pgid, cur>>
    BY <1>15 DEF ReapAndHandle
  <2>2. \A q \in Pids : q # p => /\ pstate'[q] = pstate[q]
                                 /\ pgrp'[q] = pgrp[q] /\ event'[q] = event[q]
    BY <1>1, <1>15 DEF ReapAndHandle, Waitpid, KernelTypeOK
  <2>3. Exists(p)' => pgrp'[p] = pgrp[p] /\ Exists(p)
    BY <1>1, <1>15 DEF ReapAndHandle, Waitpid, KernelTypeOK, Exists
  <2>4. InGroup'
    BY <1>1, <1>2, <2>1, <2>2, <2>3 DEF InGroup, Exists
  <2>5. CASE ChildOfNoJob(p)
    BY <2>4, <2>5 DEF ChildOfNoJob, Watched, Dead
  <2>6. ASSUME NEW i \in Jids, ChildOfJob(p, i) PROVE Watched'
    <3>1. \A j \in Jids : j # i => p \notin pids[j] /\ status'[j] = status[j]
      BY <1>1, <2>6
      DEF ChildOfJob, IsJobOf, ChildStopped, ChildExited, ChildSignaled, TypeOK,
          CountInv, Books, Disjoint
    <3>2. CASE event[p] \in {"stopped", "ttystop"}
      <4>1. status'[i] # "FOREGROUND"
        BY <1>1, <2>6, <3>2 DEF ChildOfJob, ChildStopped, TypeOK
      <4> QED
        BY <1>1, <1>2, <1>15, <2>1, <2>2, <2>6, <3>1, <4>1
        DEF Watched, Waitable, ChildOfJob
    <3>3. CASE event[p] \in {"exited", "signaled"}
      <4>1. pstate'[p] = "reaped"
        BY <1>1, <1>15, <3>3 DEF EventOK, ReapAndHandle, Waitpid, KernelTypeOK
      <4>2. status'[i] = "FOREGROUND" => status[i] = "FOREGROUND"
        BY <1>1, <2>6, <3>3 DEF ChildOfJob, ChildExited, ChildSignaled, TypeOK
      <4> QED
        BY <1>1, <1>2, <1>15, <2>1, <2>2, <2>6, <3>1, <4>1, <4>2
        DEF Watched, Waitable, ChildOfJob
    <3> QED
      BY <2>6, <3>2, <3>3 DEF ChildOfJob
  <2> QED
    BY <1>15, <2>4, <2>5, <2>6 DEF ReapAndHandle
<1>16. CASE WaitReap
  <2>1. CASE /\ pc' = "fatal_waitpid"
             /\ UNCHANGED <<kernelVars, table, cur, left, blocked>>
    BY <1>3, <2>1 DEF Dead
  <2> QED
    BY <1>15, <1>16, <2>1 DEF WaitReap, Dead
<1>17. CASE Deliver \/ HandlerReturn
  BY <1>3, <1>17 DEF Deliver, HandlerReturn
<1>18. CASE Environment
  <2>1. UNCHANGED <<pgrp, pids, pgid, status, pc, cur>> /\ pc \notin Dead
    BY <1>18
    DEF Environment, KernelStep, ProcExit, ProcKilled, ProcTerm, ProcStop,
        ProcTtyStop, ProcSetTty, KeySuspend, BecomesZombie, BecomesStopped
  <2>2. \A p \in Pids : Exists(p)' <=> Exists(p)
    BY <1>1, <1>18, KernelBooks DEF Environment
  <2> DEFINE Reported ==
               \A p \in Pids : pstate'[p] = "stop" =>
                 event'[p] # "none" \/ (pstate[p] = "stop" /\ event'[p] = event[p])
  <2>3. Reported
    <3>1. ASSUME NEW q \in Pids, NEW how \in {"exited", "signaled"},
                 BecomesZombie(q, how)
          PROVE  Reported
      BY <1>1, <3>1 DEF BecomesZombie, KernelTypeOK
    <3>2. ASSUME NEW q \in Pids, NEW how \in {"stopped", "ttystop"},
                 BecomesStopped(q, how)
          PROVE  Reported
      <4>1. event'[q] = how /\ \A p \in Pids : p # q => /\ pstate'[p] = pstate[p]
                                                       /\ event'[p] = event[p]
        BY <1>1, <3>2 DEF BecomesStopped, KernelTypeOK
      <4> QED
        BY <3>2, <4>1
    <3>3. CASE UNCHANGED <<pstate, event>>
      BY <3>3
    <3> QED
      BY <1>18, <3>1, <3>2, <3>3
      DEF Environment, KernelStep, ProcExit, ProcKilled, ProcTerm, ProcStop,
          ProcTtyStop, ProcSetTty, KeySuspend
  <2>4. InGroup'
    BY <1>1, <1>2, <2>1, <2>2 DEF InGroup
  <2>5. Watched'
    BY <1>1, <1>2, <2>1, <2>3 DEF Watched, Waitable
  <2> QED
    BY <2>4, <2>5
<1> QED
  BY <1>4, <1>5, <1>6, <1>7, <1>8, <1>9, <1>10, <1>11, <1>12, <1>13, <1>14,
     <1>15, <1>16, <1>17, <1>18
  DEF Next, Command, ShellStep, Sweep, Handler, HandlerReap, Terminated

(* While wait_for_job waits, a process of the job runs or has a status to  *)
(* report: the shell never sleeps in waitpid on a job that has come to     *)
(* rest unnoticed, whatever the handler consumed before, as long as pids   *)
(* are not reused.                                                         *)
THEOREM WakeupNotLost == ASSUME ~ReusePids PROVE Spec => []NoLostWakeup
<1>1. Init => WakeInv
  <2> SUFFICES ASSUME Init PROVE WakeInv
    OBVIOUS
  <2>1. InGroup /\ Watched
    BY DEF Init, InGroup, Watched
  <2> QED
    BY <2>1, InitCount DEF WakeInv
<1>2. WakeInv => NoLostWakeup
  <2> SUFFICES ASSUME WakeInv, pc = "wait", MustWait
               PROVE  \E p \in pids[cur] : pstate[p] = "run" \/ Waitable(p)
    BY DEF NoLostWakeup
  <2>1. cur \in Jids /\ Used(cur) /\ alive[cur] > 0 /\ status[cur] = "FOREGROUND"
    BY DEF WakeInv, CountInv, TypeInv, InHand, MustWait
  <2>2. Unreaped(cur) # {}
    BY <2>1, FS_EmptySet DEF WakeInv, CountInv, Books, AliveCount
  <2>3. PICK p \in pids[cur] : Exists(p)
    BY <2>2 DEF Unreaped
  <2>4. CASE pstate[p] = "stop"
    BY <2>1, <2>4 DEF WakeInv, Watched, Dead
  <2>5. CASE pstate[p] = "zombie"
    BY <2>1, <2>5
    DEF WakeInv, CountInv, TypeInv, TypeOK, KernelTypeOK, EventOK, Waitable
  <2> QED
    BY <2>3, <2>4, <2>5 DEF Exists
<1> QED
  BY WakeStep, <1>1, <1>2, PTL DEF Spec

=============================================================================
