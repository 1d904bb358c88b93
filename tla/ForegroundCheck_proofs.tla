----------------------- MODULE ForegroundCheck_proofs -----------------------
(***************************************************************************)
(* That the tests take no process for the foreground job that is not one   *)
(* of it, although they read the terminal and /proc without a lock.        *)
(***************************************************************************)
EXTENDS ForegroundCheck, JobControl_ownership

(* A job's group is the first of its processes, ...                        *)
Led == \A j \in Jids : pids[j] # {} => pgid[j] \in pids[j]

(* ... and whoever is in the group of a job is one of its processes.       *)
Homed ==
  \A p \in Pids : Exists(p) =>
    /\ pgrp[p] \in Pids /\ pstate[pgrp[p]] # "free"
    /\ \A j \in Jids : pids[j] # {} /\ pgid[j] = pgrp[p] => p \in pids[j]

GroupInv == CountInv /\ Led /\ Homed

LEMMA InitGroup == Init => GroupInv
<1> SUFFICES ASSUME Init PROVE GroupInv
  OBVIOUS
<1>1. Led /\ Homed
  BY DEF Init, KernelInit, Led, Homed, Exists
<1> QED
  BY <1>1, InitCount DEF GroupInv

(* A step that spawns nothing: no process appears, changes its group or    *)
(* becomes one that never ran, and a job keeps its processes or loses all. *)
LEMMA SameGroups ==
  ASSUME GroupInv,
         \A p \in Pids : /\ Exists(p)' => Exists(p) /\ pgrp'[p] = pgrp[p]
                         /\ pstate[p] # "free" => pstate'[p] # "free",
         \A j \in Jids : \/ pids'[j] = {}
                         \/ pids'[j] = pids[j] /\ pgid'[j] = pgid[j]
  PROVE  Led' /\ Homed'
<1>1. Led /\ Homed
  BY DEF GroupInv
<1>2. Led'
  BY <1>1 DEF Led
<1>3. Homed'
  BY <1>1 DEF Homed
<1> QED
  BY <1>2, <1>3

LEMMA GroupStep ==
  ASSUME ~ReusePids, GroupInv, [Next]_vars
  PROVE  GroupInv'
<1> USE DEF Main, Goto, table, control, kernelVars
<1>1. /\ CountInv /\ CountInv' /\ TypeOK /\ KernelTypeOK /\ InHand
      /\ EventOK /\ Known /\ Disjoint /\ Led /\ Homed
  BY CountStep DEF GroupInv, CountInv, TypeInv, TypeOK, Books
<1> SUFFICES Led' /\ Homed'
  BY <1>1 DEF GroupInv
<1>2. ASSUME UNCHANGED <<pstate, pgrp>>, UNCHANGED <<pids, pgid>> \/ DeleteJob(cur)
      PROVE  Led' /\ Homed'
  <2>1. \A j \in Jids : \/ pids'[j] = {}
                        \/ pids'[j] = pids[j] /\ pgid'[j] = pgid[j]
    BY <1>1, <1>2 DEF DeleteJob, TypeOK
  <2> QED
    BY <1>2, <2>1, SameGroups DEF Exists, GroupInv
<1>3. ASSUME NEW p \in Pids, SpawnOk(p) PROVE Led' /\ Homed'
  <2> DEFINE group == IF pids[cur] = {} THEN p ELSE pgid[cur]
  <2>1. cur \in Jids /\ pstate[p] = "free" /\ \A j \in Jids : p \notin pids[j]
    BY <1>1, <1>3 DEF SpawnOk, Free, InHand, Known
  <2>2. /\ pids'[cur] = pids[cur] \cup {p} /\ pgid'[cur] = group
        /\ \A j \in Jids : j # cur => pids'[j] = pids[j] /\ pgid'[j] = pgid[j]
        /\ pstate'[p] = "run" /\ pgrp'[p] = group
        /\ \A q \in Pids : q # p => pstate'[q] = pstate[q] /\ pgrp'[q] = pgrp[q]
    BY <1>1, <1>3, <2>1 DEF SpawnOk, Clone, TypeOK, KernelTypeOK
  <2>3. group \in Pids /\ pstate'[group] # "free"
    BY <1>1, <2>1, <2>2 DEF Led, Known, TypeOK
  <2>4. Led'
    BY <1>1, <2>1, <2>2 DEF Led
  <2>5. ASSUME NEW q \in Pids, Exists(q)'
        PROVE  /\ pgrp'[q] \in Pids /\ pstate'[pgrp'[q]] # "free"
               /\ \A j \in Jids : pids'[j] # {} /\ pgid'[j] = pgrp'[q] => q \in pids'[j]
    <3>1. CASE q = p
      <4>1. \A j \in Jids : j # cur /\ pids[j] # {} => pgid[j] # group
        BY <1>1, <2>1 DEF Led, Disjoint
      <4> QED
        BY <2>2, <2>3, <3>1, <4>1
    <3>2. CASE q # p
      <4>1. /\ pgrp'[q] = pgrp[q] /\ pgrp[q] \in Pids /\ pgrp[q] # p
            /\ pstate[pgrp[q]] # "free"
            /\ \A j \in Jids : pids[j] # {} /\ pgid[j] = pgrp[q] => q \in pids[j]
        BY <1>1, <2>1, <2>2, <2>5, <3>2 DEF Homed, Exists
      <4> QED
        BY <2>2, <4>1
    <3> QED
      BY <3>1, <3>2
  <2> QED
    BY <2>4, <2>5 DEF Homed
<1>4. ASSUME NEW p \in Pids, ReapAndHandle(p) PROVE Led' /\ Homed'
  BY <1>1, <1>4, Recorded, SameGroups DEF CountInv, GroupInv
<1>5. CASE Fg1 \/ Bg1
  <2>1. \A p \in Pids : /\ Exists(p)' => Exists(p)
                        /\ pstate[p] # "free" => pstate'[p] # "free"
    BY <1>1, <1>5, ContinueBooks DEF Fg1, Bg1
  <2>2. UNCHANGED <<pgrp, pids, pgid>>
    BY <1>5 DEF Fg1, Bg1
  <2> QED
    BY <2>1, <2>2, SameGroups
<1>6. CASE Environment
  <2>1. \A p \in Pids : /\ Exists(p)' => Exists(p)
                        /\ pstate[p] # "free" => pstate'[p] # "free"
    BY <1>1, <1>6, KernelBooks DEF Environment
  <2>2. UNCHANGED <<pgrp, pids, pgid>>
    BY <1>6
    DEF Environment, KernelStep, ProcExit, ProcKilled, ProcTerm, ProcStop,
        ProcTtyStop, ProcSetTty, KeySuspend, BecomesZombie, BecomesStopped
  <2> QED
    BY <2>1, <2>2, SameGroups
<1>7. CASE UNCHANGED vars \/ ReadLine \/ EndOfFile \/ Command \/ Deliver \/ HandlerReturn
  BY <1>2, <1>7
  DEF vars, ReadLine, EndOfFile, Command, StartJob, TooManyJobs, Kill, Stop, Fg, Bg,
      BgNoJob, Exit, EndLine, Deliver, HandlerReturn
<1>8. CASE \/ Sweep \/ SpawnFail \/ EndSpawn \/ WaitDone \/ UnblockChld \/ GiveBack
           \/ Fg2 \/ Fg3 \/ Fg4 \/ Fg5
  BY <1>2, <1>8
  DEF Sweep, SweepStep, SweepEnd, SpawnFail, EndSpawn, WaitDone, UnblockChld,
      GiveBack, Back1, Back2, Back3, Fg2, Fg3, Fg4, Fg5
<1>9. CASE WaitReap
  BY <1>2, <1>4, <1>9 DEF WaitReap
<1> QED
  BY <1>3, <1>4, <1>5, <1>6, <1>7, <1>8, <1>9
  DEF Next, ShellStep, Handler, HandlerReap, Terminated

(* What the observer holds for a process it is about to check is one: the  *)
(* shell's own identifier made the call raise.                             *)
Candidate == check = "stat" => process_pid \in Pids

CheckInv == OwnInv /\ GroupInv /\ Candidate

LEMMA CheckStart == CheckInit => CheckInv
<1> SUFFICES ASSUME CheckInit PROVE CheckInv
  OBVIOUS
<1> QED
  BY InitOwn, InitGroup DEF CheckInit, CheckInv, Candidate

(* The observer only looks.                                                *)
LEMMA CheckKeeps ==
  ASSUME ~ReusePids, CheckInv, [CheckNext]_allVars
  PROVE  CheckInv'
<1>1. [Next]_vars
  BY DEF CheckNext, CheckStep, StopPolling, ReadOwner, CheckStat, allVars
<1>2. OwnInv' /\ GroupInv'
  BY <1>1, OwnStep, GroupStep DEF CheckInv
<1>3. Candidate'
  <2>1. terminal \in Pids \cup {Shell}
    BY DEF CheckInv, OwnInv, CountInv, TypeInv, TypeOK, KernelTypeOK
  <2> QED
    BY <2>1
    DEF CheckInv, Candidate, CheckNext, CheckStep, StopPolling, ReadOwner,
        CheckStat, allVars, observer
<1> QED
  BY <1>2, <1>3 DEF CheckInv

(* A process the tests accept is one of the job that is in the foreground  *)
(* or in hand, or the shell is about to take the terminal back: what the   *)
(* observer read before may be stale, what it concludes is not.            *)
THEOREM AcceptedRightly == ASSUME ~ReusePids PROVE CheckSpec => []AcceptedIsForeground
<1>1. ASSUME CheckInv, check = "stat", Accepts, pc \notin {"unblock", "back1", "back2"}
      PROVE  OfForegroundJob(process_pid)
  <2>1. /\ process_pid \in Pids /\ Exists(process_pid)
        /\ pgrp[process_pid] = terminal /\ pc \notin Dead
    BY <1>1 DEF CheckInv, Candidate, Accepts, OwnsTty, ChildOfShell
  <2>2. terminal # Shell
    BY <1>1, <2>1 DEF CheckInv, OwnInv, HomeInv, GroupsApart
  <2>3. pc \in Labels /\ pc \notin Home \cup {"back3"}
    BY <1>1, <2>1, <2>2
    DEF CheckInv, OwnInv, HomeInv, AtHome, TypeInv, TypeOK
  <2>4. pc \in Waited \cup {"spawn"}
    BY <1>1, <2>3 DEF Labels, Home, Waited
  <2>5. /\ cur \in Jids /\ Used(cur) /\ terminal = pgid[cur]
        /\ pids[cur] # {}
    BY <1>1, <2>2, <2>4
    DEF CheckInv, OwnInv, Owner, Tenant, Waited, CountInv, TypeInv, InHand, Peopled
  <2>6. process_pid \in Unreaped(cur)
    BY <1>1, <2>1, <2>5 DEF CheckInv, GroupInv, Homed, Unreaped
  <2> QED
    BY <2>5, <2>6 DEF OfForegroundJob
<1>2. CheckInv => AcceptedIsForeground
  BY <1>1 DEF AcceptedIsForeground
<1> QED
  BY CheckStart, CheckKeeps, <1>2, PTL DEF CheckSpec
=============================================================================
