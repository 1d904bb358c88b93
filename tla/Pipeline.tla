------------------------------ MODULE Pipeline ------------------------------
(***************************************************************************)
(* The file descriptors of handle_job, src/src/cush.c: the pipes of a      *)
(* pipeline (_create_pipes, _set_up_pipe, _close_fds), the redirections    *)
(* (_set_up_io) and what posix_spawn makes of them in each child           *)
(* (src/posix_spawn/spawni.c).                                             *)
(*                                                                         *)
(* The shell runs up to MaxJobs pipelines one after the other; a process   *)
(* of a background pipeline may still run when later ones are started.     *)
(* How the shell waits for its children is module JobControl; here a       *)
(* foreground pipeline is waited for until its processes have ended.       *)
(***************************************************************************)
EXTENDS Integers, FiniteSets

CONSTANTS
  MaxJobs,      (* bound: pipelines the user types                         *)
  MaxCmds,      (* bound: the longest of them                              *)
  MaxFd,        (* the largest descriptor the shell may open               *)
  FailAt        (* the commands (from 0) whose posix_spawnp may fail       *)

ASSUME PipelineAssumption ==
  /\ MaxJobs \in Nat \ {0} /\ MaxCmds \in Nat \ {0}
  /\ MaxFd \in Nat /\ MaxFd >= 3
  /\ FailAt \subseteq Nat

STDIN == 0
STDOUT == 1
STDERR == 2
TerminalFd == 3                (* what termstate_init opens                *)

Fds == 0 .. MaxFd
Jobs == 1 .. MaxJobs
Cmds == 0 .. (MaxCmds - 1)

(* Open files.  Pipe i of a job joins its commands i and i + 1.            *)
Closed == <<"closed">>
Tty == <<"tty">>
Input == <<"iored_input">>
Output == <<"iored_output">>
ReadEnd(j, i) == <<"read", j, i>>
WriteEnd(j, i) == <<"write", j, i>>
PipeEnds == {"read", "write"} \X Jobs \X Cmds
Files == {Closed, Tty, Input, Output} \cup PipeEnds

(* An entry of a descriptor table: an open file and the flag FD_CLOEXEC.   *)
Entry(f, c) == [file |-> f, cloexec |-> c]
NoEntry == Entry(Closed, FALSE)
NoTable == <<>>

(* The pipelines a user can type: the number of commands, the redirections *)
(* the grammar allows, the commands followed by |& (the last: with >&, and *)
(* so with an output file), and &.                                         *)
Shapes ==
  {s \in [n : 1 .. MaxCmds, input : BOOLEAN, output : BOOLEAN,
          err : SUBSET Cmds, bg : BOOLEAN] :
     /\ s.err \subseteq 0 .. (s.n - 1)
     /\ s.n - 1 \in s.err => s.output}

VARIABLES
  phase,        (* where the main thread is                                *)
  job,          (* the number of the pipeline in hand, or of the last one  *)
  pipe,         (* the pipeline in hand                                    *)
  table,        (* the shell's descriptor table                            *)
  fds,          (* the array _create_pipes returns; empty for NULL         *)
  fdIndex,      (* the static fd_index of _set_up_pipe                     *)
  itr,          (* the command to be spawned next; in _create_pipes the    *)
                (* index into fds                                          *)
  child         (* the files a running process has open, by descriptor     *)

vars == <<phase, job, pipe, table, fds, fdIndex, itr, child>>

Phases == {"prompt", "pipes", "spawn", "close", "closefail", "wait", "giveback"}
Ends == {"exited", "fatal"}

TypeOK ==
  /\ phase \in Phases \cup Ends
  /\ job \in 0 .. MaxJobs
  /\ pipe \in Shapes
  /\ table \in [Fds -> [file : Files, cloexec : BOOLEAN]]
  /\ DOMAIN fds \subseteq 0 .. (2 * MaxCmds - 3)
  /\ \A s \in DOMAIN fds : fds[s] \in -1 .. MaxFd
  /\ fdIndex \in {2 * k : k \in 0 .. (MaxCmds * MaxJobs)}
  /\ itr \in 0 .. (2 * MaxCmds)
  /\ child \in [Jobs \X Cmds -> [Fds -> Files] \cup {NoTable}]

InitialTable ==
  [fd \in Fds |-> IF fd <= STDERR THEN Entry(Tty, FALSE)
                  ELSE IF fd = TerminalFd THEN Entry(Tty, TRUE)
                  ELSE NoEntry]

Init ==
  /\ phase = "prompt"
  /\ job = 0
  /\ pipe = [n |-> 1, input |-> FALSE, output |-> FALSE, err |-> {}, bg |-> FALSE]
  /\ table = InitialTable
  /\ fds = NoTable
  /\ fdIndex = 0
  /\ itr = 0
  /\ child = [c \in Jobs \X Cmds |-> NoTable]

Runs(c) == child[c] # NoTable

(* The content of memory nobody has written: any descriptor, or a number   *)
(* that is none.                                                           *)
Junk == -1 .. MaxFd

-----------------------------------------------------------------------------
(* _create_pipes                                                           *)

ReadPipeline ==
  /\ phase = "prompt" /\ table[STDIN] # NoEntry /\ job < MaxJobs
  /\ job' = job + 1
  /\ pipe' \in Shapes
  /\ fds' = NoTable
  /\ itr' = 0
  /\ phase' = IF pipe'.n > 1 THEN "pipes" ELSE "spawn"
  /\ UNCHANGED <<table, fdIndex, child>>

(* End of the input, which a closed standard input is as well.             *)
EndOfFile ==
  /\ phase = "prompt"
  /\ phase' = "exited"
  /\ UNCHANGED <<job, pipe, table, fds, fdIndex, itr, child>>

FdLen == 2 * (pipe.n - 1)

FreeFds == {fd \in Fds : table[fd] = NoEntry}

(* pipe2(fds + itr, ...) stores r and w, the two lowest free descriptors.  *)
StoreFds(r, w) ==
  fds' = [s \in 0 .. (itr + 1) |->
            CASE s = itr -> r [] s = itr + 1 -> w [] OTHER -> fds[s]]

OpenPipe(cloexec) ==
  \E r, w \in FreeFds :
    /\ r < w /\ \A fd \in FreeFds : fd = r \/ fd >= w
    /\ StoreFds(r, w)
    /\ table' = [table EXCEPT
         ![r] = Entry(ReadEnd(job, itr \div 2), cloexec),
         ![w] = Entry(WriteEnd(job, itr \div 2), cloexec)]

InheritedPipe ==                 (* variant: pipe in the place of pipe2 *)
  /\ phase = "pipes" /\ itr < FdLen
  /\ OpenPipe(FALSE)
  /\ itr' = itr + 2
  /\ UNCHANGED <<phase, job, pipe, fdIndex, child>>

Pipe2 ==
  /\ phase = "pipes" /\ itr < FdLen
  /\ OpenPipe(TRUE)
  /\ itr' = itr + 2
  /\ UNCHANGED <<phase, job, pipe, fdIndex, child>>

(* pipe2 fails for want of descriptors; nobody looks at its result, and    *)
(* the two elements of the array keep what malloc left there.              *)
Pipe2Fails ==
  /\ phase = "pipes" /\ itr < FdLen
  /\ Cardinality(FreeFds) < 2
  /\ \E r, w \in Junk : StoreFds(r, w)
  /\ itr' = itr + 2
  /\ UNCHANGED <<phase, job, pipe, table, fdIndex, child>>

PipesReady ==
  /\ phase = "pipes" /\ itr = FdLen
  /\ phase' = "spawn"
  /\ itr' = 0
  /\ UNCHANGED <<job, pipe, table, fds, fdIndex, child>>

-----------------------------------------------------------------------------
(* The file actions of a command, as what they do to the child's copy t of *)
(* the descriptor table.  NoTable: an action failed, and with it the spawn.*)

(* posix_spawn_file_actions_addopen; an open that fails is one of the      *)
(* failures FailAt allows.                                                 *)
Open(t, fd, f) ==
  IF t = NoTable THEN t ELSE [t EXCEPT ![fd] = Entry(f, FALSE)]

(* posix_spawn_file_actions_adddup2, which refuses a number that cannot be *)
(* a descriptor: its result is ignored and no action is added.             *)
Dup2(t, from, to) ==
  IF t = NoTable \/ from \notin Fds THEN t
  ELSE IF t[from] = NoEntry THEN NoTable
  ELSE [t EXCEPT ![to] = Entry(t[from].file, FALSE)]

DupStderr(t) == IF itr \in pipe.err THEN Dup2(t, STDOUT, STDERR) ELSE t

RedirectInput(t) ==
  IF pipe.input THEN DupStderr(Open(t, STDIN, Input)) ELSE t

RedirectOutput(t) ==
  IF pipe.output THEN DupStderr(Open(t, STDOUT, Output)) ELSE t

(* _set_up_io for the input and for the output, whatever the command's     *)
(* place in the pipeline.                                                  *)
SetUpIo(t) == RedirectOutput(RedirectInput(t))

IsFirst == itr = 0
IsLast == itr = pipe.n - 1

(* The values newfds[s] may have: beyond the array, anything.              *)
NewFds(s) == IF s \in DOMAIN fds THEN {fds[s]} ELSE Junk

(* _set_up_pipe: the tables that may result from it.                       *)
SetUpPipe(t) ==
  IF pipe.n = 1 THEN {t}
  ELSE IF IsFirst
  THEN {Dup2(t, w, STDOUT) : w \in NewFds(fdIndex + 1)}
  ELSE IF IsLast
  THEN {Dup2(t, r, STDIN) : r \in NewFds(fdIndex)}
  ELSE {Dup2(Dup2(t, r, STDIN), w, STDOUT) :
          r \in NewFds(fdIndex), w \in NewFds(fdIndex + 3)}

IndexByOne ==                    (* variant: ++ in the place of += 2 *)
  IF pipe.n = 1 \/ IsFirst THEN fdIndex ELSE IF IsLast THEN 0 ELSE fdIndex + 1

NextIndex ==
  IF pipe.n = 1 \/ IsFirst THEN fdIndex
  ELSE IF IsLast THEN 0
  ELSE fdIndex + 2

PipesFirst ==                    (* variant: redirections after the pipes *)
  {DupStderr(SetUpIo(t)) : t \in SetUpPipe(table)}

(* The descriptor tables the command may get before its exec.              *)
ChildTables == {DupStderr(t) : t \in SetUpPipe(SetUpIo(table))}

(* exec closes the descriptors marked close-on-exec.                       *)
AfterExec(t) == [fd \in Fds |-> IF t[fd].cloexec THEN Closed ELSE t[fd].file]

SpawnOk ==
  /\ phase = "spawn" /\ itr < pipe.n
  /\ \E t \in ChildTables \ {NoTable} :
       child' = [child EXCEPT ![<<job, itr>>] = AfterExec(t)]
  /\ fdIndex' = NextIndex
  /\ itr' = itr + 1
  /\ UNCHANGED <<phase, job, pipe, table, fds>>

(* _posix_spawn_run fails: delete_job, and break.                          *)
SpawnFail ==
  /\ phase = "spawn" /\ itr < pipe.n
  /\ itr \in FailAt \/ NoTable \in ChildTables
  /\ fdIndex' = NextIndex
  /\ phase' = "closefail"
  /\ UNCHANGED <<job, pipe, table, fds, itr, child>>

EndSpawn ==
  /\ phase = "spawn" /\ itr = pipe.n
  /\ phase' = "close"
  /\ UNCHANGED <<job, pipe, table, fds, fdIndex, itr, child>>

-----------------------------------------------------------------------------
(* The end of handle_job                                                   *)

LastKept ==                      (* variant: off by one *)
  table' = [fd \in Fds |->
              IF \E s \in DOMAIN fds : s < FdLen - 1 /\ fds[s] = fd
                THEN NoEntry ELSE table[fd]]

(* _close_fds.                                                             *)
CloseFds ==
  table' = [fd \in Fds |->
              IF \E s \in DOMAIN fds : fds[s] = fd THEN NoEntry ELSE table[fd]]

(* Only a foreground job whose commands were all spawned is waited for.    *)
Close ==
  /\ phase \in {"close", "closefail"}
  /\ CloseFds
  /\ phase' = IF phase = "close" /\ ~pipe.bg THEN "wait" ELSE "giveback"
  /\ UNCHANGED <<job, pipe, fds, fdIndex, itr, child>>

(* wait_for_job, as far as the descriptors can tell.                       *)
WaitForJob ==
  /\ phase = "wait"
  /\ \A i \in Cmds : ~Runs(<<job, i>>)
  /\ phase' = "giveback"
  /\ UNCHANGED <<job, pipe, table, fds, fdIndex, itr, child>>

(* termstate_give_terminal_back_to_shell, fatal without the terminal's     *)
(* descriptor, and free(fds).                                              *)
GiveBack ==
  /\ phase = "giveback"
  /\ phase' = IF table[TerminalFd] = NoEntry THEN "fatal" ELSE "prompt"
  /\ fds' = NoTable
  /\ itr' = 0
  /\ UNCHANGED <<job, pipe, table, fdIndex, child>>

-----------------------------------------------------------------------------
(* The children                                                            *)

(* Some process has the file open.                                         *)
HeldOpen(f) ==
  \/ \E fd \in Fds : table[fd].file = f
  \/ \E c \in Jobs \X Cmds : Runs(c) /\ \E fd \in Fds : child[c][fd] = f

(* Nothing keeps the process waiting for more input: it reads no pipe, or  *)
(* one that nobody can write to any more.                                  *)
Drained(c) ==
  \A j \in Jobs, i \in Cmds :
    child[c][STDIN] = ReadEnd(j, i) => ~HeldOpen(WriteEnd(j, i))

(* A process ends; some do before they have read all their input.          *)
End(c) ==
  /\ Runs(c)
  /\ child' = [child EXCEPT ![c] = NoTable]
  /\ UNCHANGED <<phase, job, pipe, table, fds, fdIndex, itr>>

-----------------------------------------------------------------------------
ShellStep ==
  \/ Pipe2 \/ Pipe2Fails \/ PipesReady
  \/ SpawnOk \/ SpawnFail \/ EndSpawn
  \/ Close \/ WaitForJob \/ GiveBack

Terminated == phase \in Ends /\ UNCHANGED vars

Next ==
  \/ ReadPipeline
  \/ EndOfFile
  \/ ShellStep
  \/ \E c \in Jobs \X Cmds : End(c)
  \/ Terminated

Spec == Init /\ [][Next]_vars

(* The shell takes its steps, and every process that has come to the end   *)
(* of its input, if it reads a pipe, ends.                                 *)
FairSpec ==
  /\ Spec
  /\ WF_vars(ShellStep)
  /\ \A c \in Jobs \X Cmds : WF_vars(Runs(c) /\ Drained(c) /\ End(c))

-----------------------------------------------------------------------------
(* Properties                                                              *)

(* What the syntax tree and the README promise command i: the first reads  *)
(* the input file, the last writes the output file, each one reads what    *)
(* its predecessor writes, and standard error follows standard output      *)
(* where the user asked for it.  Nothing else is open.                     *)
PromisedStdin(i) ==
  IF i > 0 THEN ReadEnd(job, i - 1) ELSE IF pipe.input THEN Input ELSE Tty

PromisedStdout(i) ==
  IF i < pipe.n - 1 THEN WriteEnd(job, i) ELSE IF pipe.output THEN Output ELSE Tty

Promised(i) ==
  [fd \in Fds |->
     CASE fd = STDIN -> PromisedStdin(i)
       [] fd = STDOUT -> PromisedStdout(i)
       [] fd = STDERR -> IF i \in pipe.err THEN PromisedStdout(i) ELSE Tty
       [] OTHER -> Closed]

(* Every process of the pipeline in hand has exactly the files it was      *)
(* promised: _set_up_io's redirections of every command, overridden by     *)
(* _set_up_pipe with its static index, come to the same.                   *)
Wiring ==
  \A i \in Cmds :
    job > 0 /\ Runs(<<job, i>>) => child[<<job, i>>] = Promised(i)

(* Back at the prompt the shell has no end of a pipe open, whichever spawn *)
(* or pipe2 failed; its own descriptors may have been closed by then, but  *)
(* they are never something else.                                          *)
NoLeak ==
  phase = "prompt" => \A fd \in Fds : table[fd] \in {InitialTable[fd], NoEntry}

(* A foreground pipeline of filters always comes to its end: no process,   *)
(* and not the shell, keeps the write end of a pipe another one waits on.  *)
PipelineEnds == phase = "wait" ~> phase # "wait"

=============================================================================
