-------------------------- MODULE Pipeline_proofs --------------------------
(***************************************************************************)
(* Three theorems on handle_job, for any number and length of pipelines:   *)
(* it leaves no end of a pipe open in the shell (NothingLeaks); its loops  *)
(* and its static index stay in their bounds (TypeCorrect); and every      *)
(* command gets the files it was promised (WiredAsPromised), the last      *)
(* under assumptions its comment explains.                                 *)
(***************************************************************************)
EXTENDS Pipeline, FiniteSetTheorems, TLAPS

(* Where the pipes of the pipeline in hand may be open in the shell.       *)
Holding == {"pipes", "spawn", "close", "closefail"}

Clean(fd) == table[fd] \in {InitialTable[fd], NoEntry}
InArray(fd) == \E s \in DOMAIN fds : fds[s] = fd

(* An entry of the shell's table that it did not start with is in the      *)
(* array _close_fds will be given.                                         *)
Accounted == \A fd \in Fds : Clean(fd) \/ (phase \in Holding /\ InArray(fd))

(* _create_pipes has filled the array up to its index.                     *)
Filled == phase = "pipes" => DOMAIN fds = 0 .. (itr - 1)

LeakInv ==
  /\ itr \in Nat
  /\ DOMAIN table = Fds
  /\ Filled
  /\ Accounted

LEMMA LeakInit == Init => LeakInv
BY DEF Init, LeakInv, Filled, Accounted, Clean, InitialTable

(* pipe2, successful or not, keeps what the array held and stores what it  *)
(* opened.                                                                 *)
LEMMA StoreKeeps ==
  ASSUME LeakInv, phase = "pipes", NEW r, NEW w, StoreFds(r, w)
  PROVE  /\ DOMAIN fds' = 0 .. (itr + 2 - 1)
         /\ \A fd : InArray(fd) => InArray(fd)'
         /\ InArray(r)' /\ InArray(w)'
<1>1. DOMAIN fds = 0 .. (itr - 1) /\ itr \in Nat
  BY DEF LeakInv, Filled
<1>2. DOMAIN fds' = 0 .. (itr + 1)
  BY DEF StoreFds
<1>3. fds'[itr] = r /\ fds'[itr + 1] = w
  BY <1>1 DEF StoreFds
<1>4. \A s \in DOMAIN fds : s \in DOMAIN fds' /\ fds'[s] = fds[s]
  BY <1>1 DEF StoreFds
<1>5. itr \in DOMAIN fds' /\ itr + 1 \in DOMAIN fds'
  BY <1>1, <1>2
<1> QED
  BY <1>1, <1>2, <1>3, <1>4, <1>5 DEF InArray

(* A step that touches neither the table nor the array.                    *)
LEMMA LeakKept ==
  ASSUME LeakInv, UNCHANGED <<table, fds>>, itr' \in Nat,
         phase' = "pipes" => phase = "pipes" /\ itr' = itr,
         phase \in Holding => phase' \in Holding \/ \A fd \in Fds : Clean(fd)
  PROVE  LeakInv'
<1>1. \A fd \in Fds : Clean(fd)' <=> Clean(fd)
  BY DEF Clean, InitialTable
<1>2. \A fd : InArray(fd)' <=> InArray(fd)
  BY DEF InArray
<1>3. Accounted'
  BY <1>1, <1>2 DEF LeakInv, Accounted
<1>4. Filled'
  BY DEF LeakInv, Filled
<1> QED
  BY <1>3, <1>4 DEF LeakInv

LEMMA LeakStep == LeakInv /\ [Next]_vars => LeakInv'
<1> SUFFICES ASSUME LeakInv, [Next]_vars PROVE LeakInv'
  OBVIOUS
<1> USE DEF LeakInv
<1>1. CASE ReadPipeline
  <2>1. \A fd \in Fds : Clean(fd)'
    BY <1>1 DEF ReadPipeline, Accounted, Holding, Clean, InitialTable
  <2>2. DOMAIN fds' = 0 .. (itr' - 1)
    BY <1>1 DEF ReadPipeline, NoTable
  <2> QED
    BY <1>1, <2>1, <2>2 DEF ReadPipeline, Accounted, Filled
<1>2. CASE EndOfFile
  BY <1>2, LeakKept DEF EndOfFile, Holding
<1>3. CASE Pipe2
  <2>1. PICK r \in FreeFds, w \in FreeFds :
          /\ StoreFds(r, w)
          /\ table' = [table EXCEPT
               ![r] = Entry(ReadEnd(job, itr \div 2), TRUE),
               ![w] = Entry(WriteEnd(job, itr \div 2), TRUE)]
    BY <1>3 DEF Pipe2, OpenPipe
  <2>2. phase = "pipes" /\ phase' = "pipes" /\ itr' = itr + 2
    BY <1>3 DEF Pipe2
  <2>3. Filled'
    BY <2>1, <2>2, StoreKeeps DEF Filled
  <2>4. \A fd \in Fds : fd = r \/ fd = w \/ table'[fd] = table[fd]
    BY <2>1
  <2>5. Accounted'
    BY <2>1, <2>2, <2>4, StoreKeeps
    DEF Accounted, Clean, Holding, InitialTable
  <2> QED
    BY <2>1, <2>2, <2>3, <2>5
<1>4. CASE Pipe2Fails
  <2>1. PICK r \in Junk, w \in Junk : StoreFds(r, w)
    BY <1>4 DEF Pipe2Fails
  <2>2. phase = "pipes" /\ phase' = "pipes" /\ itr' = itr + 2 /\ table' = table
    BY <1>4 DEF Pipe2Fails
  <2>3. Filled'
    BY <2>1, <2>2, StoreKeeps DEF Filled
  <2>4. Accounted'
    BY <2>1, <2>2, StoreKeeps DEF Accounted, Clean, Holding, InitialTable
  <2> QED
    BY <2>2, <2>3, <2>4
<1>5. CASE PipesReady
  BY <1>5, LeakKept DEF PipesReady, Holding
<1>6. CASE SpawnOk
  <2>1. /\ itr' = itr + 1
        /\ phase = "spawn" /\ UNCHANGED <<phase, job, pipe, table, fds>>
    BY <1>6 DEF SpawnOk
  <2> QED
    BY <2>1, LeakKept DEF Holding
<1>7. CASE SpawnFail
  BY <1>7, LeakKept DEF SpawnFail, Holding
<1>8. CASE EndSpawn
  BY <1>8, LeakKept DEF EndSpawn, Holding
<1>9. CASE Close
  <2>1. \A fd \in Fds : table'[fd] = IF InArray(fd) THEN NoEntry ELSE table[fd]
    BY <1>9 DEF Close, CloseFds, InArray
  <2>2. \A fd \in Fds : Clean(fd)'
    BY <2>1 DEF Accounted, Clean, InitialTable
  <2> QED
    BY <1>9, <2>2 DEF Close, CloseFds, Accounted, Filled
<1>10. CASE WaitForJob
  BY <1>10, LeakKept DEF WaitForJob, Holding
<1>11. CASE GiveBack
  BY <1>11 DEF GiveBack, Accounted, Filled, Holding, Clean, InArray, InitialTable
<1>12. CASE \E c \in Jobs \X Cmds : End(c)
  BY <1>12, LeakKept DEF End
<1>13. CASE UNCHANGED vars
  BY <1>13, LeakKept DEF vars
<1>14. CASE Terminated
  BY <1>13, <1>14 DEF Terminated
<1> QED
  BY <1>1, <1>2, <1>3, <1>4, <1>5, <1>6, <1>7, <1>8, <1>9, <1>10, <1>11,
     <1>12, <1>13, <1>14 DEF Next, ShellStep

(* handle_job closes every pipe end it opened before the shell is back at  *)
(* the prompt, also when pipe2 or the spawn of any command failed.         *)
THEOREM NothingLeaks == Spec => []NoLeak
<1>1. LeakInv => NoLeak
  BY DEF LeakInv, Accounted, Clean, NoLeak, Holding
<1> QED
  BY LeakInit, LeakStep, <1>1, PTL DEF Spec

-----------------------------------------------------------------------------
(* The types.                                                              *)

LEMMA ConstantTypes ==
  /\ MaxJobs \in Nat /\ MaxCmds \in Nat /\ MaxFd \in Nat
  /\ MaxJobs >= 1 /\ MaxCmds >= 1 /\ MaxFd >= 3
BY PipelineAssumption

(* A descriptor table; a spawn with a file action that fails has none.     *)
Tables == [Fds -> [file : Files, cloexec : BOOLEAN]]
Results == Tables \cup {NoTable}

LEMMA StandardFds == {STDIN, STDOUT, STDERR, TerminalFd} \subseteq Fds
BY ConstantTypes DEF STDIN, STDOUT, STDERR, TerminalFd, Fds

LEMMA FileTypes ==
  /\ {Closed, Tty, Input, Output} \subseteq Files
  /\ \A j \in Jobs, i \in Cmds : ReadEnd(j, i) \in Files /\ WriteEnd(j, i) \in Files
BY DEF Files, PipeEnds, ReadEnd, WriteEnd

LEMMA EntryTypes ==
  /\ NoEntry \in [file : Files, cloexec : BOOLEAN]
  /\ \A f \in Files, c \in BOOLEAN : Entry(f, c) \in [file : Files, cloexec : BOOLEAN]
BY FileTypes DEF NoEntry, Entry

LEMMA OpenTyped ==
  ASSUME NEW t \in Results, NEW fd \in Fds, NEW f \in Files
  PROVE  Open(t, fd, f) \in Results
BY EntryTypes DEF Open, Results, Tables

LEMMA Dup2Typed ==
  ASSUME NEW t \in Results, NEW from, NEW to \in Fds
  PROVE  Dup2(t, from, to) \in Results
<1>1. CASE t = NoTable \/ from \notin Fds
  BY <1>1 DEF Dup2
<1>2. CASE t # NoTable /\ from \in Fds
  <2>1. t \in Tables
    BY <1>2 DEF Results
  <2>2. t[from].file \in Files
    BY <1>2, <2>1 DEF Tables
  <2>3. Entry(t[from].file, FALSE) \in [file : Files, cloexec : BOOLEAN]
    BY <2>2, EntryTypes
  <2>4. [t EXCEPT ![to] = Entry(t[from].file, FALSE)] \in Tables
    BY <2>1, <2>3 DEF Tables
  <2> QED
    BY <1>2, <2>4 DEF Dup2, Results
<1> QED
  BY <1>1, <1>2

LEMMA DupStderrTyped ==
  ASSUME NEW t \in Results PROVE DupStderr(t) \in Results
BY Dup2Typed, StandardFds DEF DupStderr

LEMMA SetUpIoTyped ==
  ASSUME NEW t \in Results PROVE SetUpIo(t) \in Results
<1>1. RedirectInput(t) \in Results
  BY OpenTyped, DupStderrTyped, StandardFds, FileTypes DEF RedirectInput
<1> QED
  BY <1>1, OpenTyped, DupStderrTyped, StandardFds, FileTypes
  DEF SetUpIo, RedirectOutput

LEMMA SetUpPipeTyped ==
  ASSUME NEW t \in Results PROVE SetUpPipe(t) \subseteq Results
<1>1. \A r : Dup2(t, r, STDIN) \in Results
  BY Dup2Typed, StandardFds
<1>2. \A w : Dup2(t, w, STDOUT) \in Results
  BY Dup2Typed, StandardFds
<1>3. \A r, w : Dup2(Dup2(t, r, STDIN), w, STDOUT) \in Results
  BY <1>1, Dup2Typed, StandardFds
<1> QED
  BY <1>1, <1>2, <1>3 DEF SetUpPipe

(* Whatever the array, its index and the file actions, a command that is   *)
(* spawned gets a descriptor table.                                        *)
LEMMA ChildTablesTyped ==
  ASSUME table \in Tables PROVE ChildTables \subseteq Results
<1>1. SetUpIo(table) \in Results
  BY SetUpIoTyped DEF Results
<1>2. SetUpPipe(SetUpIo(table)) \subseteq Results
  BY <1>1, SetUpPipeTyped
<1> QED
  BY <1>2, DupStderrTyped DEF ChildTables

LEMMA AfterExecTyped ==
  ASSUME NEW t \in Tables PROVE AfterExec(t) \in [Fds -> Files]
<1>1. \A fd \in Fds : t[fd].file \in Files
  BY DEF Tables
<1> QED
  BY <1>1, FileTypes DEF AfterExec

-----------------------------------------------------------------------------
(* TypeOK needs to know where the indices stand: itr in the loop in hand,  *)
(* and the static fd_index over all pipelines so far.                      *)

ItrOK ==
  /\ phase \notin Ends \cup {"prompt"} => job > 0
  /\ phase = "pipes" => itr % 2 = 0 /\ itr <= FdLen
  /\ phase \in {"spawn", "close", "closefail"} => itr <= pipe.n
  /\ phase = "prompt" => itr = 0

(* The index comes forward by two for every command but the first and the  *)
(* last, and back to the start only with the last, so that a pipeline      *)
(* whose spawn fails leaves it where it was.                               *)
IndexAt ==
  IF phase = "pipes" THEN MaxCmds * (job - 1)
  ELSE IF phase = "spawn" THEN MaxCmds * (job - 1) + itr
  ELSE MaxCmds * job

IndexOK == fdIndex \in Nat /\ fdIndex % 2 = 0 /\ fdIndex <= 2 * IndexAt

TypeInv == TypeOK /\ Filled /\ ItrOK /\ IndexOK

LEMMA Budget ==
  ASSUME NEW j \in Int
  PROVE  /\ MaxCmds * j \in Int
         /\ MaxCmds * (j + 1) = MaxCmds * j + MaxCmds
         /\ MaxCmds * j = MaxCmds * (j - 1) + MaxCmds
         /\ j >= 0 => MaxCmds * j >= 0
         /\ j <= MaxJobs => MaxCmds * j <= MaxCmds * MaxJobs
BY ConstantTypes

LEMMA ShapeTypes ==
  ASSUME NEW s \in Shapes
  PROVE  s.n \in Nat /\ 1 <= s.n /\ s.n <= MaxCmds
BY ConstantTypes DEF Shapes

LEMMA PipeTypes ==
  ASSUME TypeOK
  PROVE  /\ pipe.n \in Nat /\ 1 <= pipe.n /\ pipe.n <= MaxCmds
         /\ FdLen \in Nat /\ FdLen <= 2 * MaxCmds - 2
BY ConstantTypes, ShapeTypes DEF TypeOK, FdLen

LEMMA IndexType ==
  ASSUME NEW x \in Nat, x % 2 = 0, x <= 2 * (MaxCmds * MaxJobs)
  PROVE  x \in {2 * k : k \in 0 .. (MaxCmds * MaxJobs)}
<1>1. MaxCmds * MaxJobs \in Nat
  BY ConstantTypes
<1>2. x \div 2 \in Nat /\ x = 2 * (x \div 2) /\ x \div 2 <= MaxCmds * MaxJobs
  BY <1>1
<1> QED
  BY <1>1, <1>2

LEMMA TypeInit == Init => TypeInv
<1> SUFFICES ASSUME Init PROVE TypeInv
  OBVIOUS
<1>1. phase = "prompt" /\ job = 0 /\ itr = 0 /\ fdIndex = 0 /\ fds = NoTable
  BY DEF Init
<1>2. MaxCmds * 0 = 0
  BY ConstantTypes
<1>3. pipe \in Shapes
  BY ConstantTypes DEF Init, Shapes
<1>4. InitialTable \in Tables
  BY EntryTypes, FileTypes DEF InitialTable, Tables
<1>5. DOMAIN fds = {}
  BY <1>1 DEF NoTable
<1>6. fdIndex \in {2 * k : k \in 0 .. (MaxCmds * MaxJobs)}
  BY <1>1, IndexType, ConstantTypes
<1>7. IndexOK
  BY <1>1, <1>2 DEF IndexOK, IndexAt
<1>8. ItrOK /\ Filled
  BY <1>1 DEF ItrOK, Filled
<1>9. table \in Tables /\ child \in [Jobs \X Cmds -> {NoTable}]
  BY <1>4 DEF Init
<1>10. TypeOK
  BY <1>1, <1>3, <1>5, <1>6, <1>9, ConstantTypes DEF TypeOK, Tables, Phases
<1> QED
  BY <1>7, <1>8, <1>10 DEF TypeInv

(* A pipe2, successful or not, stays in the bounds of the array.           *)
LEMMA StoreTyped ==
  ASSUME TypeInv, phase = "pipes", itr < FdLen, NEW r \in Junk, NEW w \in Junk,
         StoreFds(r, w), itr' = itr + 2
  PROVE  /\ DOMAIN fds' = 0 .. (itr' - 1)
         /\ DOMAIN fds' \subseteq 0 .. (2 * MaxCmds - 3)
         /\ \A s \in DOMAIN fds' : fds'[s] \in -1 .. MaxFd
         /\ itr' \in 0 .. (2 * MaxCmds) /\ itr' % 2 = 0 /\ itr' <= FdLen
<1>1. itr \in Nat /\ itr % 2 = 0 /\ MaxCmds \in Nat /\ pipe.n \in Nat
  BY PipeTypes, ConstantTypes DEF TypeInv, TypeOK, ItrOK
<1>2. FdLen \in Nat /\ FdLen <= 2 * MaxCmds - 2 /\ FdLen % 2 = 0
  BY <1>1, PipeTypes DEF TypeInv, FdLen
<1>3. itr + 2 <= FdLen
  BY <1>1, <1>2
<1>4. DOMAIN fds' = 0 .. (itr + 1)
  BY DEF StoreFds
<1>5. DOMAIN fds = 0 .. (itr - 1) /\ \A s \in DOMAIN fds : fds[s] \in -1 .. MaxFd
  BY DEF TypeInv, TypeOK, Filled
<1>6. ASSUME NEW s \in DOMAIN fds' PROVE fds'[s] \in -1 .. MaxFd
  <2>1. s = itr \/ s = itr + 1 \/ s \in DOMAIN fds
    BY <1>1, <1>4, <1>5
  <2>2. fds'[s] = CASE s = itr -> r [] s = itr + 1 -> w [] OTHER -> fds[s]
    BY <1>4 DEF StoreFds
  <2> QED
    BY <1>1, <1>5, <2>1, <2>2 DEF Junk
<1> QED
  BY <1>1, <1>2, <1>3, <1>4, <1>6

(* One more command: the index moves by two, or not, or back to 0.         *)
LEMMA NextIndexTyped ==
  ASSUME TypeInv, phase = "spawn", itr < pipe.n
  PROVE  /\ NextIndex \in Nat /\ NextIndex % 2 = 0
         /\ NextIndex <= 2 * (MaxCmds * (job - 1) + (itr + 1))
         /\ NextIndex <= 2 * (MaxCmds * job)
         /\ NextIndex \in {2 * k : k \in 0 .. (MaxCmds * MaxJobs)}
<1> DEFINE B == MaxCmds * (job - 1)
<1>1. /\ fdIndex \in Nat /\ fdIndex % 2 = 0 /\ fdIndex <= 2 * (B + itr)
      /\ job \in Nat /\ job > 0 /\ job <= MaxJobs
  BY ConstantTypes DEF TypeInv, TypeOK, IndexOK, IndexAt, ItrOK, Ends
<1>2. B \in Int /\ MaxCmds * job = B + MaxCmds /\ B >= 0
  BY <1>1, ConstantTypes, Budget
<1>3. MaxCmds * job <= MaxCmds * MaxJobs
  BY <1>1, ConstantTypes, Budget
<1>4. MaxCmds * MaxJobs \in Nat
  BY ConstantTypes
<1>5. itr \in Nat /\ itr + 1 <= MaxCmds
  BY PipeTypes, ConstantTypes DEF TypeInv, TypeOK
<1> HIDE DEF B
<1>6. /\ NextIndex \in Nat /\ NextIndex % 2 = 0
      /\ NextIndex <= 2 * (B + (itr + 1))
  BY <1>1, <1>2, <1>5 DEF NextIndex
<1>7. NextIndex <= 2 * (MaxCmds * job)
  BY <1>2, <1>5, <1>6, ConstantTypes
<1>8. NextIndex <= 2 * (MaxCmds * MaxJobs)
  BY <1>1, <1>3, <1>4, <1>6, <1>7, ConstantTypes
<1>9. NextIndex \in {2 * k : k \in 0 .. (MaxCmds * MaxJobs)}
  BY <1>6, <1>8, IndexType
<1> QED
  BY <1>6, <1>7, <1>9 DEF B

LEMMA TypeStep == TypeInv /\ [Next]_vars => TypeInv'
<1> SUFFICES ASSUME TypeInv, [Next]_vars PROVE TypeInv'
  OBVIOUS
<1> DEFINE Indices == {2 * k : k \in 0 .. (MaxCmds * MaxJobs)}
<1>0. /\ phase \in Phases \cup Ends /\ job \in 0 .. MaxJobs /\ pipe \in Shapes
      /\ table \in Tables
      /\ DOMAIN fds \subseteq 0 .. (2 * MaxCmds - 3)
      /\ \A s \in DOMAIN fds : fds[s] \in -1 .. MaxFd
      /\ fdIndex \in Indices
      /\ itr \in 0 .. (2 * MaxCmds)
      /\ child \in [Jobs \X Cmds -> [Fds -> Files] \cup {NoTable}]
  BY DEF TypeInv, TypeOK, Tables
<1>a. Filled /\ ItrOK /\ IndexOK
  BY DEF TypeInv
<1>b. pipe.n \in Nat /\ 1 <= pipe.n /\ pipe.n <= MaxCmds /\ job \in Nat /\ itr \in Nat
  BY <1>0, PipeTypes, ConstantTypes DEF TypeInv
<1>c. /\ MaxCmds * job \in Int
      /\ MaxCmds * (job + 1) = MaxCmds * job + MaxCmds
      /\ MaxCmds * job = MaxCmds * (job - 1) + MaxCmds
      /\ MaxCmds * (job - 1) \in Int
  BY <1>b, Budget
<1> HIDE DEF Indices
<1>1. CASE ReadPipeline
  <2>1. /\ phase = "prompt" /\ job' = job + 1 /\ job' \in 0 .. MaxJobs
        /\ pipe' \in Shapes /\ fds' = NoTable /\ itr' = 0
        /\ phase' \in {"pipes", "spawn"}
        /\ UNCHANGED <<table, fdIndex, child>>
    BY <1>0, <1>1, ConstantTypes DEF ReadPipeline
  <2>2. DOMAIN fds' = {}
    BY <2>1 DEF NoTable
  <2>3. TypeOK'
    BY <1>0, <2>1, <2>2, ConstantTypes DEF TypeOK, Tables, Phases, Indices
  <2>4. Filled'
    BY <2>1, <2>2 DEF Filled
  <2>6. ItrOK'
    BY <1>b, <2>1, ShapeTypes DEF ItrOK, FdLen, Ends
  <2>7. IndexOK'
    <3>1. fdIndex \in Nat /\ fdIndex % 2 = 0 /\ fdIndex <= 2 * (MaxCmds * job)
      BY <1>a, <2>1 DEF IndexOK, IndexAt
    <3>2. job' - 1 = job
      BY <1>b, <2>1
    <3>3. IndexAt' = MaxCmds * job
      BY <1>c, <2>1, <3>2 DEF IndexAt
    <3> QED
      BY <2>1, <3>1, <3>3 DEF IndexOK
  <2> QED
    BY <2>3, <2>4, <2>6, <2>7 DEF TypeInv
<1>2. CASE EndOfFile
  <2>1. phase = "prompt" /\ phase' = "exited"
        /\ UNCHANGED <<job, pipe, table, fds, fdIndex, itr, child>>
    BY <1>2 DEF EndOfFile
  <2>2. TypeOK'
    BY <1>0, <2>1 DEF TypeOK, Tables, Ends, Indices
  <2>3. ItrOK' /\ Filled'
    BY <2>1 DEF ItrOK, Filled, Ends
  <2>4. IndexOK'
    BY <1>a, <2>1 DEF IndexOK, IndexAt
  <2> QED
    BY <2>2, <2>3, <2>4 DEF TypeInv
<1>3. CASE Pipe2
  <2>1. PICK r \in FreeFds, w \in FreeFds :
          /\ StoreFds(r, w)
          /\ table' = [table EXCEPT
               ![r] = Entry(ReadEnd(job, itr \div 2), TRUE),
               ![w] = Entry(WriteEnd(job, itr \div 2), TRUE)]
    BY <1>3 DEF Pipe2, OpenPipe
  <2>2. /\ phase = "pipes" /\ itr < FdLen /\ itr' = itr + 2
        /\ UNCHANGED <<phase, job, pipe, fdIndex, child>>
    BY <1>3 DEF Pipe2
  <2>3. r \in Junk /\ w \in Junk /\ r \in Fds /\ w \in Fds
    BY ConstantTypes DEF FreeFds, Fds, Junk
  <2>4. /\ DOMAIN fds' = 0 .. (itr' - 1)
        /\ DOMAIN fds' \subseteq 0 .. (2 * MaxCmds - 3)
        /\ \A s \in DOMAIN fds' : fds'[s] \in -1 .. MaxFd
        /\ itr' \in 0 .. (2 * MaxCmds) /\ itr' % 2 = 0 /\ itr' <= FdLen
    BY <2>1, <2>2, <2>3, StoreTyped
  <2>5. job \in Jobs /\ itr \div 2 \in Cmds
    <3>1. job > 0
      BY <1>a, <2>2 DEF ItrOK, Ends
    <3>2. itr < 2 * (pipe.n - 1)
      BY <2>2 DEF FdLen
    <3>3. itr \div 2 \in Nat /\ itr \div 2 < pipe.n - 1
      BY <1>b, <3>2
    <3> QED
      BY <1>0, <1>b, <3>1, <3>3, ConstantTypes DEF Jobs, Cmds
  <2>6. /\ Entry(ReadEnd(job, itr \div 2), TRUE) \in [file : Files, cloexec : BOOLEAN]
        /\ Entry(WriteEnd(job, itr \div 2), TRUE) \in [file : Files, cloexec : BOOLEAN]
    BY <2>5, FileTypes, EntryTypes
  <2>7. table' \in Tables
    BY <1>0, <2>1, <2>3, <2>6 DEF Tables
  <2>8. TypeOK'
    BY <1>0, <2>2, <2>4, <2>7 DEF TypeOK, Tables, Indices
  <2>9. Filled' /\ ItrOK'
    BY <1>a, <2>2, <2>4 DEF Filled, ItrOK, FdLen, Ends
  <2>10. IndexOK'
    BY <1>a, <2>2 DEF IndexOK, IndexAt
  <2> QED
    BY <2>8, <2>9, <2>10 DEF TypeInv
<1>4. CASE Pipe2Fails
  <2>1. PICK r \in Junk, w \in Junk : StoreFds(r, w)
    BY <1>4 DEF Pipe2Fails
  <2>2. /\ phase = "pipes" /\ itr < FdLen /\ itr' = itr + 2
        /\ UNCHANGED <<phase, job, pipe, table, fdIndex, child>>
    BY <1>4 DEF Pipe2Fails
  <2>4. /\ DOMAIN fds' = 0 .. (itr' - 1)
        /\ DOMAIN fds' \subseteq 0 .. (2 * MaxCmds - 3)
        /\ \A s \in DOMAIN fds' : fds'[s] \in -1 .. MaxFd
        /\ itr' \in 0 .. (2 * MaxCmds) /\ itr' % 2 = 0 /\ itr' <= FdLen
    BY <2>1, <2>2, StoreTyped
  <2>8. TypeOK'
    BY <1>0, <2>2, <2>4 DEF TypeOK, Tables, Indices
  <2>9. Filled' /\ ItrOK'
    BY <1>a, <2>2, <2>4 DEF Filled, ItrOK, FdLen, Ends
  <2>10. IndexOK'
    BY <1>a, <2>2 DEF IndexOK, IndexAt
  <2> QED
    BY <2>8, <2>9, <2>10 DEF TypeInv
<1>5. CASE PipesReady
  <2>1. /\ phase = "pipes" /\ phase' = "spawn" /\ itr' = 0
        /\ UNCHANGED <<job, pipe, table, fds, fdIndex, child>>
    BY <1>5 DEF PipesReady
  <2>2. TypeOK'
    BY <1>0, <2>1, ConstantTypes DEF TypeOK, Tables, Phases, Indices
  <2>3. ItrOK' /\ Filled'
    BY <1>a, <1>b, <2>1 DEF ItrOK, Filled, Ends
  <2>4. IndexOK'
    BY <1>a, <1>c, <2>1 DEF IndexOK, IndexAt
  <2> QED
    BY <2>2, <2>3, <2>4 DEF TypeInv
<1>6. CASE SpawnOk
  <2>1. PICK t \in ChildTables \ {NoTable} :
          child' = [child EXCEPT ![<<job, itr>>] = AfterExec(t)]
    BY <1>6 DEF SpawnOk
  <2>2. /\ phase = "spawn" /\ itr < pipe.n /\ fdIndex' = NextIndex /\ itr' = itr + 1
        /\ UNCHANGED <<phase, job, pipe, table, fds>>
    BY <1>6 DEF SpawnOk
  <2>3. t \in Tables
    BY <1>0, ChildTablesTyped DEF Results
  <2>4. AfterExec(t) \in [Fds -> Files]
    BY <2>3, AfterExecTyped
  <2>5. child' \in [Jobs \X Cmds -> [Fds -> Files] \cup {NoTable}]
    BY <1>0, <2>1, <2>4
  <2>6. TypeOK'
    BY <1>0, <1>b, <2>2, <2>5, NextIndexTyped, ConstantTypes DEF TypeOK, Tables, Indices
  <2>7. ItrOK' /\ Filled'
    BY <1>a, <1>b, <2>2 DEF ItrOK, Filled, Ends
  <2>8. IndexOK'
    BY <1>b, <1>c, <2>2, NextIndexTyped DEF IndexOK, IndexAt
  <2> QED
    BY <2>6, <2>7, <2>8 DEF TypeInv
<1>7. CASE SpawnFail
  <2>1. /\ phase = "spawn" /\ itr < pipe.n /\ fdIndex' = NextIndex
        /\ phase' = "closefail" /\ UNCHANGED <<job, pipe, table, fds, itr, child>>
    BY <1>7 DEF SpawnFail
  <2>2. TypeOK'
    BY <1>0, <2>1, NextIndexTyped DEF TypeOK, Tables, Phases, Indices
  <2>3. ItrOK' /\ Filled'
    BY <1>a, <1>b, <2>1 DEF ItrOK, Filled, Ends
  <2>4. IndexOK'
    BY <1>c, <2>1, NextIndexTyped DEF IndexOK, IndexAt
  <2> QED
    BY <2>2, <2>3, <2>4 DEF TypeInv
<1>8. CASE EndSpawn
  <2>1. /\ phase = "spawn" /\ itr = pipe.n /\ phase' = "close"
        /\ UNCHANGED <<job, pipe, table, fds, fdIndex, itr, child>>
    BY <1>8 DEF EndSpawn
  <2>2. TypeOK'
    BY <1>0, <2>1 DEF TypeOK, Tables, Phases, Indices
  <2>3. ItrOK' /\ Filled'
    BY <1>a, <1>b, <2>1 DEF ItrOK, Filled, Ends
  <2>4. IndexOK'
    <3>1. fdIndex \in Nat /\ fdIndex % 2 = 0
          /\ fdIndex <= 2 * (MaxCmds * (job - 1) + itr)
      BY <1>a, <2>1 DEF IndexOK, IndexAt
    <3>2. IndexAt' = MaxCmds * job
      BY <2>1 DEF IndexAt
    <3> QED
      BY <1>b, <1>c, <2>1, <3>1, <3>2, ConstantTypes DEF IndexOK
  <2> QED
    BY <2>2, <2>3, <2>4 DEF TypeInv
<1>9. CASE Close
  <2>1. /\ phase \in {"close", "closefail"} /\ phase' \in {"wait", "giveback"}
        /\ UNCHANGED <<job, pipe, fds, fdIndex, itr, child>>
    BY <1>9 DEF Close
  <2>2. table' = [fd \in Fds |->
                    IF \E s \in DOMAIN fds : fds[s] = fd THEN NoEntry ELSE table[fd]]
    BY <1>9 DEF Close, CloseFds
  <2>3. table' \in Tables
    BY <1>0, <2>2, EntryTypes DEF Tables
  <2>4. TypeOK'
    BY <1>0, <2>1, <2>3 DEF TypeOK, Tables, Phases, Indices
  <2>5. ItrOK' /\ Filled'
    BY <1>a, <1>b, <2>1 DEF ItrOK, Filled, Ends
  <2>6. IndexOK'
    BY <1>a, <2>1 DEF IndexOK, IndexAt
  <2> QED
    BY <2>4, <2>5, <2>6 DEF TypeInv
<1>10. CASE WaitForJob
  <2>1. /\ phase = "wait" /\ phase' = "giveback"
        /\ UNCHANGED <<job, pipe, table, fds, fdIndex, itr, child>>
    BY <1>10 DEF WaitForJob
  <2>2. TypeOK'
    BY <1>0, <2>1 DEF TypeOK, Tables, Phases, Indices
  <2>3. ItrOK' /\ Filled'
    BY <1>a, <1>b, <2>1 DEF ItrOK, Filled, Ends
  <2>4. IndexOK'
    BY <1>a, <2>1 DEF IndexOK, IndexAt
  <2> QED
    BY <2>2, <2>3, <2>4 DEF TypeInv
<1>11. CASE GiveBack
  <2>1. /\ phase = "giveback" /\ phase' \in {"fatal", "prompt"}
        /\ fds' = NoTable /\ itr' = 0
        /\ UNCHANGED <<job, pipe, table, fdIndex, child>>
    BY <1>11 DEF GiveBack
  <2>2. DOMAIN fds' = {}
    BY <2>1 DEF NoTable
  <2>3. TypeOK'
    BY <1>0, <2>1, <2>2, ConstantTypes DEF TypeOK, Tables, Phases, Ends, Indices
  <2>4. ItrOK' /\ Filled'
    BY <1>a, <1>b, <2>1 DEF ItrOK, Filled, Ends
  <2>5. IndexOK'
    BY <1>a, <2>1 DEF IndexOK, IndexAt
  <2> QED
    BY <2>3, <2>4, <2>5 DEF TypeInv
<1>12. CASE \E c \in Jobs \X Cmds : End(c)
  <2>1. PICK c \in Jobs \X Cmds : End(c)
    BY <1>12
  <2>2. /\ child' = [child EXCEPT ![c] = NoTable]
        /\ UNCHANGED <<phase, job, pipe, table, fds, fdIndex, itr>>
    BY <2>1 DEF End
  <2>3. child' \in [Jobs \X Cmds -> [Fds -> Files] \cup {NoTable}]
    BY <1>0, <2>2
  <2>4. TypeOK'
    BY <1>0, <2>2, <2>3 DEF TypeOK, Tables, Indices
  <2>5. ItrOK' /\ Filled' /\ IndexOK'
    BY <1>a, <2>2 DEF ItrOK, Filled, Ends, IndexOK, IndexAt, FdLen
  <2> QED
    BY <2>4, <2>5 DEF TypeInv
<1>13. CASE UNCHANGED vars
  <2>1. TypeOK'
    BY <1>0, <1>13 DEF vars, TypeOK, Tables, Indices
  <2>2. ItrOK' /\ Filled' /\ IndexOK'
    BY <1>a, <1>13 DEF vars, ItrOK, Filled, Ends, IndexOK, IndexAt, FdLen
  <2> QED
    BY <2>1, <2>2 DEF TypeInv
<1>14. CASE Terminated
  BY <1>13, <1>14 DEF Terminated
<1> QED
  BY <1>1, <1>2, <1>3, <1>4, <1>5, <1>6, <1>7, <1>8, <1>9, <1>10, <1>11,
     <1>12, <1>13, <1>14 DEF Next, ShellStep

(* Every variable of the pipelines keeps its type: the loops stay in the   *)
(* array, and the static index stays even and within two for every command *)
(* the user may type, however many spawns fail.                            *)
THEOREM TypeCorrect == Spec => []TypeOK
<1>1. TypeInv => TypeOK
  BY DEF TypeInv
<1> QED
  BY TypeInit, TypeStep, <1>1, PTL DEF Spec

-----------------------------------------------------------------------------
(* The wiring.  It needs that pipe2 does not run out of descriptors, and   *)
(* that no spawn in the middle of a pipeline fails: after one the static   *)
(* index is wrong for the pipelines to come.  FailAt says at which places  *)
(* spawns may fail, in every pipeline alike, whatever its length.  Place   *)
(* MaxCmds - 1 is the last one only of a pipeline of the greatest length   *)
(* and a shorter one has no such place; any place between that and 0 is in *)
(* the middle of some pipeline.  So a shorter pipeline of more than one    *)
(* command fails at its first place or not at all.                         *)

EnoughFds == TerminalFd + 2 * (MaxCmds - 1) <= MaxFd
MiddleSpawns == \A i \in FailAt : i = 0 \/ i = MaxCmds - 1

(* The shell's table when the first k elements of the array are in use:    *)
(* the pipes lie above the terminal's descriptor, in order.                *)
Layout(k) ==
  [fd \in Fds |->
     IF TerminalFd < fd /\ fd <= TerminalFd + k
     THEN IF fd % 2 = 0 THEN Entry(ReadEnd(job, (fd - 4) \div 2), TRUE)
                        ELSE Entry(WriteEnd(job, (fd - 5) \div 2), TRUE)
     ELSE InitialTable[fd]]

Held ==
  IF phase = "pipes" THEN itr
  ELSE IF phase \in {"spawn", "close", "closefail"} THEN FdLen
  ELSE 0

TableLaid == table = Layout(Held)

ArrayLaid ==
  /\ phase \in {"spawn", "close", "closefail"} => DOMAIN fds = 0 .. (FdLen - 1)
  /\ \A s \in DOMAIN fds : fds[s] = TerminalFd + 1 + s

(* Between the first command and the last the static index points at the   *)
(* read end of the pipe before the command to be spawned next.             *)
IndexLaid ==
  fdIndex = IF phase = "spawn" /\ itr > 0 /\ itr < pipe.n THEN 2 * (itr - 1) ELSE 0

(* No process of a pipeline yet to be typed runs.                          *)
NotYet == \A j \in Jobs, i \in Cmds : j > job => ~Runs(<<j, i>>)

WireInv == TypeInv /\ TableLaid /\ ArrayLaid /\ IndexLaid /\ NotYet /\ Wiring

LEMMA FilesDiffer ==
  /\ Closed # Tty /\ Closed # Input /\ Closed # Output
  /\ \A j, i : Closed # ReadEnd(j, i) /\ Closed # WriteEnd(j, i)
BY DEF Closed, Tty, Input, Output, ReadEnd, WriteEnd

LEMMA NotNoEntry ==
  /\ \A f : Entry(f, TRUE) # NoEntry
  /\ \A f : f # Closed => Entry(f, FALSE) # NoEntry
BY DEF Entry, NoEntry

LEMMA InitialEntries ==
  /\ \A fd \in Fds : fd <= STDERR => InitialTable[fd] = Entry(Tty, FALSE)
  /\ InitialTable[TerminalFd] = Entry(Tty, TRUE)
  /\ \A fd \in Fds : fd > TerminalFd => InitialTable[fd] = NoEntry
<1>1. \A fd \in Fds : fd \in Nat
  BY ConstantTypes DEF Fds
<1>2. \A fd \in Fds : InitialTable[fd] = IF fd <= STDERR THEN Entry(Tty, FALSE)
                                        ELSE IF fd = TerminalFd THEN Entry(Tty, TRUE)
                                        ELSE NoEntry
  BY DEF InitialTable
<1>3. \A fd \in Fds : fd <= STDERR => InitialTable[fd] = Entry(Tty, FALSE)
  BY <1>2
<1>4. InitialTable[TerminalFd] = Entry(Tty, TRUE)
  <2>1. TerminalFd \in Fds /\ ~(TerminalFd <= STDERR)
    BY StandardFds DEF STDERR, TerminalFd
  <2> QED
    BY <1>2, <2>1
<1>5. \A fd \in Fds : fd > TerminalFd => InitialTable[fd] = NoEntry
  <2> SUFFICES ASSUME NEW fd \in Fds, fd > TerminalFd PROVE InitialTable[fd] = NoEntry
    OBVIOUS
  <2>1. ~(fd <= STDERR) /\ fd # TerminalFd
    BY <1>1 DEF STDERR, TerminalFd
  <2> QED
    BY <1>2, <2>1
<1> QED
  BY <1>3, <1>4, <1>5

LEMMA LayoutEntries ==
  ASSUME NEW k \in Nat
  PROVE  /\ DOMAIN Layout(k) = Fds
         /\ \A fd \in Fds : fd <= TerminalFd \/ TerminalFd + k < fd
                              => Layout(k)[fd] = InitialTable[fd]
         /\ \A s \in 0 .. (k - 1) : TerminalFd + 1 + s \in Fds =>
              /\ s % 2 = 0 => Layout(k)[TerminalFd + 1 + s]
                                = Entry(ReadEnd(job, s \div 2), TRUE)
              /\ s % 2 = 1 => Layout(k)[TerminalFd + 1 + s]
                                = Entry(WriteEnd(job, (s - 1) \div 2), TRUE)
<1>1. \A fd \in Fds : fd \in Nat
  BY ConstantTypes DEF Fds
<1>2. DOMAIN Layout(k) = Fds
  BY DEF Layout
<1>3. \A fd \in Fds : fd <= TerminalFd \/ TerminalFd + k < fd
                        => Layout(k)[fd] = InitialTable[fd]
  <2> SUFFICES ASSUME NEW fd \in Fds, fd <= TerminalFd \/ TerminalFd + k < fd
               PROVE  Layout(k)[fd] = InitialTable[fd]
    OBVIOUS
  <2>1. ~(TerminalFd < fd /\ fd <= TerminalFd + k)
    BY <1>1 DEF TerminalFd
  <2> QED
    BY <2>1 DEF Layout
<1>4. ASSUME NEW s \in 0 .. (k - 1), TerminalFd + 1 + s \in Fds, s % 2 = 0
      PROVE  Layout(k)[TerminalFd + 1 + s] = Entry(ReadEnd(job, s \div 2), TRUE)
  <2> DEFINE fd == TerminalFd + 1 + s
  <2>1. /\ fd \in Fds /\ TerminalFd < fd /\ fd <= TerminalFd + k
        /\ fd % 2 = 0 /\ fd - 4 = s
    BY <1>4 DEF TerminalFd
  <2> HIDE DEF fd
  <2>2. Layout(k)[fd] = Entry(ReadEnd(job, (fd - 4) \div 2), TRUE)
    BY <2>1 DEF Layout
  <2> QED
    BY <2>1, <2>2 DEF fd
<1>5. ASSUME NEW s \in 0 .. (k - 1), TerminalFd + 1 + s \in Fds, s % 2 = 1
      PROVE  Layout(k)[TerminalFd + 1 + s] = Entry(WriteEnd(job, (s - 1) \div 2), TRUE)
  <2> DEFINE fd == TerminalFd + 1 + s
  <2>1. /\ fd \in Fds /\ TerminalFd < fd /\ fd <= TerminalFd + k
        /\ fd % 2 # 0 /\ fd - 5 = s - 1
    BY <1>5 DEF TerminalFd
  <2> HIDE DEF fd
  <2>2. Layout(k)[fd] = Entry(WriteEnd(job, (fd - 5) \div 2), TRUE)
    BY <2>1 DEF Layout
  <2> QED
    BY <2>1, <2>2 DEF fd
<1> QED
  BY <1>2, <1>3, <1>4, <1>5

LEMMA LayoutEmpty == Layout(0) = InitialTable /\ Layout(0)' = InitialTable
<1>1. \A fd \in Fds : fd \in Nat
  BY ConstantTypes DEF Fds
<1>2. \A fd \in Fds : ~(TerminalFd < fd /\ fd <= TerminalFd + 0)
  BY <1>1 DEF TerminalFd
<1>3. Layout(0) = [fd \in Fds |-> InitialTable[fd]]
  BY <1>2 DEF Layout
<1>4. Layout(0)' = [fd \in Fds |-> InitialTable[fd]]
  BY <1>2 DEF Layout
<1> QED
  BY <1>3, <1>4 DEF InitialTable

(* What is free above the pipes, and what pipe2 takes of it.               *)
LEMMA FreeAbove ==
  ASSUME NEW k \in Nat, k % 2 = 0, table = Layout(k)
  PROVE  \A fd \in Fds : fd \in FreeFds <=> TerminalFd + k < fd
<1> SUFFICES ASSUME NEW fd \in Fds
             PROVE  table[fd] = NoEntry <=> TerminalFd + k < fd
  BY DEF FreeFds
<1>1. fd \in Nat
  BY ConstantTypes DEF Fds
<1>2. CASE fd <= STDERR
  <2>1. fd <= TerminalFd
    BY <1>1, <1>2 DEF STDERR, TerminalFd
  <2>2. table[fd] = Entry(Tty, FALSE)
    BY <1>2, <2>1, LayoutEntries, InitialEntries
  <2>3. table[fd] # NoEntry
    BY <2>2, NotNoEntry, FilesDiffer
  <2> QED
    BY <1>1, <2>1, <2>3 DEF TerminalFd
<1>3. CASE fd = TerminalFd
  <2>1. fd <= TerminalFd
    BY <1>1, <1>3
  <2>2. table[fd] = Entry(Tty, TRUE)
    BY <1>3, <2>1, LayoutEntries, InitialEntries
  <2>3. table[fd] # NoEntry
    BY <2>2, NotNoEntry
  <2> QED
    BY <1>1, <2>1, <2>3 DEF TerminalFd
<1>4. CASE TerminalFd < fd /\ fd <= TerminalFd + k
  <2>1. table[fd] = Entry(ReadEnd(job, (fd - 4) \div 2), TRUE)
        \/ table[fd] = Entry(WriteEnd(job, (fd - 5) \div 2), TRUE)
    BY <1>4 DEF Layout
  <2>2. table[fd] # NoEntry
    BY <2>1, NotNoEntry
  <2> QED
    BY <1>1, <1>4, <2>2 DEF TerminalFd
<1>5. CASE TerminalFd + k < fd
  <2>1. fd > TerminalFd
    BY <1>1, <1>5 DEF TerminalFd
  <2>2. table[fd] = NoEntry
    BY <1>5, <2>1, LayoutEntries, InitialEntries
  <2> QED
    BY <1>5, <2>2
<1> QED
  BY <1>1, <1>2, <1>3, <1>4, <1>5 DEF STDERR, TerminalFd

LEMMA LayoutGrows ==
  ASSUME NEW k \in Nat, k % 2 = 0
  PROVE  Layout(k + 2) =
           [Layout(k) EXCEPT
              ![TerminalFd + 1 + k] = Entry(ReadEnd(job, k \div 2), TRUE),
              ![TerminalFd + 2 + k] = Entry(WriteEnd(job, k \div 2), TRUE)]
<1> DEFINE L == [Layout(k) EXCEPT
              ![TerminalFd + 1 + k] = Entry(ReadEnd(job, k \div 2), TRUE),
              ![TerminalFd + 2 + k] = Entry(WriteEnd(job, k \div 2), TRUE)]
<1>1. DOMAIN L = Fds
  BY LayoutEntries
<1>2. ASSUME NEW fd \in Fds PROVE Layout(k + 2)[fd] = L[fd]
  <2>1. fd \in Nat
    BY ConstantTypes DEF Fds
  <2>2. CASE fd = TerminalFd + 1 + k
    <3>1. fd % 2 = 0 /\ fd - 4 = k /\ TerminalFd < fd /\ fd <= TerminalFd + (k + 2)
          /\ fd # TerminalFd + 2 + k
      BY <2>1, <2>2 DEF TerminalFd
    <3>2. Layout(k + 2)[fd] = Entry(ReadEnd(job, (fd - 4) \div 2), TRUE)
      BY <3>1 DEF Layout
    <3>3. L[fd] = Entry(ReadEnd(job, k \div 2), TRUE)
      BY <2>2, <3>1, LayoutEntries
    <3> QED
      BY <3>1, <3>2, <3>3
  <2>3. CASE fd = TerminalFd + 2 + k
    <3>1. fd % 2 # 0 /\ fd - 5 = k /\ TerminalFd < fd /\ fd <= TerminalFd + (k + 2)
      BY <2>1, <2>3 DEF TerminalFd
    <3>2. Layout(k + 2)[fd] = Entry(WriteEnd(job, (fd - 5) \div 2), TRUE)
      BY <3>1 DEF Layout
    <3>3. L[fd] = Entry(WriteEnd(job, k \div 2), TRUE)
      BY <2>3, LayoutEntries
    <3> QED
      BY <3>1, <3>2, <3>3
  <2>4. CASE fd # TerminalFd + 1 + k /\ fd # TerminalFd + 2 + k
    <3>1. (TerminalFd < fd /\ fd <= TerminalFd + (k + 2))
            <=> (TerminalFd < fd /\ fd <= TerminalFd + k)
      BY <2>1, <2>4 DEF TerminalFd
    <3>2. L[fd] = Layout(k)[fd]
      BY <2>4, LayoutEntries
    <3> QED
      BY <3>1, <3>2 DEF Layout
  <2> QED
    BY <2>2, <2>3, <2>4
<1>3. Layout(k + 2) = [fd \in Fds |-> Layout(k + 2)[fd]] /\ L = [fd \in Fds |-> L[fd]]
  BY <1>1 DEF Layout
<1> HIDE DEF L
<1>4. Layout(k + 2) = L
  BY <1>2, <1>3
<1> QED
  BY <1>4 DEF L

-----------------------------------------------------------------------------
(* What the file actions make of that table: standard input a, output b    *)
(* and error c, and the shell's table above them.                          *)
Std(t, a, b, c) ==
  /\ DOMAIN t = Fds
  /\ t[STDIN] = Entry(a, FALSE)
  /\ t[STDOUT] = Entry(b, FALSE)
  /\ t[STDERR] = Entry(c, FALSE)
  /\ \A fd \in Fds : fd > STDERR => t[fd] = Layout(FdLen)[fd]

LEMMA StdFds ==
  /\ STDIN \in Fds /\ STDOUT \in Fds /\ STDERR \in Fds
  /\ STDIN # STDOUT /\ STDIN # STDERR /\ STDOUT # STDERR
  /\ \A fd \in Fds : fd = STDIN \/ fd = STDOUT \/ fd = STDERR \/ fd > STDERR
  /\ ~(STDIN > STDERR) /\ ~(STDOUT > STDERR) /\ ~(STDERR > STDERR)
BY ConstantTypes DEF STDIN, STDOUT, STDERR, Fds

LEMMA StdIsTable ==
  ASSUME NEW t, DOMAIN t = Fds PROVE t # NoTable
<1>1. STDIN \in Fds
  BY StdFds
<1>2. DOMAIN NoTable = {}
  BY DEF NoTable
<1> QED
  BY <1>1, <1>2

LEMMA OpenStd ==
  ASSUME NEW t, NEW a, NEW b, NEW c, NEW f, Std(t, a, b, c)
  PROVE  /\ Std(Open(t, STDIN, f), f, b, c)
         /\ Std(Open(t, STDOUT, f), a, f, c)
<1>1. t # NoTable
  BY StdIsTable DEF Std
<1>2. /\ Open(t, STDIN, f) = [t EXCEPT ![STDIN] = Entry(f, FALSE)]
      /\ Open(t, STDOUT, f) = [t EXCEPT ![STDOUT] = Entry(f, FALSE)]
  BY <1>1 DEF Open
<1> QED
  BY <1>2, StdFds DEF Std

LEMMA Dup2Std ==
  ASSUME NEW t, NEW a, NEW b, NEW c, NEW f, NEW from \in Fds, NEW to \in Fds,
         Std(t, a, b, c), t[from] # NoEntry, t[from].file = f
  PROVE  /\ to = STDIN => Std(Dup2(t, from, to), f, b, c)
         /\ to = STDOUT => Std(Dup2(t, from, to), a, f, c)
         /\ to = STDERR => Std(Dup2(t, from, to), a, b, f)
<1>1. t # NoTable
  BY StdIsTable DEF Std
<1>2. Dup2(t, from, to) = [t EXCEPT ![to] = Entry(f, FALSE)]
  BY <1>1 DEF Dup2
<1> QED
  BY <1>2, StdFds DEF Std

LEMMA EntryFile == \A f, c : Entry(f, c).file = f
BY DEF Entry

(* 2>&1 after the standard output is what it is.                           *)
LEMMA DupStderrStd ==
  ASSUME NEW t, NEW a, NEW b, NEW c, Std(t, a, b, c), b # Closed
  PROVE  Std(DupStderr(t), a, b, IF itr \in pipe.err THEN b ELSE c)
<1>1. t[STDOUT] # NoEntry /\ t[STDOUT].file = b
  BY NotNoEntry, EntryFile DEF Std
<1>2. Std(Dup2(t, STDOUT, STDERR), a, b, b)
  BY <1>1, Dup2Std, StdFds
<1> QED
  BY <1>2 DEF DupStderr

(* A pipe end of the array, put in the place of the standard input or      *)
(* output.                                                                 *)
LEMMA PipeStd ==
  ASSUME NEW t, NEW a, NEW b, NEW c, Std(t, a, b, c), FdLen \in Nat,
         NEW s \in 0 .. (FdLen - 1), TerminalFd + FdLen <= MaxFd
  PROVE  /\ s % 2 = 0 =>
              Std(Dup2(t, TerminalFd + 1 + s, STDIN), ReadEnd(job, s \div 2), b, c)
         /\ s % 2 = 1 =>
              Std(Dup2(t, TerminalFd + 1 + s, STDOUT), a, WriteEnd(job, (s - 1) \div 2), c)
<1> DEFINE fd == TerminalFd + 1 + s
<1>1. fd \in Fds /\ fd > STDERR
  BY ConstantTypes DEF Fds, TerminalFd, STDERR
<1>2. t[fd] = Layout(FdLen)[fd]
  BY <1>1 DEF Std
<1> HIDE DEF fd
<1>3. CASE s % 2 = 0
  <2>1. t[fd] = Entry(ReadEnd(job, s \div 2), TRUE)
    BY <1>1, <1>2, <1>3, LayoutEntries DEF fd
  <2>2. t[fd] # NoEntry /\ t[fd].file = ReadEnd(job, s \div 2)
    BY <2>1, NotNoEntry, EntryFile
  <2>3. Std(Dup2(t, fd, STDIN), ReadEnd(job, s \div 2), b, c)
    BY <1>1, <2>2, Dup2Std, StdFds
  <2> QED
    BY <1>3, <2>3 DEF fd
<1>4. CASE s % 2 = 1
  <2>1. t[fd] = Entry(WriteEnd(job, (s - 1) \div 2), TRUE)
    BY <1>1, <1>2, <1>4, LayoutEntries DEF fd
  <2>2. t[fd] # NoEntry /\ t[fd].file = WriteEnd(job, (s - 1) \div 2)
    BY <2>1, NotNoEntry, EntryFile
  <2>3. Std(Dup2(t, fd, STDOUT), a, WriteEnd(job, (s - 1) \div 2), c)
    BY <1>1, <2>2, Dup2Std, StdFds
  <2> QED
    BY <1>4, <2>3 DEF fd
<1> QED
  BY <1>3, <1>4

(* The redirections of _set_up_io.                                         *)
In == IF pipe.input THEN Input ELSE Tty
Out == IF pipe.output THEN Output ELSE Tty

LEMMA SetUpIoStd ==
  ASSUME FdLen \in Nat, table = Layout(FdLen)
  PROVE  \E c : /\ Std(SetUpIo(table), In, Out, c)
                /\ itr \notin pipe.err => c = Tty
<1>1. Std(table, Tty, Tty, Tty)
  <2>1. STDIN <= TerminalFd /\ STDOUT <= TerminalFd /\ STDERR <= TerminalFd
        /\ STDIN <= STDERR /\ STDOUT <= STDERR /\ STDERR <= STDERR
    BY DEF STDIN, STDOUT, STDERR, TerminalFd
  <2> QED
    BY <2>1, StdFds, LayoutEntries, InitialEntries DEF Std
<1>2. Std(RedirectInput(table), In, Tty, Tty)
  <2>1. CASE ~pipe.input
    BY <1>1, <2>1 DEF RedirectInput, In
  <2>2. CASE pipe.input
    <3>1. Std(Open(table, STDIN, Input), Input, Tty, Tty)
      BY <1>1, OpenStd
    <3>2. Std(DupStderr(Open(table, STDIN, Input)), Input, Tty, Tty)
      BY <3>1, DupStderrStd, FilesDiffer
    <3> QED
      BY <2>2, <3>2 DEF RedirectInput, In
  <2> QED
    BY <2>1, <2>2
<1>3. CASE ~pipe.output
  BY <1>2, <1>3 DEF SetUpIo, RedirectOutput, Out
<1>4. CASE pipe.output
  <2> DEFINE c == IF itr \in pipe.err THEN Output ELSE Tty
  <2>1. Std(Open(RedirectInput(table), STDOUT, Output), In, Output, Tty)
    BY <1>2, OpenStd
  <2>2. Std(DupStderr(Open(RedirectInput(table), STDOUT, Output)), In, Output, c)
    BY <2>1, DupStderrStd, FilesDiffer
  <2>3. Std(SetUpIo(table), In, Out, c)
    BY <1>4, <2>2 DEF SetUpIo, RedirectOutput, Out
  <2> QED
    BY <2>3
<1> QED
  BY <1>3, <1>4

(* What holds when a command is spawned.                                   *)
Ready ==
  /\ TypeOK /\ EnoughFds /\ TableLaid /\ ArrayLaid /\ IndexLaid
  /\ phase = "spawn" /\ itr < pipe.n

LEMMA ReadyFacts ==
  ASSUME Ready
  PROVE  /\ pipe.n \in Nat /\ itr \in Nat /\ itr < pipe.n
         /\ FdLen \in Nat /\ FdLen = 2 * pipe.n - 2
         /\ TerminalFd + FdLen <= MaxFd
         /\ table = Layout(FdLen)
         /\ DOMAIN fds = 0 .. (FdLen - 1)
         /\ \A s \in 0 .. (FdLen - 1) : NewFds(s) = {TerminalFd + 1 + s}
         /\ fdIndex = IF itr > 0 THEN 2 * (itr - 1) ELSE 0
<1>1. pipe.n \in Nat /\ itr \in Nat /\ FdLen \in Nat /\ pipe.n <= MaxCmds
  BY PipeTypes, ConstantTypes DEF Ready, TypeOK
<1>2. FdLen = 2 * pipe.n - 2
  BY <1>1 DEF FdLen
<1>3. TerminalFd + FdLen <= MaxFd
  BY <1>1, <1>2, ConstantTypes DEF Ready, EnoughFds, TerminalFd
<1>4. table = Layout(FdLen)
  BY DEF Ready, TableLaid, Held
<1>5. DOMAIN fds = 0 .. (FdLen - 1) /\ \A s \in DOMAIN fds : fds[s] = TerminalFd + 1 + s
  BY DEF Ready, ArrayLaid
<1>6. \A s \in 0 .. (FdLen - 1) : NewFds(s) = {TerminalFd + 1 + s}
  BY <1>5 DEF NewFds
<1>7. fdIndex = IF itr > 0 THEN 2 * (itr - 1) ELSE 0
  BY DEF Ready, IndexLaid
<1> QED
  BY <1>1, <1>2, <1>3, <1>4, <1>5, <1>6, <1>7 DEF Ready

(* _set_up_pipe puts the command's ends of the pipes over whatever the     *)
(* redirections left there.                                                *)
LEMMA SetUpPipeStd ==
  ASSUME Ready, NEW t, NEW c, Std(t, In, Out, c), NEW u \in SetUpPipe(t)
  PROVE  Std(u, PromisedStdin(itr), PromisedStdout(itr), c)
<1>0. /\ pipe.n \in Nat /\ itr \in Nat /\ itr < pipe.n
      /\ FdLen \in Nat /\ FdLen = 2 * pipe.n - 2
      /\ TerminalFd + FdLen <= MaxFd
      /\ \A s \in 0 .. (FdLen - 1) : NewFds(s) = {TerminalFd + 1 + s}
      /\ fdIndex = IF itr > 0 THEN 2 * (itr - 1) ELSE 0
  BY ReadyFacts
(* the read end of the pipe before the command, and the write end of the   *)
(* one after it                                                            *)
<1>1. ASSUME itr > 0
      PROVE  /\ NewFds(fdIndex) = {TerminalFd + 1 + 2 * (itr - 1)}
             /\ \A v, a, b, d : Std(v, a, b, d) =>
                  Std(Dup2(v, TerminalFd + 1 + 2 * (itr - 1), STDIN),
                      ReadEnd(job, itr - 1), b, d)
  <2> DEFINE s == 2 * (itr - 1)
  <2>1. s \in 0 .. (FdLen - 1) /\ s % 2 = 0 /\ s \div 2 = itr - 1 /\ fdIndex = s
    BY <1>0, <1>1
  <2> HIDE DEF s
  <2>2. \A v, a, b, d : Std(v, a, b, d) =>
           Std(Dup2(v, TerminalFd + 1 + s, STDIN), ReadEnd(job, s \div 2), b, d)
    BY <1>0, <2>1, PipeStd
  <2>3. NewFds(fdIndex) = {TerminalFd + 1 + s}
    BY <1>0, <2>1
  <2>4. \A v, a, b, d : Std(v, a, b, d) =>
           Std(Dup2(v, TerminalFd + 1 + s, STDIN), ReadEnd(job, itr - 1), b, d)
    BY <2>1, <2>2
  <2> QED
    BY <2>3, <2>4 DEF s
<1>2. ASSUME itr < pipe.n - 1
      PROVE  \A v, a, b, d : Std(v, a, b, d) =>
                Std(Dup2(v, TerminalFd + 1 + (2 * itr + 1), STDOUT),
                    a, WriteEnd(job, itr), d)
  <2> DEFINE s == 2 * itr + 1
  <2>1. s \in 0 .. (FdLen - 1) /\ s % 2 = 1 /\ (s - 1) \div 2 = itr
    BY <1>0, <1>2
  <2> HIDE DEF s
  <2>2. \A v, a, b, d : Std(v, a, b, d) =>
           Std(Dup2(v, TerminalFd + 1 + s, STDOUT), a, WriteEnd(job, (s - 1) \div 2), d)
    BY <1>0, <2>1, PipeStd
  <2>3. \A v, a, b, d : Std(v, a, b, d) =>
           Std(Dup2(v, TerminalFd + 1 + s, STDOUT), a, WriteEnd(job, itr), d)
    BY <2>1, <2>2
  <2> QED
    BY <2>3 DEF s
<1>3. CASE pipe.n = 1
  <2>1. itr = 0 /\ ~(itr > 0) /\ ~(itr < pipe.n - 1)
    BY <1>0, <1>3
  <2>2. u = t
    BY <1>3 DEF SetUpPipe
  <2> QED
    BY <2>1, <2>2 DEF PromisedStdin, PromisedStdout, In, Out
<1>4. CASE pipe.n # 1 /\ IsFirst
  <2>1. itr = 0 /\ ~(itr > 0) /\ itr < pipe.n - 1 /\ fdIndex + 1 = 2 * itr + 1
        /\ fdIndex + 1 \in 0 .. (FdLen - 1)
    BY <1>0, <1>4 DEF IsFirst
  <2>2. NewFds(fdIndex + 1) = {TerminalFd + 1 + (2 * itr + 1)}
    BY <1>0, <2>1
  <2>3. u = Dup2(t, TerminalFd + 1 + (2 * itr + 1), STDOUT)
    BY <1>4, <2>2 DEF SetUpPipe
  <2>4. Std(u, In, WriteEnd(job, itr), c)
    BY <1>2, <2>1, <2>3
  <2> QED
    BY <2>1, <2>4 DEF PromisedStdin, PromisedStdout, In
<1>5. CASE pipe.n # 1 /\ ~IsFirst /\ IsLast
  <2>1. itr > 0 /\ ~(itr < pipe.n - 1)
    BY <1>0, <1>5 DEF IsFirst, IsLast
  <2>2. u = Dup2(t, TerminalFd + 1 + 2 * (itr - 1), STDIN)
    BY <1>1, <1>5, <2>1 DEF SetUpPipe
  <2>3. Std(u, ReadEnd(job, itr - 1), Out, c)
    BY <1>1, <2>1, <2>2
  <2> QED
    BY <2>1, <2>3 DEF PromisedStdin, PromisedStdout, Out
<1>6. CASE pipe.n # 1 /\ ~IsFirst /\ ~IsLast
  <2>1. itr > 0 /\ itr < pipe.n - 1 /\ fdIndex + 3 = 2 * itr + 1
        /\ fdIndex + 3 \in 0 .. (FdLen - 1)
    BY <1>0, <1>6 DEF IsFirst, IsLast
  <2>2. NewFds(fdIndex + 3) = {TerminalFd + 1 + (2 * itr + 1)}
    BY <1>0, <2>1
  <2> DEFINE v == Dup2(t, TerminalFd + 1 + 2 * (itr - 1), STDIN)
  <2>3. u = Dup2(v, TerminalFd + 1 + (2 * itr + 1), STDOUT)
    BY <1>1, <1>6, <2>1, <2>2 DEF SetUpPipe
  <2>4. Std(v, ReadEnd(job, itr - 1), Out, c)
    BY <1>1, <2>1
  <2> HIDE DEF v
  <2>5. Std(u, ReadEnd(job, itr - 1), WriteEnd(job, itr), c)
    BY <1>2, <2>1, <2>3, <2>4
  <2> QED
    BY <2>1, <2>5 DEF PromisedStdin, PromisedStdout
<1> QED
  BY <1>3, <1>4, <1>5, <1>6

LEMMA PromisedOpen ==
  ASSUME NEW i PROVE PromisedStdin(i) # Closed /\ PromisedStdout(i) # Closed
BY FilesDiffer DEF PromisedStdin, PromisedStdout

LEMMA PromisedAt ==
  ASSUME NEW i, NEW fd \in Fds
  PROVE  /\ fd = STDIN => Promised(i)[fd] = PromisedStdin(i)
         /\ fd = STDOUT => Promised(i)[fd] = PromisedStdout(i)
         /\ fd = STDERR => Promised(i)[fd] = IF i \in pipe.err THEN PromisedStdout(i)
                                             ELSE Tty
         /\ fd > STDERR => Promised(i)[fd] = Closed
<1> USE StdFds
<1>1. CASE fd = STDIN
  BY <1>1 DEF Promised
<1>2. CASE fd = STDOUT
  BY <1>2 DEF Promised
<1>3. CASE fd = STDERR
  BY <1>3 DEF Promised
<1>4. CASE fd > STDERR
  <2>1. fd # STDIN /\ fd # STDOUT /\ fd # STDERR
    BY <1>4
  <2> QED
    BY <1>4, <2>1 DEF Promised
<1> QED
  BY <1>1, <1>2, <1>3, <1>4

(* exec leaves a command the files it was promised and no other: the rest  *)
(* of the shell's table is marked close-on-exec.                           *)
LEMMA AfterExecPromised ==
  ASSUME FdLen \in Nat, NEW t, NEW i,
         Std(t, PromisedStdin(i), PromisedStdout(i),
             IF i \in pipe.err THEN PromisedStdout(i) ELSE Tty)
  PROVE  AfterExec(t) = Promised(i)
<1>1. \A f : Entry(f, FALSE).file = f /\ Entry(f, FALSE).cloexec = FALSE
  BY DEF Entry
<1>2. \A f : Entry(f, TRUE).cloexec = TRUE
  BY DEF Entry
<1>3. NoEntry.file = Closed /\ NoEntry.cloexec = FALSE
  BY DEF NoEntry, Entry
<1>4. \A fd \in Fds : AfterExec(t)[fd] = IF t[fd].cloexec THEN Closed ELSE t[fd].file
  BY DEF AfterExec
<1>5. ASSUME NEW fd \in Fds PROVE AfterExec(t)[fd] = Promised(i)[fd]
  <2>0. ASSUME NEW f, t[fd] = Entry(f, FALSE) PROVE AfterExec(t)[fd] = f
    BY <1>1, <1>4, <2>0
  <2>1. CASE fd = STDIN
    <3>1. t[fd] = Entry(PromisedStdin(i), FALSE)
      BY <2>1 DEF Std
    <3> QED
      BY <2>0, <2>1, <3>1, PromisedAt
  <2>2. CASE fd = STDOUT
    <3>1. t[fd] = Entry(PromisedStdout(i), FALSE)
      BY <2>2 DEF Std
    <3> QED
      BY <2>0, <2>2, <3>1, PromisedAt
  <2>3. CASE fd = STDERR
    <3>1. t[fd] = Entry(IF i \in pipe.err THEN PromisedStdout(i) ELSE Tty, FALSE)
      BY <2>3 DEF Std
    <3>2. AfterExec(t)[fd] = IF i \in pipe.err THEN PromisedStdout(i) ELSE Tty
      BY <2>0, <3>1
    <3> QED
      BY <2>3, <3>2, PromisedAt
  <2>4. CASE fd > STDERR
    <3>1. t[fd] = Layout(FdLen)[fd]
      BY <2>4 DEF Std
    <3>2. t[fd] = NoEntry \/ \E f : t[fd] = Entry(f, TRUE)
      <4>1. CASE TerminalFd < fd /\ fd <= TerminalFd + FdLen
        BY <3>1, <4>1 DEF Layout
      <4>2. CASE fd = TerminalFd
        <5>0. fd <= TerminalFd
          BY <4>2 DEF TerminalFd
        <5>1. t[fd] = Entry(Tty, TRUE)
          BY <3>1, <4>2, <5>0, LayoutEntries, InitialEntries
        <5> QED
          BY <5>1
      <4>3. CASE TerminalFd + FdLen < fd
        <5>1. fd > TerminalFd
          BY <4>3, ConstantTypes DEF TerminalFd, Fds
        <5> QED
          BY <3>1, <4>3, <5>1, LayoutEntries, InitialEntries
      <4>4. fd \in Nat
        BY ConstantTypes DEF Fds
      <4>5. \/ TerminalFd < fd /\ fd <= TerminalFd + FdLen
            \/ fd = TerminalFd
            \/ TerminalFd + FdLen < fd
        BY <2>4, <4>4 DEF STDERR, TerminalFd
      <4> QED
        BY <4>1, <4>2, <4>3, <4>5
    <3>3. AfterExec(t)[fd] = Closed
      BY <1>2, <1>3, <1>4, <3>2
    <3> QED
      BY <2>4, <3>3, PromisedAt
  <2> QED
    BY <2>1, <2>2, <2>3, <2>4, StdFds
<1>6. /\ AfterExec(t) = [fd \in Fds |-> AfterExec(t)[fd]]
      /\ Promised(i) = [fd \in Fds |-> Promised(i)[fd]]
  BY DEF AfterExec, Promised
<1> QED
  BY <1>5, <1>6

(* Every spawn in order gives the command what it was promised; none fails *)
(* for a file action.                                                      *)
LEMMA ChildWired ==
  ASSUME Ready, NEW u \in ChildTables
  PROVE  u # NoTable /\ AfterExec(u) = Promised(itr)
<1>1. FdLen \in Nat /\ table = Layout(FdLen)
  BY ReadyFacts
<1>2. PICK c : /\ Std(SetUpIo(table), In, Out, c)
               /\ itr \notin pipe.err => c = Tty
  BY <1>1, SetUpIoStd
<1>3. PICK v \in SetUpPipe(SetUpIo(table)) : u = DupStderr(v)
  BY DEF ChildTables
<1>4. Std(v, PromisedStdin(itr), PromisedStdout(itr), c)
  BY <1>2, SetUpPipeStd
<1>5. Std(u, PromisedStdin(itr), PromisedStdout(itr),
          IF itr \in pipe.err THEN PromisedStdout(itr) ELSE c)
  BY <1>3, <1>4, DupStderrStd, PromisedOpen
<1>6. Std(u, PromisedStdin(itr), PromisedStdout(itr),
          IF itr \in pipe.err THEN PromisedStdout(itr) ELSE Tty)
  BY <1>2, <1>5
<1> QED
  BY <1>1, <1>6, AfterExecPromised, StdIsTable DEF Std

LEMMA WireInit == Init => WireInv
<1> SUFFICES ASSUME Init PROVE WireInv
  OBVIOUS
<1>1. phase = "prompt" /\ job = 0 /\ fdIndex = 0 /\ fds = NoTable /\ table = InitialTable
  BY DEF Init
<1>2. \A j \in Jobs, i \in Cmds : ~Runs(<<j, i>>)
  BY DEF Init, Runs
<1>3. TableLaid
  BY <1>1, LayoutEmpty DEF TableLaid, Held
<1>4. DOMAIN fds = {}
  BY <1>1 DEF NoTable
<1>5. ArrayLaid /\ IndexLaid /\ NotYet
  BY <1>1, <1>2, <1>4 DEF ArrayLaid, IndexLaid, NotYet
<1>6. Wiring
  BY <1>1 DEF Wiring
<1> QED
  BY <1>3, <1>5, <1>6, TypeInit DEF WireInv

LEMMA SameLaid ==
  ASSUME TableLaid, Held' = Held, UNCHANGED <<job, table>>
  PROVE  TableLaid'
<1>1. \A k : Layout(k)' = Layout(k)
  BY DEF Layout
<1> QED
  BY <1>1 DEF TableLaid

LEMMA SamePromised ==
  ASSUME UNCHANGED <<job, pipe>>
  PROVE  \A i : Promised(i)' = Promised(i)
<1>1. \A i : PromisedStdin(i)' = PromisedStdin(i) /\ PromisedStdout(i)' = PromisedStdout(i)
  BY DEF PromisedStdin, PromisedStdout
<1> QED
  BY <1>1 DEF Promised

(* A step that starts no process and reads no pipeline.                    *)
LEMMA SameWiring ==
  ASSUME Wiring, NotYet, UNCHANGED <<job, pipe>>,
         \A c \in Jobs \X Cmds : Runs(c)' => child'[c] = child[c],
         job \in 0 .. MaxJobs
  PROVE  Wiring' /\ NotYet'
<1>1. \A c \in Jobs \X Cmds : Runs(c)' => Runs(c)
  BY DEF Runs
<1>2. NotYet'
  BY <1>1 DEF NotYet
<1>3. ASSUME NEW i \in Cmds, job > 0, Runs(<<job, i>>)'
      PROVE  child'[<<job, i>>] = Promised(i)'
  <2>1. <<job, i>> \in Jobs \X Cmds
    BY <1>3, ConstantTypes DEF Jobs
  <2>2. Runs(<<job, i>>) /\ child'[<<job, i>>] = child[<<job, i>>]
    BY <1>1, <1>3, <2>1
  <2>3. child[<<job, i>>] = Promised(i)
    BY <1>3, <2>2 DEF Wiring
  <2> QED
    BY <2>2, <2>3, SamePromised
<1> QED
  BY <1>2, <1>3 DEF Wiring

(* Where the pipe that is opened next goes.                                *)
LEMMA NextPipe ==
  ASSUME TypeInv, TableLaid, EnoughFds, phase = "pipes", itr < FdLen
  PROVE  /\ itr \in Nat /\ itr % 2 = 0 /\ table = Layout(itr)
         /\ TerminalFd + 1 + itr \in FreeFds /\ TerminalFd + 2 + itr \in FreeFds
         /\ \A fd \in FreeFds : fd \in Nat /\ TerminalFd + itr < fd
<1>1. /\ itr \in Nat /\ itr % 2 = 0 /\ pipe.n \in Nat /\ pipe.n <= MaxCmds
      /\ FdLen = 2 * (pipe.n - 1)
  BY PipeTypes, ConstantTypes DEF TypeInv, TypeOK, ItrOK, FdLen
<1>2. itr + 2 <= 2 * (MaxCmds - 1)
  BY <1>1, ConstantTypes
<1>3. TerminalFd + 2 + itr <= MaxFd
  BY <1>1, <1>2, ConstantTypes DEF EnoughFds, TerminalFd
<1>4. TerminalFd + 1 + itr \in Fds /\ TerminalFd + 2 + itr \in Fds
  BY <1>1, <1>3, ConstantTypes DEF Fds, TerminalFd
<1>5. TerminalFd + itr < TerminalFd + 1 + itr /\ TerminalFd + itr < TerminalFd + 2 + itr
  BY <1>1 DEF TerminalFd
<1>6. table = Layout(itr)
  BY DEF TableLaid, Held
<1>7. \A fd \in FreeFds : fd \in Fds /\ fd \in Nat
  BY ConstantTypes DEF FreeFds, Fds
<1> QED
  BY <1>1, <1>4, <1>5, <1>6, <1>7, FreeAbove

LEMMA WirePipe2 ==
  ASSUME WireInv, EnoughFds, Pipe2
  PROVE  TableLaid' /\ ArrayLaid'
<1>1. PICK r \in FreeFds, w \in FreeFds :
        /\ r < w /\ \A fd \in FreeFds : fd = r \/ fd >= w
        /\ StoreFds(r, w)
        /\ table' = [table EXCEPT
             ![r] = Entry(ReadEnd(job, itr \div 2), TRUE),
             ![w] = Entry(WriteEnd(job, itr \div 2), TRUE)]
  BY DEF Pipe2, OpenPipe
<1>2. /\ phase = "pipes" /\ itr < FdLen /\ itr' = itr + 2
      /\ UNCHANGED <<phase, job, pipe, fdIndex, child>>
  BY DEF Pipe2
<1>3. /\ itr \in Nat /\ itr % 2 = 0 /\ table = Layout(itr)
      /\ TerminalFd + 1 + itr \in FreeFds /\ TerminalFd + 2 + itr \in FreeFds
      /\ \A fd \in FreeFds : fd \in Nat /\ TerminalFd + itr < fd
  BY <1>2, NextPipe DEF WireInv
<1>4. r = TerminalFd + 1 + itr /\ w = TerminalFd + 2 + itr
  BY <1>1, <1>3 DEF TerminalFd
<1>5. table' = Layout(itr + 2)
  BY <1>1, <1>3, <1>4, LayoutGrows
<1>6. TableLaid'
  <2>1. Held' = itr + 2
    BY <1>2 DEF Held
  <2>2. \A k : Layout(k)' = Layout(k)
    BY <1>2 DEF Layout
  <2> QED
    BY <1>5, <2>1, <2>2 DEF TableLaid
<1>7. ASSUME NEW s \in DOMAIN fds' PROVE fds'[s] = TerminalFd + 1 + s
  <2>1. DOMAIN fds = 0 .. (itr - 1) /\ DOMAIN fds' = 0 .. (itr + 1)
    BY <1>1, <1>2 DEF WireInv, TypeInv, Filled, StoreFds
  <2>2. s \in Nat /\ (s = itr \/ s = itr + 1 \/ s \in DOMAIN fds) /\ itr + 1 # itr
    BY <1>3, <2>1
  <2>3. fds'[s] = CASE s = itr -> r [] s = itr + 1 -> w [] OTHER -> fds[s]
    BY <1>1, <2>1 DEF StoreFds
  <2>4. CASE s = itr
    <3>1. fds'[s] = r
      BY <2>2, <2>3, <2>4
    <3> QED
      BY <1>4, <2>4, <3>1
  <2>5. CASE s = itr + 1
    <3>1. fds'[s] = w
      BY <2>2, <2>3, <2>5
    <3> QED
      BY <1>3, <1>4, <2>5, <3>1 DEF TerminalFd
  <2>6. CASE s # itr /\ s # itr + 1
    <3>1. fds'[s] = fds[s]
      BY <2>2, <2>3, <2>6
    <3> QED
      BY <2>2, <2>6, <3>1 DEF WireInv, ArrayLaid
  <2> QED
    BY <2>4, <2>5, <2>6
<1> QED
  BY <1>2, <1>6, <1>7 DEF ArrayLaid

LEMMA NoPipe2Fails ==
  ASSUME WireInv, EnoughFds PROVE ~Pipe2Fails
<1> SUFFICES ASSUME Pipe2Fails PROVE FALSE
  OBVIOUS
<1>1. phase = "pipes" /\ itr < FdLen /\ Cardinality(FreeFds) < 2
  BY DEF Pipe2Fails
<1> DEFINE a == TerminalFd + 1 + itr
           b == TerminalFd + 2 + itr
<1>2. a \in FreeFds /\ b \in FreeFds /\ a # b
  BY <1>1, NextPipe DEF WireInv, TerminalFd
<1> HIDE DEF a, b
<1>3. IsFiniteSet(FreeFds)
  <2>1. IsFiniteSet(Fds)
    BY ConstantTypes, FS_Interval DEF Fds
  <2> QED
    BY <2>1, FS_Subset DEF FreeFds
<1>4. {a, b} \subseteq FreeFds
  BY <1>2
<1>5. Cardinality({a, b}) = 2
  <2>1. Cardinality({a}) = 1 /\ IsFiniteSet({a})
    BY FS_Singleton
  <2>2. {a, b} = {a} \cup {b} /\ b \notin {a}
    BY <1>2
  <2> QED
    BY <2>1, <2>2, FS_AddElement
<1>6. Cardinality({a, b}) <= Cardinality(FreeFds)
  BY <1>3, <1>4, FS_Subset
<1>7. Cardinality(FreeFds) \in Nat
  BY <1>3, FS_CardinalityType
<1> QED
  BY <1>1, <1>5, <1>6, <1>7

(* A spawn that fails is the first or the last of its pipeline, and then   *)
(* the index is where a pipeline begins.                                   *)
LEMMA WireSpawnFail ==
  ASSUME WireInv, EnoughFds, MiddleSpawns, SpawnFail
  PROVE  fdIndex' = 0
<1>1. phase = "spawn" /\ itr < pipe.n /\ fdIndex' = NextIndex
      /\ (itr \in FailAt \/ NoTable \in ChildTables)
  BY DEF SpawnFail
<1>2. Ready
  BY <1>1 DEF Ready, WireInv, TypeInv
<1>3. itr = 0 \/ itr = MaxCmds - 1
  BY <1>1, <1>2, ChildWired DEF MiddleSpawns
<1>4. pipe.n \in Nat /\ pipe.n <= MaxCmds /\ itr \in Nat
      /\ fdIndex = IF itr > 0 THEN 2 * (itr - 1) ELSE 0
  BY <1>2, ReadyFacts, PipeTypes DEF WireInv, TypeInv
<1>5. CASE itr = 0
  BY <1>1, <1>4, <1>5 DEF NextIndex, IsFirst
<1>6. CASE itr # 0
  <2>1. itr = pipe.n - 1 /\ pipe.n # 1
    BY <1>1, <1>3, <1>4, <1>6, ConstantTypes
  <2> QED
    BY <1>1, <1>6, <2>1 DEF NextIndex, IsFirst, IsLast
<1> QED
  BY <1>5, <1>6

LEMMA WireSpawnOk ==
  ASSUME WireInv, EnoughFds, SpawnOk
  PROVE  IndexLaid' /\ NotYet' /\ Wiring'
<1>1. PICK u \in ChildTables \ {NoTable} :
        child' = [child EXCEPT ![<<job, itr>>] = AfterExec(u)]
  BY DEF SpawnOk
<1>2. /\ phase = "spawn" /\ itr < pipe.n /\ fdIndex' = NextIndex /\ itr' = itr + 1
      /\ UNCHANGED <<phase, job, pipe, table, fds>>
  BY DEF SpawnOk
<1>3. Ready
  BY <1>2 DEF Ready, WireInv, TypeInv
<1>4. AfterExec(u) = Promised(itr)
  BY <1>1, <1>3, ChildWired
<1>5. /\ pipe.n \in Nat /\ pipe.n <= MaxCmds /\ itr \in Nat
      /\ fdIndex = IF itr > 0 THEN 2 * (itr - 1) ELSE 0
  BY <1>3, ReadyFacts, PipeTypes DEF WireInv, TypeInv
<1>6. job \in Jobs /\ itr \in Cmds /\ job \in Nat
  BY <1>2, <1>5, ConstantTypes DEF WireInv, TypeInv, TypeOK, ItrOK, Ends, Jobs, Cmds
<1>7. IndexLaid'
  <2>1. NextIndex = IF itr + 1 < pipe.n THEN 2 * itr ELSE 0
    <3>1. CASE pipe.n = 1
      BY <1>2, <1>5, <3>1 DEF NextIndex
    <3>2. CASE pipe.n # 1 /\ itr = 0
      BY <1>2, <1>5, <3>2 DEF NextIndex, IsFirst
    <3>3. CASE pipe.n # 1 /\ itr # 0 /\ itr = pipe.n - 1
      BY <1>2, <1>5, <3>3 DEF NextIndex, IsFirst, IsLast
    <3>4. CASE pipe.n # 1 /\ itr # 0 /\ itr # pipe.n - 1
      BY <1>2, <1>5, <3>4 DEF NextIndex, IsFirst, IsLast
    <3> QED
      BY <3>1, <3>2, <3>3, <3>4
  <2> QED
    BY <1>2, <1>5, <2>1 DEF IndexLaid
<1>8. DOMAIN child = Jobs \X Cmds
  BY DEF WireInv, TypeInv, TypeOK
<1>9. \A c \in Jobs \X Cmds : c # <<job, itr>> => child'[c] = child[c]
  BY <1>1, <1>8
<1>10. child'[<<job, itr>>] = Promised(itr)
  BY <1>1, <1>4, <1>6, <1>8
<1>11. NotYet'
  <2> SUFFICES ASSUME NEW j \in Jobs, NEW i \in Cmds, j > job PROVE ~Runs(<<j, i>>)'
    BY <1>2 DEF NotYet
  <2>1. j # job
    BY <1>6
  <2>2. child'[<<j, i>>] = child[<<j, i>>]
    BY <1>9, <2>1
  <2> QED
    BY <2>2 DEF WireInv, NotYet, Runs
<1>12. ASSUME NEW i \in Cmds, Runs(<<job, i>>)'
       PROVE  child'[<<job, i>>] = Promised(i)'
  <2>1. Promised(i)' = Promised(i)
    BY <1>2, SamePromised
  <2>2. CASE i = itr
    BY <1>10, <2>1, <2>2
  <2>3. CASE i # itr
    <3>1. child'[<<job, i>>] = child[<<job, i>>]
      BY <1>6, <1>9, <2>3
    <3>2. job > 0 /\ Runs(<<job, i>>)
      BY <1>2, <1>6, <1>12, <3>1 DEF Runs, Jobs
    <3> QED
      BY <2>1, <3>1, <3>2 DEF WireInv, Wiring
  <2> QED
    BY <2>2, <2>3
<1> QED
  BY <1>2, <1>7, <1>11, <1>12 DEF Wiring

(* _close_fds closes the pipes and nothing else.                           *)
LEMMA WireClose ==
  ASSUME WireInv, Close
  PROVE  table' = InitialTable
<1>1. phase \in {"close", "closefail"}
      /\ table' = [fd \in Fds |->
                    IF \E s \in DOMAIN fds : fds[s] = fd THEN NoEntry ELSE table[fd]]
  BY DEF Close, CloseFds
<1>2. FdLen \in Nat
  BY PipeTypes DEF WireInv, TypeInv
<1>3. table = Layout(FdLen) /\ DOMAIN fds = 0 .. (FdLen - 1)
      /\ \A s \in DOMAIN fds : fds[s] = TerminalFd + 1 + s
  BY <1>1 DEF WireInv, TableLaid, Held, ArrayLaid
<1>4. ASSUME NEW fd \in Fds PROVE table'[fd] = InitialTable[fd]
  <2>1. fd \in Nat
    BY ConstantTypes DEF Fds
  <2>2. CASE TerminalFd < fd /\ fd <= TerminalFd + FdLen
    <3> DEFINE s == fd - TerminalFd - 1
    <3>1. s \in 0 .. (FdLen - 1) /\ TerminalFd + 1 + s = fd
      BY <1>2, <2>1, <2>2 DEF TerminalFd
    <3> HIDE DEF s
    <3>2. s \in DOMAIN fds /\ fds[s] = fd
      BY <1>3, <3>1
    <3>3. table'[fd] = NoEntry
      BY <1>1, <3>2
    <3>4. fd > TerminalFd
      BY <2>1, <2>2 DEF TerminalFd
    <3> QED
      BY <3>3, <3>4, InitialEntries
  <2>3. CASE ~(TerminalFd < fd /\ fd <= TerminalFd + FdLen)
    <3>1. ASSUME NEW s \in DOMAIN fds, fds[s] = fd PROVE FALSE
      <4>1. s \in 0 .. (FdLen - 1) /\ fd = TerminalFd + 1 + s
        BY <1>3, <3>1
      <4> QED
        BY <1>2, <2>3, <4>1 DEF TerminalFd
    <3>2. table'[fd] = table[fd]
      BY <1>1, <3>1
    <3>3. fd <= TerminalFd \/ TerminalFd + FdLen < fd
      BY <1>2, <2>1, <2>3 DEF TerminalFd
    <3> QED
      BY <1>2, <1>3, <3>2, <3>3, LayoutEntries
  <2> QED
    BY <2>2, <2>3
<1>5. table' = [fd \in Fds |-> table'[fd]]
      /\ InitialTable = [fd \in Fds |-> InitialTable[fd]]
  BY <1>1 DEF InitialTable
<1> QED
  BY <1>4, <1>5

LEMMA WireRead ==
  ASSUME WireInv, ReadPipeline
  PROVE  TableLaid' /\ ArrayLaid' /\ IndexLaid' /\ NotYet' /\ Wiring'
<1>1. /\ phase = "prompt" /\ job' = job + 1 /\ job < MaxJobs
      /\ pipe' \in Shapes /\ fds' = NoTable /\ itr' = 0
      /\ phase' = IF pipe'.n > 1 THEN "pipes" ELSE "spawn"
      /\ UNCHANGED <<table, fdIndex, child>>
  BY DEF ReadPipeline
<1>2. job \in Nat /\ job' \in Jobs /\ pipe'.n \in Nat /\ 1 <= pipe'.n
  BY <1>1, ShapeTypes, ConstantTypes DEF WireInv, TypeInv, TypeOK, Jobs
<1>3. Held' = 0
  BY <1>1, <1>2 DEF Held, FdLen
<1>4. table = InitialTable
  BY <1>1, LayoutEmpty DEF WireInv, TableLaid, Held
<1>5. Layout(Held)' = Layout(0)'
  BY <1>3
<1>6. TableLaid'
  BY <1>1, <1>4, <1>5, LayoutEmpty DEF TableLaid
<1>7. DOMAIN fds' = {}
  BY <1>1 DEF NoTable
<1>8. ArrayLaid'
  BY <1>1, <1>2, <1>7 DEF ArrayLaid, FdLen
<1>9. IndexLaid'
  BY <1>1 DEF WireInv, IndexLaid
<1>10. NotYet'
  BY <1>1, <1>2 DEF WireInv, NotYet, Runs, Jobs
<1>11. ASSUME NEW i \in Cmds PROVE child'[<<job', i>>] = NoTable
  <2>1. job' > job
    BY <1>1, <1>2
  <2> QED
    BY <1>1, <1>2, <2>1 DEF WireInv, NotYet, Runs
<1>12. Wiring'
  BY <1>11 DEF Wiring, Runs
<1> QED
  BY <1>6, <1>8, <1>9, <1>10, <1>12

LEMMA WireStep ==
  ASSUME EnoughFds, MiddleSpawns, WireInv, [Next]_vars
  PROVE  WireInv'
<1>0. TypeInv /\ TypeInv' /\ job \in 0 .. MaxJobs
  BY TypeStep DEF WireInv, TypeInv, TypeOK
<1>a. TableLaid /\ ArrayLaid /\ IndexLaid /\ NotYet /\ Wiring
  BY DEF WireInv
<1>1. CASE ReadPipeline
  BY <1>0, <1>1, WireRead DEF WireInv
<1>2. CASE EndOfFile
  <2>1. phase = "prompt" /\ phase' = "exited"
        /\ UNCHANGED <<job, pipe, table, fds, fdIndex, itr, child>>
    BY <1>2 DEF EndOfFile
  <2>2. TableLaid'
    BY <1>a, <2>1, SameLaid DEF Held
  <2>3. ArrayLaid' /\ IndexLaid'
    BY <1>a, <2>1 DEF ArrayLaid, IndexLaid
  <2> QED
    BY <1>0, <1>a, <2>1, <2>2, <2>3, SameWiring DEF WireInv
<1>3. CASE Pipe2
  <2>1. /\ phase = "pipes" /\ UNCHANGED <<phase, job, pipe, fdIndex, child>>
    BY <1>3 DEF Pipe2
  <2>2. TableLaid' /\ ArrayLaid'
    BY <1>3, WirePipe2
  <2>3. IndexLaid'
    BY <1>a, <2>1 DEF IndexLaid
  <2> QED
    BY <1>0, <1>a, <2>1, <2>2, <2>3, SameWiring DEF WireInv
<1>4. CASE Pipe2Fails
  BY <1>4, NoPipe2Fails
<1>5. CASE PipesReady
  <2>1. /\ phase = "pipes" /\ itr = FdLen /\ phase' = "spawn" /\ itr' = 0
        /\ UNCHANGED <<job, pipe, table, fds, fdIndex, child>>
    BY <1>5 DEF PipesReady
  <2>2. TableLaid'
    BY <1>a, <2>1, SameLaid DEF Held, FdLen
  <2>3. ArrayLaid'
    BY <1>0, <1>a, <2>1 DEF ArrayLaid, TypeInv, Filled, FdLen
  <2>4. IndexLaid'
    BY <1>a, <2>1 DEF IndexLaid
  <2> QED
    BY <1>0, <1>a, <2>1, <2>2, <2>3, <2>4, SameWiring DEF WireInv
<1>6. CASE SpawnOk
  <2>1. /\ phase = "spawn" /\ UNCHANGED <<phase, job, pipe, table, fds>>
    BY <1>6 DEF SpawnOk
  <2>2. TableLaid'
    BY <1>a, <2>1, SameLaid DEF Held, FdLen
  <2>3. ArrayLaid'
    BY <1>a, <2>1 DEF ArrayLaid, FdLen
  <2> QED
    BY <1>0, <1>6, <2>2, <2>3, WireSpawnOk DEF WireInv
<1>7. CASE SpawnFail
  <2>1. /\ phase = "spawn" /\ phase' = "closefail"
        /\ UNCHANGED <<job, pipe, table, fds, itr, child>>
    BY <1>7 DEF SpawnFail
  <2>2. TableLaid'
    BY <1>a, <2>1, SameLaid DEF Held, FdLen
  <2>3. ArrayLaid'
    BY <1>a, <2>1 DEF ArrayLaid, FdLen
  <2>4. IndexLaid'
    BY <1>7, <2>1, WireSpawnFail DEF IndexLaid
  <2> QED
    BY <1>0, <1>a, <2>1, <2>2, <2>3, <2>4, SameWiring DEF WireInv
<1>8. CASE EndSpawn
  <2>1. /\ phase = "spawn" /\ itr = pipe.n /\ phase' = "close"
        /\ UNCHANGED <<job, pipe, table, fds, fdIndex, itr, child>>
    BY <1>8 DEF EndSpawn
  <2>2. TableLaid'
    BY <1>a, <2>1, SameLaid DEF Held, FdLen
  <2>3. ArrayLaid'
    BY <1>a, <2>1 DEF ArrayLaid, FdLen
  <2>4. IndexLaid'
    <3>1. pipe.n \in Nat /\ ~(itr < pipe.n)
      BY <1>0, <2>1, PipeTypes DEF TypeInv
    <3> QED
      BY <1>a, <2>1, <3>1 DEF IndexLaid
  <2> QED
    BY <1>0, <1>a, <2>1, <2>2, <2>3, <2>4, SameWiring DEF WireInv
<1>9. CASE Close
  <2>1. /\ phase \in {"close", "closefail"} /\ phase' \in {"wait", "giveback"}
        /\ UNCHANGED <<job, pipe, fds, fdIndex, itr, child>>
    BY <1>9 DEF Close
  <2>2. TableLaid'
    <3>1. Held' = 0
      BY <2>1 DEF Held
    <3>2. Layout(Held)' = Layout(0)'
      BY <3>1
    <3> QED
      BY <1>9, <3>2, WireClose, LayoutEmpty DEF TableLaid
  <2>3. ArrayLaid' /\ IndexLaid'
    BY <1>a, <2>1 DEF ArrayLaid, IndexLaid
  <2> QED
    BY <1>0, <1>a, <2>1, <2>2, <2>3, SameWiring DEF WireInv
<1>10. CASE WaitForJob
  <2>1. /\ phase = "wait" /\ phase' = "giveback"
        /\ UNCHANGED <<job, pipe, table, fds, fdIndex, itr, child>>
    BY <1>10 DEF WaitForJob
  <2>2. TableLaid'
    BY <1>a, <2>1, SameLaid DEF Held
  <2>3. ArrayLaid' /\ IndexLaid'
    BY <1>a, <2>1 DEF ArrayLaid, IndexLaid
  <2> QED
    BY <1>0, <1>a, <2>1, <2>2, <2>3, SameWiring DEF WireInv
<1>11. CASE GiveBack
  <2>1. /\ phase = "giveback" /\ phase' \in {"fatal", "prompt"} /\ fds' = NoTable
        /\ UNCHANGED <<job, pipe, table, fdIndex, child>>
    BY <1>11 DEF GiveBack
  <2>2. TableLaid'
    BY <1>a, <2>1, SameLaid DEF Held
  <2>3. DOMAIN fds' = {}
    BY <2>1 DEF NoTable
  <2>4. ArrayLaid' /\ IndexLaid'
    BY <1>a, <2>1, <2>3 DEF ArrayLaid, IndexLaid
  <2> QED
    BY <1>0, <1>a, <2>1, <2>2, <2>4, SameWiring DEF WireInv
<1>12. CASE \E c \in Jobs \X Cmds : End(c)
  <2>1. PICK c \in Jobs \X Cmds : End(c)
    BY <1>12
  <2>2. /\ child' = [child EXCEPT ![c] = NoTable]
        /\ UNCHANGED <<phase, job, pipe, table, fds, fdIndex, itr>>
    BY <2>1 DEF End
  <2>3. DOMAIN child = Jobs \X Cmds
    BY <1>0 DEF TypeInv, TypeOK
  <2>4. \A d \in Jobs \X Cmds : Runs(d)' => child'[d] = child[d]
    BY <2>2, <2>3 DEF Runs
  <2>5. TableLaid'
    BY <1>a, <2>2, SameLaid DEF Held, FdLen
  <2>6. ArrayLaid' /\ IndexLaid'
    BY <1>a, <2>2 DEF ArrayLaid, IndexLaid, FdLen
  <2> QED
    BY <1>0, <1>a, <2>2, <2>4, <2>5, <2>6, SameWiring DEF WireInv
<1>13. CASE UNCHANGED vars
  <2>1. UNCHANGED <<phase, job, pipe, table, fds, fdIndex, itr, child>>
    BY <1>13 DEF vars
  <2>2. TableLaid'
    BY <1>a, <2>1, SameLaid DEF Held, FdLen
  <2>3. ArrayLaid' /\ IndexLaid'
    BY <1>a, <2>1 DEF ArrayLaid, IndexLaid, FdLen
  <2> QED
    BY <1>0, <1>a, <2>1, <2>2, <2>3, SameWiring DEF WireInv
<1>14. CASE Terminated
  BY <1>13, <1>14 DEF Terminated
<1> QED
  BY <1>1, <1>2, <1>3, <1>4, <1>5, <1>6, <1>7, <1>8, <1>9, <1>10, <1>11,
     <1>12, <1>13, <1>14 DEF Next, ShellStep

(* Whatever pipelines the user types and in whatever order their processes *)
(* end: every process has exactly the files it was promised, also when the *)
(* first spawn of a pipeline has failed, or the last one of a pipeline of  *)
(* MaxCmds commands; a failing last spawn of a shorter pipeline is left    *)
(* out.  handle_job must not run out of descriptors, whose want it does    *)
(* not notice, and no spawn in the middle of a pipeline may fail: the run  *)
(* "index" shows what happens to the next one.                             *)
THEOREM WiredAsPromised ==
  ASSUME EnoughFds, MiddleSpawns PROVE Spec => []Wiring
<1>1. WireInv /\ [Next]_vars => WireInv'
  BY WireStep
<1>2. WireInv => Wiring
  BY DEF WireInv
<1> QED
  BY <1>1, <1>2, WireInit, PTL DEF Spec

=============================================================================
