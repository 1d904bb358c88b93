# A model of cush and of its test driver

`cush` (src/src) is a job-control shell in C: it reads lines, starts pipelines
with `posix_spawn`, tracks them as jobs through `SIGCHLD`, and hands the
terminal back and forth between itself and the job in the foreground.
`pexpect-dpty` is the Python library its tests drive it with: it runs the shell
on a pseudo terminal, drains that terminal with a thread, searches what comes
for patterns, and looks into `/proc` and at the terminal to see what the shell
has done. This directory holds TLA+ modules for both, the TLC configurations
that check them, and TLAPS proofs about them.

## 1. The parts of the system

| Part | Code | State | Operations | Modelled in |
|---|---|---|---|---|
| Read-eval loop | `main`, cush.c 435-522 | the parsed line | read a line, run each pipeline (builtin or job), delete dead jobs | JobControl |
| Job table | cush.c 81-170 | `jid2job`, `job_list`, `struct job` | `add_job`, `delete_job`, look-up by jid and by pid | JobControl |
| Child status | cush.c 219-433 | the job's status and counter | `sigchld_handler`, `wait_for_job`, `handle_child_status` | JobControl |
| Starting a job | `handle_job`, `_posix_spawn_run`, 539-840 | signal mask, local loop state | spawn every command, wait or not, take the terminal back | JobControl, Pipeline |
| Pipes and redirections | 640-766 | the `fds` array, the static `fd_index` | `_create_pipes`, `_set_up_pipe`, `_close_fds`, `_set_up_io` | Pipeline |
| Builtins | `handle_builtin`, 842-943 | none of their own | `kill stop fg bg exit jobs history` | JobControl (the last two only print) |
| Terminal | termstate_management.c | sampled attributes, `shell_pgrp` | give to a group, give back, save, restore | JobControl on Kernel |
| Signals | signal_support.c | the signal mask | block, unblock, install a handler | JobControl |
| `posix_spawn` | posix_spawn/ | the arguments shared with the child | the vfork protocol of spawni.c | its effects only |
| Grammar, syntax tree | shell-grammar.y/.l, shell-ast.c | the tree | parse, build, free | no |
| List | list.c | linked elements | the Pintos list | no |
| History, prompt, printing, utilities | cush.c, utils.c | GNU History's | output and expansion | no |
| spawn | pexpect.py, class `spawn` and its `Drainpty_Thread` | buffer, flags, queue, descriptor, the child's status | `expect`, `read_nonblocking`, `isalive`, `wait`, `terminate`, `close`, the thread | Expect, and Stream (abstract) |
| Searchers | pexpect.py 1684-1843 | none | `searcher_string`, `searcher_re` | Search |
| Process checks | proc_check.py | none | wait until a child is in the foreground, check its state | ForegroundCheck (the part that concerns the terminal) |
| Terminal screen | screen.py | cells, cursor, scrolling region | move, fill, erase, scroll | Screen |
| State machine | FSM.py | its two tables | add a row, look a row up, process a symbol | FSM |
| Terminal emulator | ANSI.py | the screen, the state, the stack `memory` | one action per control sequence | ANSI, and ControlSequences (abstract) |
| fdpexpect, pxssh, setup.py | pexpect-dpty/ | | spawn on a descriptor, a dialogue with ssh, installation | no |
| Tests | tests/ | | scripts over spawn and the process checks | no |

How they interact: the main thread calls everything. The signal handler calls
`handle_child_status` in the middle of the main thread wherever `SIGCHLD` is not
blocked, and through it the job table and the terminal functions, so the table
and the terminal are shared between the two. Children change the terminal's
attributes, and the first child of a foreground job takes the terminal itself,
inside `posix_spawn`. The kernel is the third party: it holds process states,
groups, the reports `waitpid` returns and the foreground group.

The test driver stands on the other end of the shell's terminal. The program
that calls `expect` and the drain thread share one `spawn` object without a
lock, and with the child the terminal; the thread passes what it reads through
a queue. The process checks look at the shell's terminal and at `/proc` while
the shell goes on. The emulator is a sequential program over a stream: its
state machine calls actions, the actions call the screen, and one list holds
the screen and the parameters read so far.

What is hard here: one `SIGCHLD` stands for several children; the counter
`num_processes_alive` is written from the handler and from two kinds of wait;
`fg` and `bg` change a job in several steps with the handler free to run
between them; terminal ownership has four writers; `wait_for_job` sleeps in
`waitpid` with `SIGCHLD` blocked; a spawn can fail with half a pipeline
running; a static index outlives the pipeline it belongs to; a descriptor kept
open anywhere keeps a reader waiting for ever. In the test driver: a thread and
a program both read one terminal, reap one child and set the same flags; the
end of the terminal, the death of the child, a timeout and a `close` come in any
order; only the new part of the buffer is searched. In the emulator: sequences
that are broken off or unknown leave parameters behind; scrolling assigns slices
of different lengths. PROJECT.json lists each of these
hazards at its line with the properties that watch it. What makes each part
correct:

* job table: the counter equals the number of unreaped processes; a job is
  deleted only when that is zero;
* child status: no report is lost; a wait ends; it never waits for nothing;
* terminal: at the prompt the shell has it, with the attributes it is to have; in between
  the foreground job has it; the shell is never stopped for touching it;
* pipelines: each command has exactly the files it was promised, and no other;
* posix_spawn: either a child runs in its group or nothing of it is left;
* grammar: the tree is that of the line typed; list: a sequence; tree: freed once;
* spawn: what the child wrote is given out once, in order and up to the end of
  the terminal; the child is reaped once; a call with a timeout returns;
* searchers: searching the new part finds what searching everything would;
* process checks: what they accept was so;
* screen: it keeps its shape, and text stays inside the scrolling region;
* emulator: a control sequence acts with its own parameters, never another's.

## 2. The modules

### Kernel (external)

The effects of the system calls the shell makes, as operators on seven
variables, and the steps the children and the user's keyboard take. None of it
is code of the repository: it is what cush.c and termstate_management.c rely on.

* `pstate`, `pgrp`, `event`, `sigs`: each child's state, group, unreported
  status change, and pending job-control signals;
* `chld`: `SIGCHLD` is pending (one bit, as in the kernel);
* `terminal`, `tty`: foreground group and attributes.

A zombie that is reaped leaves its group. `KillpgCont` forgets the unreported
stop of a process it continues and raises `SIGCHLD`, for which `waitpid` then
has no report. `ReusePids` says whether a reaped pid may be handed out again.

### JobControl

| Code | Model |
|---|---|
| `jid2job[j]` and its `struct job` | `status[j]` ("none" for NULL), `alive[j]`, `pids[j]`, `pgid[j]`, `saved[j]` |
| the program counter of the main thread | `pc`, `cur` (the job in hand, the index of a sweep), `left` (commands to be spawned) |
| the handler has interrupted it | `inHandler` |
| its signal mask | `blocked` |
| `handle_child_status` after `waitpid` | `ReapAndHandle`, with `ChildStopped`, `ChildExited`, `ChildSignaled` |
| `sigchld_handler` | `Deliver`, `HandlerReap`, `HandlerReturn` |
| `handle_job` | `StartJob`, `TooManyJobs`, `SpawnOk`, `SpawnFail`, `EndSpawn`, `WaitReap`, `WaitDone`, `UnblockChld`, `Back1..3` |
| `delete_dead_jobs` | `SweepStep`, one per slot, and `SweepEnd` |
| `kill`, `stop`, `fg`, `bg`, `exit` | `Kill`, `Stop`, `Fg` and `Fg1..5`, `Bg` and `Bg1`, `Exit` |
| no more lines, end of a line | `EndOfFile`, `EndLine` |

Grain. A step of the main thread is one system call or the stretch of code
between two of them; the handler and the children can act between any two.
`handle_child_status` is one step: `SIGCHLD` is blocked wherever it runs (the
kernel blocks it in the handler, `wait_for_job` runs with it blocked), and once
it has taken the terminal no child can touch the attributes. The exit builtin
and the sweep run with `SIGCHLD` unblocked and are interleaved. `blocked` is the
main thread's mask: what the handler itself blocks is undone when it returns.

Outcomes. Some of the code's paths end the shell: `abort` when the table is
full; `segv` where a NULL job is dereferenced (a report of a process in no job;
`bg` of no job); `fatal_tcsetpgrp` and `fatal_waitpid` through
`utils_fatal_error`; `ttou_stopped`, which no run reaches. In these states the
model stops.

`SpawnFail` has two outcomes, as `posix_spawn` has: it fails before a child
exists, or the exec in the child fails. Then the child has already become a
group and, if it is the first of a foreground job, owned the terminal, and its
death leaves a `SIGCHLD` pending although `posix_spawn` reaped it.

A line that only holds `jobs` or `history` is `ReadLine` followed by `EndLine`
and its sweep; an empty line, after which `main` does not sweep, is no step.

Left out: what is printed; `jobs` and `history`, which change nothing; signals
to the shell itself from outside; `SIGCONT` sent by anyone but the shell; `^C`
and `^Z` at the prompt; memory exhaustion. `termstate_sample` is only called by
`termstate_init`, so `ShellTty`, the attributes the shell restores, is a
constant (the header wants it called elsewhere, too: section 5).

### Pipeline

The descriptors of `handle_job`. `table` is the shell's descriptor table with
the close-on-exec flags, `fds` the array of `_create_pipes`, `fdIndex` the
static `fd_index`, `child[c]` the files process `c` has open after its exec. A
file action is an operator on the child's copy of the table (`Open`, `Dup2`),
`ChildTables` composes them in the order of the code, and `AfterExec` closes
what is marked. Uninitialised and out-of-bounds elements of the array are read
as any number (`Junk`). `close` of a descriptor of the shell has its
consequences: without standard input the shell ends at the next read, without
the terminal's descriptor it ends in `termstate_give_terminal_back_to_shell`.

The children either end at any moment (`End`), or, for liveness, when their
input is drained: they read no pipe, or one no process can write to any more.
Job control is left to JobControl: a foreground pipeline is waited for until
its processes have ended. Terminal hand-over, append mode and permission bits
do not concern the descriptors. JobControl and Pipeline share no variable: the
first sees a pipeline as the number of its commands, the second sees a job as
its files.

### ForegroundCheck

`wait_until_child_is_in_foreground` and `check_foreground_process`, composed
with JobControl: the module extends it, adds the observer's program counter
`check` and the group it found, `process_pid`, and lets the observer's three
reads (`StopPolling`: the terminal, to end the loop; `ReadOwner`: the terminal
again; `CheckStat`: `/proc`) fall between any two steps of the shell. The loop
also ends by a timeout that raises, which changes nothing the observer keeps;
with `timeout=None` the code leaves out the loop and the check, too. A call whose
second read finds the shell itself raises. `Accepts` is what the last read tests.

### Screen, FSM, ANSI, ControlSequences

A screen is a record with the attributes of the Python object and a method is an
operator from record to record, so that ANSI's actions are calls in the order
of the code. An exception leaves the attributes as they were at that moment; the
caller of the emulator catches it and goes on. FSM's two dictionaries are sets
of rows, `get_transition` looks one up with the code's precedence, and
`TablesAssumption` says that no key has two rows. In ANSI the rows of
`ANSI.__init__` are translated one by one, an action is `Run` of its name, and
`memory` is the list `fsm.memory` with the screen (`Self`) as first element.
Symbols are characters; "semi" is the semicolon. While the machine is in INIT a
letter or digit of a control sequence is text like any other and is left to
`Text`.

ControlSequences is the abstract specification: text, and sequences with no, one
or two numbers that act on the screen with these numbers, or with a default, and
are forgotten. It has no table and no stack. It uses Screen too, so that what is
shown to be implemented is the parsing and the parameters, not the drawing.
The mapping is `Phase` (groups of states) and `Args` (the top of the stack).

### Search, Expect, Stream

Search has the two searchers as operators: where each pattern is looked for and
which match wins. `searcher_re` is modelled for expressions that match one
string. `EOF` and `TIMEOUT` in a list are taken out, as the constructors do.

Expect is the `spawn` object with its two threads; `Main` is the program and
`Drain` the `Drainpty_Thread`. A step ends where the other thread can get in
between with an effect: at a system call, at a use of the queue, at an attribute
both use. `pc` and `ret` say where each is; `ret` is needed because `isalive` is
called from many places.

| Code | Model |
|---|---|
| attributes `closed`, `terminated`, `flag_eof`, `drainpty`, `buffer` | variables of the same names |
| `incoming`, `freshlen` of `expect_loop`, its timeout running out | `incoming`, `freshlen`, `late` |
| the queue, `keepReading`, what the thread holds | `readQueue`, `keepReading`, `chunk` |
| what `expect` has handed out as `before` and `after` | `given` |
| the pseudo terminal and the child | `pty`, `slave`, `written`, `child`, `doomed`, `fdOpen` (external) |
| `expect_loop` | `Expect`, `SearchIncoming`, `Get` |
| `read_nonblocking` | `ReadNonblocking`, `Poll`, `Select`, `Read` |
| `isalive` | `Alive`, `AliveAgain`, `WaitForChild`, `StoreStatus` |
| `wait`, `terminate`, `close` | `Wait`, `Terminate` with `Signal`, `Close` with `CloseTerminal`, `Stop`, `Shut` |
| `Drainpty_Thread.run` | `ThreadStarts`, `ThreadLoops`, `ThreadPuts`, `ThreadSeesEOF`, `ThreadEnds` |

The child writes, closes its terminal and exits when it pleases, and ignores
`SIGHUP` as `_spawn` arranges. Another process may keep the terminal open after
the child, but writes nothing to it. Delays are left out: a timeout may run out
whenever the code looks at the clock.

Stream is the abstract specification of what a reader of a terminal is promised;
it knows no thread, no queue and no buffer.

## 3. The runs

JobControl (instances MCJobControl and, with the observer, MCForegroundCheck;
`Symmetry` permutes the pids, in safety runs only):

| Run | Bounds | Properties | What it shows |
|---|---|---|---|
| jobs | 2 pids, 2 slots, pipelines of <= 2 | TypeOK, AliveCount, NoLostWakeup, WaitNeverFails, NoLostSigchld, OneLiveForeground, ForegroundOwnsTerminal, DoneMeansDone, SweepDeletesDead, AcceptedIsForeground | the books of the table are right and nobody waits for nothing, for all interleavings of commands, handler, children and observer; the observer never accepts a process that is not of a foreground job |
| pipeline | 3 pids, 1 slot, pipelines of <= 3 | AliveCount, NoLostWakeup, ForegroundOwnsTerminal | the same for a job whose three processes stop and end in any order |
| live | 2 pids, 1 slot, two terminal settings, FairSpec, no symmetry | ShellOwnsPrompt, NeverStoppedByTerminal, ZombiesAreReaped, WaitReturns | the shell gets the terminal back, with the attributes it had when it started, however its children leave it; dead children are reaped; a wait ends |
| delete, stopped, fgfatal | 1 or 2 pids | one each, violated | see section 5 |

Pipeline:

| Run | Bounds | Properties | What it shows |
|---|---|---|---|
| pipes | 2 pipelines of <= 3 commands, enough descriptors, the first or third command may fail, FairSpec | TypeOK, Wiring, PipelineEnds | the index is right again for the second pipeline; redirections undone by pipes come out right; a pipeline of filters ends |
| scarce | 2 pipelines of 2, one free descriptor, any command may fail | NoLeak | nothing leaks when `pipe2` and spawns fail |
| index | as pipes, but the second command may fail | Wiring, violated | see section 5 |

pexpect-dpty:

| Run | Bounds | Properties | What it shows |
|---|---|---|---|
| terminal (ANSI) | 2 rows, 2 columns, one printing character, digits 0-2, numbers <= 2, stack <= 4, no empty region | TypeOK, OperandsReady, Rectangular, OutsideRegionStays, ParametersAreOwn | every stream, with sequences complete, broken off or unknown: stack and screen stay in order, and ANSI implements ControlSequences |
| expect (MCExpect) | output of two characters, reads of <= 2, 3 calls, with and without the thread, FairSpec | TypeOK, Conserved, SearchersAgree, ReapedOnce, EofJustified, ThreadDiesLate, InOrder, CallsReturn, ThreadStops | all interleavings of program, thread and child; `InOrder` is the refinement of Stream |
| lost (MCExpect) | the same with 2 calls and the thread | EofMeansAll, violated | see section 5 |

Why the bounds are enough to be interesting. Two slots hold a job that runs
next to one in hand, a full table, and jobs of the same line; two pids make
pipelines of two, or two jobs at once, and one `SIGCHLD` for two deaths; three
make a middle process. A pid is used once when `ReusePids` is FALSE, so the
number of pids also bounds the jobs of a behaviour: after the last one only
failing spawns, builtins and empty lines follow. Two terminal settings tell the
shell's own from another one. Two pipelines show what a pipeline leaves to the
next; three commands have a first, a middle and a last (the middle ones of a
longer pipeline are all treated alike, by one branch that advances the index). `MAXJOBS`, `MaxCmds`,
`MaxJobs`, `MaxFd` are the only bounds there. Deadlock is checked in every run
of the shell: a shell that has ended stutters, any other state has a step.

Two rows and columns have a first and a last of each, a cursor inside and
outside a region of one row, and a scroll; numbers up to 2 reach every edge, and
one of two digits that is still <= 2 ("02") exists; a stack of four holds two
parameters on top of one that an ignored sequence left behind. The theorems of
section 6 hold for all sizes. Two characters are enough for a pattern that is
split over two reads, and for one chunk in the queue while another is unread;
three calls are an `expect`, a second one that finds what the first left, and a
`close` or `terminate` around them. In the runs of MCExpect deadlock is not
checked: the program may stop calling and the child may have exited.

`ReusePids` is FALSE in the passing runs of JobControl: it says that pids do not
wrap around within the life of a job. With `ReusePids` TRUE `WaitNeverFails` and
`AliveCount` are violated, so the assumption is needed (section 5).

## 4. Fairness

`FairSpec` of JobControl has weak fairness of `ShellStep` (the shell takes a
step when it can: it is a process the kernel schedules) and of `Handler` (a
pending unblocked signal is delivered; the handler runs to its end). Nothing is
assumed of the user (`ReadLine`, `Command`, `EndOfFile` are not in `ShellStep`)
nor of the children: they need not end. Hence `WaitReturns` speaks of a job none
of whose processes runs any more, and of a process that stays stopped.

`FairSpec` of Pipeline has weak fairness of `ShellStep` and, for each process,
of ending when its input is drained. That is an assumption on the programs in
the pipeline, that they are filters, and without it no shell could promise that
a pipeline ends.

`FairSpec` of Expect has weak fairness of each thread (both are scheduled; a
step that waits, such as a `select` with nothing to read and no timeout, is not
enabled) and of the exit of a child that `SIGKILL` is on its way to. Nothing is
assumed of the program, which need not call anything, nor of a child that was
not killed, which need not write or exit. Hence `CallsReturn` and `ThreadStops`
except a `waitpid` for a child that lives. ANSI and ForegroundCheck have safety
properties only: the stream and the shell owe them nothing.

## 5. Where the code and its documentation disagree

Each is a run that TLC shows violated; PROJECT.json quotes the lines.

* delete (`DeleteOnlyWhenDead`): a pipeline whose second command cannot be spawned is deleted while its
  first process runs (cush.c:606 against 157). Its later report crashes the shell.
* stopped (`StoppedMeansStopped`): `fg` and `bg` set the status before they send `SIGCONT`; a stop
  handled in between leaves a running job marked as stopped (cush.c:919).
* fgfatal (`FgNeverFatal`): `fg` of a job that has ended, or ends meanwhile, ends the shell.
* index: a spawn that fails in the middle of a pipeline spoils the next one
  (cush.c:689).
* lost: after the thread has ended, `expect` no longer looks into the queue and
  reports the end of the terminal with output still in it (pexpect.py:1444
  against 1320).

Seen while modelling, without a run of their own, in the shell:
`termstate_sample` "should be called when a foreground process exits, but not
when a foreground process terminates b/c of a signal", so that the last known
good attributes are restored (termstate_management.h:27-33; the comments of
tests/advanced/test_termstate2.py, lines 6 and 34, take it that the shell
does), but its one caller is `termstate_init` (termstate_management.c:43).
Whatever attributes a foreground job leaves, be it that `stty` has set them and
exited normally, are therefore undone at the next prompt; what the test itself
checks, that those of a killed program do not stick, holds. `ShellOwnsPrompt`
and `PromptOwned` state what the code does, with the attributes of the shell's
start, and not what the header says. The attributes a
job had when it stopped are saved but never given back, `fg` passes NULL
(cush.c:908 against termstate_management.h:11); a report goes to the older of
two jobs with the same pid when identifiers wrap around (cush.c:323); a finished
foreground job keeps FOREGROUND until the line ends, so two jobs can be in that state, which
cush.c:83 excludes (`OneLiveForeground` is what does hold); `kill` of a stopped
job leaves `SIGTERM` pending (cush.c:870); the result of `pipe2` is not checked
and its array then holds uninitialised memory (cush.c:654, `Pipe2Fails`).

And in pexpect-dpty: `ESC[0;0r` sets a scrolling region that ends before the
first row, after which a line feed loses a row of what screen.py:42 calls a
rectangular array (screen.py:280; `EmptyRegions` TRUE shows it); the docstring
of `write_ch` says that there is no scrolling, the code scrolls (ANSI.py:265);
`DoEraseLine` reads an undefined name (ANSI.py:118), so `ESC[nK` always raises;
`isalive` is documented not to block (pexpect.py:1135) and blocks once
`flag_eof` is set while the child lives (1148); without a timeout
`wait_until_child_is_in_foreground` checks nothing (proc_check.py:165).

## 6. What is proved

TLAPS checks these for every value of the constants that satisfies the named
assumptions of the modules (`KernelAssumption`, `JobControlAssumption`,
`PipelineAssumption`, `ScreenAssumption`, `ANSIAssumption`, `ExpectAssumption`),
and of the theorems where they state one. Every safety property and both
refinements that a passing run checks are now theorems as well.

| Module | Theorems | Besides the assumptions on constants |
|---|---|---|
| JobControl_proofs | `TypeCorrect`, `ReportsNotLost` | |
| | `AliveCounted`, `SweepSafe`, `WaitSucceeds`, `WakeupNotLost` | `~ReusePids` |
| JobControl_ownership | `PromptOwned`, `NotStopped`, `OneForeground` | |
| | `ForegroundKept`, `DoneIsDone` | `~ReusePids` |
| ForegroundCheck_proofs | `AcceptedRightly` | `~ReusePids` |
| Pipeline_proofs | `NothingLeaks`, `TypeCorrect` | |
| | `WiredAsPromised` | `EnoughFds`, `MiddleSpawns` |
| ANSI_proofs | `TypeCorrect`, `OperandsAlwaysReady`, `StaysRectangular`, `TextKeepsItsPlace` | `~EmptyRegions` |
| ANSI_refinement | `ParametersBelong` | `~EmptyRegions` |
| Expect_proofs | `TypeCorrect`, `Reaped`, `EofIsTheEnd`, `DiesLate` | |
| Expect_refinement | `FreshIsEnough`, `NothingLost`, `StreamImplemented` | |

### The job table: JobControl_proofs

One inductive invariant in three layers:

1. `TypeInv`: the types, and what they rest on. `InHand`: `cur` is a job where
   the code dereferences it. `Masked`: which signals are blocked at which point
   (so that the handler cannot interrupt `handle_job` before the unblocking).
   `Peopled` and `Grouped`: the table's pids were handed out, and a job with
   processes has a group. Gives `TypeCorrect`. TypeOK alone is not inductive:
   the terminal is given to `pgid[cur]`, whose being a pid needs the rest.
2. `CountInv` adds `EventOK` (which reports go with which process states, and
   that one is never unannounced) and `Books`: every pid in the table has been
   used, no pid is in two jobs, empty slots are empty, and `AliveCount`. A reap
   takes one process out of exactly one job, which needs the disjointness. Gives
   `AliveCounted`, `SweepSafe`, `WaitSucceeds`, and `ReportsNotLost`, which
   needs only the first conjunct.
3. `WakeInv` adds `InGroup` (a job's live processes are in its group) and
   `Watched` (a foreground job with `SIGCHLD` blocked that must be waited for
   has a process that runs or can be reported). Gives `WakeupNotLost`.

`AliveCounted`, `SweepSafe`, `WaitSucceeds` and `WakeupNotLost` assume
`~ReusePids`, without which they are false. `TypeCorrect` and
`ReportsNotLost` do not.

### The terminal: JobControl_ownership, ForegroundCheck_proofs

* `HomeInv` gives `PromptOwned` and `NotStopped`. Its parts are the exact signal
  mask at every program point (`MasksKept`), that no child is in the shell's
  group (`GroupsApart`: otherwise a child could use the terminal while the shell
  has it), and where terminal and attributes are the shell's (`AtHome`). It
  rests on `TypeInv` only, so it holds even when pids are reused.
* `ForeInv` gives `OneForeground`: a job with processes left whose status is
  FOREGROUND is the job in hand (`OnlyInHand`), which is stronger than "at most
  one" and, unlike it, inductive. `NothingLeft` (an empty slot counts nothing)
  is for the slot a new job gets.
* `OwnInv` joins both with `CountInv` and gives `ForegroundKept` and `DoneIsDone`.
  `Owner` says from when the job in the foreground has the terminal, `Tenant`
  that nobody but it and the shell ever gets it. The handler takes the terminal
  back in the middle of `fg` or of a spawn; `TakenBack` shows that it does so
  only from the job in hand, and only when that has ended or stopped.
* `CheckInv` gives `AcceptedRightly`. The observer's three reads may be stale;
  what saves its conclusion is `Homed` (whoever is in the group of a job is one
  of its processes) with `Led` (a job's group is one of its own processes), and
  that the group it holds was not the shell's (`Candidate`).

### The pipelines: Pipeline_proofs

* `LeakInv`, for `NothingLeaks`: every entry of the shell's table it did not
  start with is in the array that `_close_fds` will be given (`Accounted`),
  which needs that `_create_pipes` has filled the array up to its index
  (`Filled`) and keeps what it stored.
* `TypeInv`, for `TypeCorrect`: where the index of each loop may stand
  (`ItrOK`), and how far the static index has come over all pipelines so far
  (`IndexOK`). Both are needed: a spawn that fails leaves the static index where
  it was, so that its bound grows with every pipeline. The lemmas ...Typed say that a
  file action makes a descriptor table of a descriptor table, or fails.
* `WireInv`, for `WiredAsPromised`: the pipes lie in the shell's table right
  above the terminal's descriptor, in order (`TableLaid`), the array names them
  in that order (`ArrayLaid`), and the static index points at the pipe before
  the next command (`IndexLaid`). The lemmas ...Std follow standard input, output
  and error through `_set_up_io`, `_set_up_pipe` and the last `2>&1`;
  `AfterExecPromised` shows that nothing else survives the exec.
  The theorem assumes `EnoughFds`, that `pipe2` does not run out of descriptors,
  which the code does not notice, and `MiddleSpawns`, that a spawn fails only at
  place 0 or at place `MaxCmds - 1`: the first command of any pipeline, or the
  last one of a pipeline of the greatest length. A middle place has to be
  excluded: the run `index` is the counterexample. As `FailAt` names places and
  not commands, this also excludes a failing last command of a shorter pipeline
  (its place is a middle one in a longer pipeline), about which the theorem says
  nothing. The run `pipes` satisfies both assumptions.

### The emulator: ANSI_proofs, ANSI_refinement

For any size of the screen, any characters, digits and bounds on numbers and
stack. All five theorems assume `~EmptyRegions`: a region that ends before the
first row breaks `Rectangular`, and with it the rest.

* `Good` says what every screen method keeps: the types, all rows present, and a
  region that ends on a row. `Rectangular` alone is not inductive: a scroll keeps
  the number of rows because of where the region ends.
* `Ready` says the same of the stack: `Self` at the bottom and only there, and as
  many numbers above it as the state's actions pop (`Need`). Every row of the
  tables is `Balanced`: it leaves as much on the stack as its next state needs.
* `IInv` joins both and gives `TypeCorrect`, `OperandsAlwaysReady` and
  `StaysRectangular`; with lemmas on the rows that writing a character touches it
  gives `TextKeepsItsPlace`.
* `ParametersBelong` is the refinement of ControlSequences. The instance has its
  own copy of the screen's methods, which the Same... lemmas identify with
  ANSI's. `Mapped` says what phase and parameters each state stands for; one
  lemma per group of states lists the rows its symbols find (...Rows), another
  maps each of them to an abstract step or a stutter (...Refines).

### The spawn: Expect_proofs, Expect_refinement

For any output, searches, maxread and number of calls, with and without the
thread; none of the theorems needs an assumption of its own.

* `TypeInv` adds to the types where each thread can be (`Places`), and from
  where it called `isalive`.
* `SharedInv` says what holds between the two threads, the child and the
  terminal. `Reaper`: who has the child's status in hand is alone. `Solo`: the
  program reads only when the thread does not, and the thread does not come back.
  So what `select` saw is still there for the `read` (`AtRead`), and a child
  the program found running is there to be waited for again (`Alone`). `Ending`: how
  the thread ends and what it leaves in the queue. Gives `Reaped`, `EofIsTheEnd`
  and `DiesLate`, none of which is inductive alone.
* `FlowInv`, for `NothingLost`: the output is what was given, held, queued, in
  the thread's hands and unread, laid end to end. Every step is shown to be one
  of a few movements along this line (`Flows`): a read, a put, a get, a write, or
  one after which the end is seen (`Lost`; `OverStays` says that it remains so).
  That the strings of the queue laid end to end (`FlattenSeq`) grow at one end
  and shrink at the other is proved through their partial sums (`Laid`).
* `NothingOld`, for `FreshIsEnough`: without a window an expect has searched all
  it had before it reads on, so a pattern found now reaches into what is fresh.
* `OrderInv`, for `StreamImplemented`, the refinement of Stream with `over` mapped to
  `Over`: what was given and what is still due (`Due`: the queue counts only as
  long as the program listens to it) is part of the output, in order, also
  after the end was seen. Until then `FlowInv` says that nothing is missing, and
  a step that gives is `Give`; afterwards it is `GiveAfterEnd`.

### What is only model-checked

* `ZombiesAreReaped`, `WaitReturns`, `PipelineEnds`, `CallsReturn`,
  `ThreadStops`: liveness under fairness is out of the prover's reach.
* The properties of section 5: TLC shows them violated.

## 7. What is not modelled, and the plan

Not modelled, and why:

* the command grammar and its lexer: a pure function, whose results enter as the
  inputs of JobControl and Pipeline; the parser proper is generated;
* the syntax tree's memory and the lifetime of a parsed line: the models have no
  heap. The loop of `main` that stands on a freed element (cush.c:498) is a
  hazard without a property for that reason;
* list.c: the Pintos list, unchanged and sequential; the models use sequences;
* history, prompt, printing: output. The ignored result of the expansion
  (cush.c:474) decides only which line is read, and the model reads any line;
* the inside of spawni.c: an adapted copy of the C library's code. Its results
  are `SpawnOk` and `SpawnFail`;
* sending (`send`, `sendline`, control characters), `interact`, `run`, echo and
  window size of spawn: they write to the terminal or wrap the modelled calls;
* fdpexpect and pxssh: nothing in the repository uses them; the second depends
  on an ssh server's wording and on measured times;
* the methods of screen.py nothing calls, and FSM's example calculator;
* the rest of proc_check.py: single reads of `/proc`;
* the tests: sequential scripts over what is modelled; setup.py.

What is left of the plan:

1. Spawn, the vfork protocol of spawni.c (masks, `setpgid`, `tcsetpgrp`, file
   actions, exec or failure, the parent's `waitpid`), refining an abstract step
   that yields a child in its group or fails.
2. ShellGrammar: the actions of the grammar against a reference definition over
   short token sequences.

## 8. Running it

    tlc -config MCForegroundCheck_jobs.cfg MCForegroundCheck.tla
    tlc -config JobControl_live.cfg MCJobControl.tla
    tlc -config Pipeline_pipes.cfg Pipeline.tla
    tlc -config ANSI_terminal.cfg ANSI.tla
    tlc -config MCExpect_expect.cfg MCExpect.tla
    tlapm JobControl_proofs.tla
    tlapm Pipeline_proofs.tla
    tlapm ANSI_proofs.tla
    tlapm ANSI_refinement.tla
    tlapm JobControl_ownership.tla
    tlapm ForegroundCheck_proofs.tla
    tlapm Expect_proofs.tla
    tlapm Expect_refinement.tla
