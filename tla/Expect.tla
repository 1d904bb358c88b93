------------------------------- MODULE Expect -------------------------------
(***************************************************************************)
(* class spawn of src/pexpect-dpty/pexpect.py: the test driver's end of    *)
(* the terminal its shell runs on.  Two threads share the object without a *)
(* lock: the program (Main), which calls expect, isalive, wait, terminate  *)
(* and close, and the thread that expect starts (Drain), which reads the   *)
(* terminal all the time and leaves what it read in a queue.  A step ends  *)
(* where the other thread can get in between: at a system call, at a use   *)
(* of the queue and at an assignment to an attribute both use.             *)
(*                                                                         *)
(* The child is external: it writes, closes its terminal and exits as it   *)
(* pleases.  It ignores SIGHUP, as _spawn arranges.  Another process may   *)
(* keep the terminal open after the child exits, but writes nothing to it. *)
(***************************************************************************)
EXTENDS Search, SequencesExt

CONSTANTS
  Output,       (* what the child writes, as far as it gets                *)
  maxread,      (* attribute maxread: how many one read returns at most    *)
  MaxCalls,     (* bound: the calls of the program                         *)
  Searches,     (* the searches it makes: [exact, patterns, window]        *)
  DrainModes    (* the values it passes as drainpty                        *)

Alphabet == {Output[k] : k \in DOMAIN Output}

ASSUME ExpectAssumption ==
  /\ MaxCalls \in Nat /\ maxread \in Nat \ {0}
  /\ Output \in Seq(Alphabet)
  /\ DrainModes \subseteq BOOLEAN
  /\ \A s \in Searches : /\ s.exact \in BOOLEAN /\ s.window \in Nat \cup {NoWindow}
                         /\ s.patterns \in Seq(Seq(STRING))

VARIABLES
  child,        (* "running", "zombie", or "reaped" by a waitpid           *)
  slave,        (* some process has the child's end of the terminal open   *)
  doomed,       (* SIGKILL is on its way to the child                      *)
  pty,          (* written and not read                                    *)
  written,      (* all the child wrote                                     *)
  fdOpen,       (* our end of the terminal is open                         *)
  closed, terminated, flag_eof, drainpty,   (* attributes of the spawn     *)
  keepReading, readQueue,                   (* attributes of the thread    *)
  chunk,        (* what the thread has read and not put in the queue       *)
  buffer,       (* attribute buffer: read, and left for the next expect    *)
  incoming, freshlen, late,     (* locals of expect_loop; time is up       *)
  sigs,         (* the signals terminate has still to send                 *)
  call,         (* the call in progress                                    *)
  calls,        (* how many there were                                     *)
  result,       (* what the last one came to                               *)
  given,        (* all that expect handed out as before and after          *)
  pc,           (* where each thread is                                    *)
  ret           (* inside isalive: what it was called for                  *)

kernel == <<child, slave, doomed, pty, written, fdOpen>>
flags == <<closed, terminated, flag_eof, drainpty>>
thread == <<keepReading, readQueue, chunk>>
loop == <<buffer, incoming, freshlen, late, given>>
user == <<loop, sigs, call, calls, result>>
control == <<pc, ret>>
vars == <<kernel, flags, thread, user, control>>

Main == "main"
Drain == "drain"
Threads == {Main, Drain}

NoSearch == [exact |-> TRUE, patterns |-> <<>>, window |-> NoWindow]
CallOf(op, force) ==
  [op |-> op, search |-> NoSearch, timed |-> FALSE, force |-> force]
NoCall == CallOf("none", FALSE)
Calls ==
  [op : {"expect"}, search : Searches, timed : BOOLEAN, force : {FALSE}]
    \cup [op : {"none", "isalive", "wait", "terminate", "close"},
          search : {NoSearch}, timed : {FALSE}, force : BOOLEAN]

(* None ends the queue; every string read is longer.                       *)
None == <<>>

(* thread_started is set by the first statement of run().                  *)
thread_started == pc[Drain] \notin {"unborn", "boot"}

ReadableAlways == TRUE           (* variant: what select returns is ignored *)

(* select reports a hangup, too.                                           *)
Readable == pty # <<>> \/ ~slave

DrainIsTimed(t) == t = Drain     (* variant: the timeout is not passed on  *)

timed(t) == t = Drain \/ call.timed

TypeOK ==
  /\ child \in {"running", "zombie", "reaped"}
  /\ slave \in BOOLEAN /\ doomed \in BOOLEAN /\ fdOpen \in BOOLEAN
  /\ written \in Seq(Alphabet) /\ pty \in Seq(Alphabet)
  /\ closed \in BOOLEAN /\ terminated \in BOOLEAN
  /\ flag_eof \in BOOLEAN /\ drainpty \in BOOLEAN /\ keepReading \in BOOLEAN
  /\ readQueue \in Seq(Seq(Alphabet)) /\ chunk \in Seq(Alphabet)
  /\ buffer \in Seq(Alphabet) /\ incoming \in Seq(Alphabet)
  /\ given \in Seq(Alphabet)
  /\ freshlen \in Nat /\ late \in BOOLEAN
  /\ sigs \in Seq({"HUP", "CONT", "INT", "KILL"})
  /\ call \in Calls /\ calls \in 0 .. MaxCalls
  /\ result \in {"none", "match", "EOF", "TIMEOUT", "error", "done", "True", "False"}
  /\ pc[Main] \in {"idle", "search", "get", "rnb", "poll", "select", "read",
                   "alive", "again", "reap", "reaped", "waitpid", "stop",
                   "osclose", "signal", "shut"}
  /\ pc[Drain] \in {"unborn", "boot", "loop", "rnb", "poll", "select", "read",
                    "put", "alive", "again", "reap", "reaped", "eof", "end",
                    "done", "crashed"}
  /\ ret[Main] \in {"none", "pre", "post", "user", "wait", "close", "term",
                    "kill", "check", "last", "status"}
  /\ ret[Drain] \in {"none", "pre", "post"}

Init ==
  /\ child = "running" /\ slave = TRUE /\ doomed = FALSE /\ fdOpen = TRUE
  /\ written = <<>> /\ pty = <<>>
  /\ closed = FALSE /\ terminated = FALSE /\ flag_eof = FALSE
  /\ drainpty \in DrainModes
  /\ keepReading = TRUE /\ readQueue = <<>> /\ chunk = <<>>
  /\ buffer = <<>> /\ incoming = <<>> /\ freshlen = 0 /\ late = FALSE
  /\ given = <<>>
  /\ sigs = <<>> /\ call = NoCall /\ calls = 0 /\ result = "none"
  /\ pc = [t \in Threads |-> IF t = Main THEN "idle" ELSE "unborn"]
  /\ ret = [t \in Threads |-> "none"]

-----------------------------------------------------------------------------
(* How a thread goes on.  Each of these sets pc, ret and the user's state. *)

Goto(t, label) ==
  /\ pc' = [pc EXCEPT ![t] = label]
  /\ ret' = [ret EXCEPT ![t] = "none"]

(* self.isalive(), and what its caller was doing.                          *)
isalive(t, why) ==
  /\ pc' = [pc EXCEPT ![t] = "alive"]
  /\ ret' = [ret EXCEPT ![t] = why]

(* The program's call ends.                                                *)
Finish(r) ==
  /\ Goto(Main, "idle")
  /\ result' = r
  /\ incoming' = <<>> /\ freshlen' = 0 /\ late' = FALSE /\ sigs' = <<>>
  /\ call' = NoCall
  /\ UNCHANGED calls

CatchesEOF(exception) ==         (* variant: TIMEOUT is not caught *)
  IF exception = "EOF" THEN "eof" ELSE "crashed"

(* The exceptions the thread's run() catches.                              *)
Catch(exception) ==
  CASE exception = "EOF" -> "eof"
    [] exception = "TIMEOUT" -> "loop"
    [] exception = "error" -> "crashed"

(* An exception: the handlers of run() and of expect_loop.                 *)
Raise(t, exception) ==
  \/ /\ t = Drain
     /\ Goto(Drain, Catch(exception))
     /\ UNCHANGED user
  \/ /\ t = Main
     /\ Finish(exception)
     /\ \/ /\ exception = "error" \/ call.op # "expect"
           /\ UNCHANGED <<buffer, given>>
        \/ /\ exception = "EOF" /\ call.op = "expect"
           /\ buffer' = <<>> /\ given' = given \o incoming
        \/ /\ exception = "TIMEOUT" /\ call.op = "expect"
           /\ buffer' = incoming /\ UNCHANGED given

(* raise EOF in read_nonblocking.                                          *)
RaiseEOF(t) == flag_eof' = TRUE /\ Raise(t, "EOF")

TerminatedSomehow(dead) ==       (* variant: the value is not returned *)
  Finish("None") /\ UNCHANGED <<buffer, given>>

(* terminate() returns dead, to the program or to close().                 *)
Terminated(dead) ==
  IF call.op = "terminate"
  THEN Finish(IF dead THEN "True" ELSE "False") /\ UNCHANGED <<buffer, given>>
  ELSE IF dead THEN Goto(Main, "shut") /\ UNCHANGED user ELSE Raise(Main, "error")

(* isalive() returns alive to what called it.                              *)
Answer(t, alive) ==
  \/ /\ ret[t] = "pre"
     /\ Goto(t, IF alive THEN "select" ELSE "poll")
     /\ UNCHANGED <<flag_eof, user>>
  \/ /\ ret[t] = "post"
     /\ IF alive THEN Raise(t, "TIMEOUT") /\ UNCHANGED flag_eof ELSE RaiseEOF(t)
  \/ /\ ret[t] = "user"
     /\ Finish(IF alive THEN "True" ELSE "False")
     /\ UNCHANGED <<flag_eof, buffer, given>>
  \/ /\ ret[t] = "wait"
     /\ IF alive THEN Goto(t, "waitpid") /\ UNCHANGED user ELSE Raise(t, "error")
     /\ UNCHANGED flag_eof
  \/ /\ ret[t] = "close"
     /\ IF alive THEN isalive(t, "term") ELSE Goto(t, "shut")
     /\ UNCHANGED <<flag_eof, user>>
  \/ /\ ret[t] \in {"term", "check"}
     /\ IF alive /\ sigs # <<>> THEN isalive(t, "kill") /\ UNCHANGED user
        ELSE Terminated(~alive)
     /\ UNCHANGED flag_eof
  \/ /\ ret[t] = "kill"
     /\ IF alive THEN Goto(t, "signal") /\ UNCHANGED sigs
        ELSE isalive(t, "check") /\ sigs' = Tail(sigs)
     /\ UNCHANGED <<flag_eof, loop, call, calls, result>>
  \/ /\ ret[t] = "last"
     /\ Terminated(~alive)
     /\ UNCHANGED flag_eof
  \/ /\ ret[t] = "status"
     /\ Finish("done")
     /\ UNCHANGED <<flag_eof, buffer, given>>

-----------------------------------------------------------------------------
(* isalive().  The test of terminated and flag_eof and the first waitpid   *)
(* are one step: an earlier test would only read what a step before it     *)
(* left.                                                                   *)

(* waitpid finds no such child: the reaping thread left terminated to set. *)
ECHILD(t) ==
  /\ child = "reaped"
  /\ Raise(t, "error")
  /\ UNCHANGED <<kernel, flags, thread>>

(* waitpid returns the status of the child, which is gone from then on.    *)
Reap(t) ==
  /\ child = "zombie"
  /\ child' = "reaped"
  /\ UNCHANGED <<slave, doomed, pty, written, fdOpen, flags, thread, user>>

Alive(t) ==
  /\ pc[t] = "alive"
  /\ \/ /\ terminated
        /\ Answer(t, FALSE)
        /\ UNCHANGED <<kernel, closed, terminated, drainpty, thread>>
     \/ /\ ~terminated /\ flag_eof
        /\ pc' = [pc EXCEPT ![t] = "reap"]
        /\ UNCHANGED <<kernel, flags, thread, user, ret>>
     \/ /\ ~terminated /\ ~flag_eof
        /\ \/ /\ child = "running"
              /\ pc' = [pc EXCEPT ![t] = "again"]
              /\ UNCHANGED <<kernel, flags, thread, user, ret>>
           \/ Reap(t) /\ pc' = [pc EXCEPT ![t] = "reaped"] /\ UNCHANGED ret
           \/ ECHILD(t)

(* The second waitpid with WNOHANG.                                        *)
AliveAgain(t) ==
  /\ pc[t] = "again"
  /\ \/ /\ child = "running"
        /\ Answer(t, TRUE)
        /\ UNCHANGED <<kernel, closed, terminated, drainpty, thread>>
     \/ Reap(t) /\ pc' = [pc EXCEPT ![t] = "reaped"] /\ UNCHANGED ret
     \/ ECHILD(t)

(* The waitpid that blocks: after flag_eof, and in wait().                 *)
WaitForChild(t) ==
  /\ pc[t] \in {"reap", "waitpid"}
  /\ \/ /\ Reap(t)
        /\ pc' = [pc EXCEPT ![t] = "reaped"]
        /\ ret' = [ret EXCEPT ![t] = IF pc[t] = "waitpid" THEN "status" ELSE @]
     \/ ECHILD(t)

StatusForgotten(t) ==            (* variant: terminated is not set *)
  /\ pc[t] = "reaped"
  /\ Answer(t, FALSE)
  /\ UNCHANGED <<kernel, closed, terminated, drainpty, thread>>

(* The status is stored: only now does the other thread see the child dead. *)
StoreStatus(t) ==
  /\ pc[t] = "reaped"
  /\ terminated' = TRUE
  /\ Answer(t, FALSE)
  /\ UNCHANGED <<kernel, closed, drainpty, thread>>

-----------------------------------------------------------------------------
(* read_nonblocking().                                                     *)

ReadNonblocking(t) ==
  /\ pc[t] = "rnb"
  /\ IF closed THEN Raise(t, "error") ELSE isalive(t, "pre") /\ UNCHANGED user
  /\ UNCHANGED <<kernel, flags, thread>>

(* The child is dead: is there something left to read?                     *)
Poll(t) ==
  /\ pc[t] = "poll"
  /\ \/ ~fdOpen /\ Raise(t, "error") /\ UNCHANGED flag_eof
     \/ fdOpen /\ Readable /\ Goto(t, "select") /\ UNCHANGED <<flag_eof, user>>
     \/ fdOpen /\ ~Readable /\ RaiseEOF(t)
  /\ UNCHANGED <<kernel, closed, terminated, drainpty, thread>>

(* A descriptor closed before the call is an error; if it is closed during *)
(* the call, the call goes on until its timeout.                           *)
Select(t) ==
  /\ pc[t] = "select"
  /\ \/ fdOpen /\ Readable /\ Goto(t, "read") /\ UNCHANGED user
     \/ ~fdOpen /\ Raise(t, "error")
     \/ timed(t) /\ ~(fdOpen /\ Readable) /\ isalive(t, "post") /\ UNCHANGED user
  /\ UNCHANGED <<kernel, flags, thread>>

(* os.read().  OSError, be it the hangup or a closed descriptor, is EOF.   *)
(* A close() that has come to its end since the select has set child_fd to *)
(* -1: before the test that child_fd is in r this is an unexpected state,  *)
(* after it an OSError.                                                    *)
Read(t) ==
  /\ pc[t] = "read"
  /\ IF fdOpen /\ pty # <<>>
     THEN LET n == Min({maxread, Len(pty)})
              s == SubSeq(pty, 1, n)
          IN /\ pty' = SubSeq(pty, n + 1, Len(pty))
             /\ IF t = Drain
                THEN chunk' = s /\ Goto(t, "put") /\ UNCHANGED loop
                ELSE /\ incoming' = incoming \o s
                     /\ freshlen' = n
                     /\ late' \in {FALSE, call.timed}
                     /\ Goto(t, "search")
                     /\ UNCHANGED <<chunk, buffer, given>>
             /\ UNCHANGED <<child, slave, doomed, written, fdOpen, flag_eof,
                            sigs, call, calls, result>>
     ELSE /\ \/ RaiseEOF(t)
             \/ closed /\ Raise(t, "error") /\ UNCHANGED flag_eof
          /\ UNCHANGED <<kernel, chunk>>
  /\ UNCHANGED <<closed, terminated, drainpty, keepReading, readQueue>>

-----------------------------------------------------------------------------
(* Drainpty_Thread.run().                                                  *)

ThreadStarts ==
  /\ pc[Drain] = "boot"
  /\ Goto(Drain, "loop")
  /\ UNCHANGED <<kernel, flags, thread, user>>

ThreadLoopsOn ==                 (* variant: keepReading is not looked at *)
  /\ pc[Drain] = "loop"
  /\ Goto(Drain, "rnb")
  /\ UNCHANGED <<kernel, flags, thread, user>>

ThreadLoops ==
  /\ pc[Drain] = "loop"
  /\ Goto(Drain, IF keepReading THEN "rnb" ELSE "end")
  /\ UNCHANGED <<kernel, flags, thread, user>>

ThreadPutsFirst ==               (* variant: a stack, not a queue *)
  /\ pc[Drain] = "put"
  /\ readQueue' = <<chunk>> \o readQueue
  /\ chunk' = <<>>
  /\ Goto(Drain, "loop")
  /\ UNCHANGED <<kernel, flags, keepReading, user>>

ThreadPuts ==
  /\ pc[Drain] = "put"
  /\ readQueue' = Append(readQueue, chunk)
  /\ chunk' = <<>>
  /\ Goto(Drain, "loop")
  /\ UNCHANGED <<kernel, flags, keepReading, user>>

ThreadSeesEOF ==
  /\ pc[Drain] = "eof"
  /\ keepReading' = FALSE
  /\ readQueue' = Append(readQueue, None)
  /\ Goto(Drain, "loop")
  /\ UNCHANGED <<kernel, flags, chunk, user>>

ThreadEnds ==
  /\ pc[Drain] = "end"
  /\ drainpty' = FALSE
  /\ Goto(Drain, "done")
  /\ UNCHANGED <<kernel, closed, terminated, flag_eof, thread, user>>

-----------------------------------------------------------------------------
(* The calls of the program.                                               *)

Begin(c) ==
  /\ pc[Main] = "idle"
  /\ calls < MaxCalls
  /\ call' = c /\ calls' = calls + 1 /\ result' = "none"

(* expect, expect_exact: the thread is started, unless one has been; start *)
(* raises RuntimeError if it has been but has not come to say so.          *)
Expect ==
  \E s \in Searches, t \in BOOLEAN :
    /\ pc[Main] = "idle"
    /\ calls < MaxCalls
    /\ calls' = calls + 1
    /\ IF drainpty /\ pc[Drain] = "boot"
       THEN result' = "error" /\ UNCHANGED <<call, incoming, freshlen, control>>
       ELSE /\ call' = [op |-> "expect", search |-> s, timed |-> t, force |-> FALSE]
            /\ result' = "none"
            /\ incoming' = buffer /\ freshlen' = Len(buffer)
            /\ pc' = [pc EXCEPT ![Main] = "search",
                                ![Drain] = IF drainpty /\ @ = "unborn" THEN "boot"
                                           ELSE @]
            /\ UNCHANGED ret
    /\ UNCHANGED <<kernel, flags, thread, buffer, late, given, sigs>>

Signals(force) ==
  <<"HUP", "CONT", "INT">> \o (IF force THEN <<"KILL">> ELSE <<>>)

Terminate ==
  \E f \in BOOLEAN :
    /\ Begin(CallOf("terminate", f))
    /\ sigs' = Signals(f)
    /\ isalive(Main, "term")
    /\ UNCHANGED <<kernel, flags, thread, loop>>

IsAlive ==
  /\ Begin(CallOf("isalive", FALSE))
  /\ isalive(Main, "user")
  /\ UNCHANGED <<kernel, flags, thread, loop, sigs>>

Wait ==
  /\ Begin(CallOf("wait", FALSE))
  /\ isalive(Main, "wait")
  /\ UNCHANGED <<kernel, flags, thread, loop, sigs>>

(* close: a second one does nothing, unless the first one failed.          *)
Close ==
  \E f \in BOOLEAN :
    /\ ~closed
    /\ Begin(CallOf("close", f))
    /\ sigs' = Signals(f)
    /\ Goto(Main, "stop")
    /\ UNCHANGED <<kernel, flags, thread, loop>>

-----------------------------------------------------------------------------
(* The rest of expect_loop, terminate and close.                           *)

Match ==
  LET s == call.search
  IN IF s.exact THEN search_string(s.patterns, incoming, freshlen, s.window)
     ELSE search_re(s.patterns, incoming, s.window)

FromTheMatch == SubSeq(incoming, Match.start + 1, Len(incoming))  (* variant *)

(* What is left for the next expect.                                       *)
AfterTheMatch == SubSeq(incoming, Match.end + 1, Len(incoming))

SearchIncoming ==
  /\ pc[Main] = "search"
  /\ \/ /\ Match # NoMatch
        /\ given' = given \o SubSeq(incoming, 1, Match.end)
        /\ buffer' = AfterTheMatch
        /\ Finish("match")
     \/ Match = NoMatch /\ late /\ Raise(Main, "TIMEOUT")
     \/ /\ Match = NoMatch /\ ~late
        /\ Goto(Main, IF drainpty THEN "get" ELSE "rnb")
        /\ UNCHANGED user
  /\ UNCHANGED <<kernel, flags, thread>>

(* readQueue.get.  The None of the thread is passed over.                  *)
Get ==
  /\ pc[Main] = "get"
  /\ \/ /\ readQueue # <<>>
        /\ readQueue' = Tail(readQueue)
        /\ incoming' = incoming \o Head(readQueue)
        /\ freshlen' = IF Head(readQueue) = None THEN freshlen ELSE Len(Head(readQueue))
        /\ late' \in {FALSE, call.timed}
     \/ /\ readQueue = <<>> /\ call.timed
        /\ late' = TRUE
        /\ UNCHANGED <<readQueue, incoming, freshlen>>
  /\ Goto(Main, "search")
  /\ UNCHANGED <<kernel, flags, keepReading, chunk, buffer, given, sigs, call,
                 calls, result>>

(* os.kill; ESRCH, if the thread has reaped the child, is caught.          *)
Signal ==
  /\ pc[Main] = "signal"
  /\ \/ /\ child # "reaped"
        /\ doomed' = (doomed \/ (Head(sigs) = "KILL" /\ child = "running"))
        /\ sigs' = Tail(sigs)
        /\ isalive(Main, "check")
     \/ /\ child = "reaped"
        /\ isalive(Main, "last")
        /\ UNCHANGED <<doomed, sigs>>
  /\ UNCHANGED <<child, slave, pty, written, fdOpen, flags, thread, loop, call,
                 calls, result>>

Stop ==
  /\ pc[Main] = "stop"
  /\ keepReading' = (keepReading /\ ~drainpty)
  /\ Goto(Main, "osclose")
  /\ UNCHANGED <<kernel, flags, readQueue, chunk, user>>

(* os.close, which fails if an earlier close() came this far and no further. *)
CloseTerminal ==
  /\ pc[Main] = "osclose"
  /\ fdOpen' = FALSE
  /\ IF fdOpen THEN isalive(Main, "close") /\ UNCHANGED user ELSE Raise(Main, "error")
  /\ UNCHANGED <<child, slave, doomed, pty, written, flags, thread>>

Shut ==
  /\ pc[Main] = "shut"
  /\ closed' = TRUE
  /\ Finish("done")
  /\ UNCHANGED <<kernel, terminated, flag_eof, drainpty, thread, buffer, given>>

-----------------------------------------------------------------------------
(* The child.                                                              *)

Write ==
  /\ child = "running" /\ ~doomed /\ slave /\ fdOpen
  /\ Len(written) < Len(Output)
  /\ LET c == Output[Len(written) + 1]
     IN written' = Append(written, c) /\ pty' = Append(pty, c)
  /\ UNCHANGED <<child, slave, doomed, fdOpen, flags, thread, user, control>>

HangUp ==
  /\ slave
  /\ slave' = FALSE
  /\ UNCHANGED <<child, doomed, pty, written, fdOpen, flags, thread, user, control>>

Exit ==
  /\ child = "running"
  /\ child' = "zombie"
  /\ slave' \in {FALSE, slave}
  /\ doomed' = FALSE
  /\ UNCHANGED <<pty, written, fdOpen, flags, thread, user, control>>

-----------------------------------------------------------------------------
AliveSteps(t) == Alive(t) \/ AliveAgain(t) \/ WaitForChild(t) \/ StoreStatus(t)
ReadSteps(t) == ReadNonblocking(t) \/ Poll(t) \/ Select(t) \/ Read(t)

ThreadStep ==
  \/ AliveSteps(Drain) \/ ReadSteps(Drain)
  \/ ThreadStarts \/ ThreadLoops \/ ThreadPuts \/ ThreadSeesEOF \/ ThreadEnds

MainStep ==
  \/ AliveSteps(Main) \/ ReadSteps(Main)
  \/ SearchIncoming \/ Get \/ Signal \/ Stop \/ CloseTerminal \/ Shut

Program == Expect \/ IsAlive \/ Wait \/ Terminate \/ Close
Child == Write \/ HangUp \/ Exit

Next == MainStep \/ ThreadStep \/ Program \/ Child

Spec == Init /\ [][Next]_vars

(* Both threads are scheduled, and SIGKILL does its work.  Nothing makes   *)
(* the program call or the child write or exit.                            *)
FairSpec ==
  /\ Spec
  /\ WF_vars(MainStep)
  /\ WF_vars(ThreadStep)
  /\ WF_vars(doomed /\ Exit)

-----------------------------------------------------------------------------
(* Nothing read is lost or handed out twice: until the end of the terminal *)
(* is seen, or closed under the reader, every character the child wrote is *)
(* in exactly one place, in order: with the program, in the expect that    *)
(* goes on or what the last one left over, in the queue, in the hands of   *)
(* the thread, or unread.                                                  *)
Over == flag_eof \/ ~fdOpen
Expecting == pc[Main] # "idle" /\ call.op = "expect"
Held == IF Expecting THEN incoming ELSE buffer
Conserved ==
  Over \/ given \o Held \o FlattenSeq(readQueue) \o chunk \o pty = written

(* freshlen only saves time: searching nothing but the fresh characters,   *)
(* searcher_string finds what searcher_re finds in all that was read.      *)
SearchersAgree ==
  pc[Main] = "search" /\ call.search.window = NoWindow =>
    search_string(call.search.patterns, incoming, freshlen, NoWindow) =
      search_re(call.search.patterns, incoming, NoWindow)

(* The two threads reap the child once, and one of the two stores what     *)
(* waitpid said: terminated is never set for a child that may still have   *)
(* to be waited for, and if it is not set someone is about to.             *)
ReapedOnce ==
  /\ terminated => child = "reaped"
  /\ child = "reaped" /\ ~terminated =>
       \E t \in Threads : pc[t] = "reaped" /\ \A u \in Threads \ {t} : pc[u] # "reaped"

(* flag_eof is no guess: it is set only once the terminal is at its end,   *)
(* or closed by the program itself, or the child is dead.                  *)
EofJustified == flag_eof => child # "running" \/ ~slave \/ ~fdOpen

(* The thread does not die of an exception unless the program has closed   *)
(* the terminal under it or reaped the child before it.                    *)
ThreadDiesLate == pc[Drain] = "crashed" => ~fdOpen \/ child = "reaped"

(* What the program is given is a Stream, up to the end.                   *)
S == INSTANCE Stream WITH over <- Over
InOrder == S!Spec

(* A call that has a limit in time returns, whatever the child and the     *)
(* other thread do.  The exception is a waitpid for a child that lives.    *)
Waiting(t) == pc[t] \in {"reap", "waitpid"} /\ child = "running"
CallsReturn ==
  pc[Main] # "idle" /\ (call.op = "expect" => call.timed) ~>
    pc[Main] = "idle" \/ Waiting(Main)

(* Once told to stop, or out of output, the thread ends.                   *)
ThreadStops ==
  ~keepReading /\ pc[Drain] # "unborn" ~>
    pc[Drain] \in {"done", "crashed"} \/ Waiting(Drain)

(* Documentation of expect (pexpect.py:1320) and of run (149): whoever      *)
(* expects EOF has all the output of the child.                            *)
EofMeansAll == result = "EOF" => given = written
=============================================================================
