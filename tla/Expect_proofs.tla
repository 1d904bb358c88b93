---------------------------- MODULE Expect_proofs ----------------------------
(***************************************************************************)
(* Theorems about class spawn (module Expect): for any output of the child *)
(* and any searches and calls, and for every interleaving of the program,  *)
(* the draining thread and the child.                                      *)
(***************************************************************************)
EXTENDS Expect, SequenceTheorems, FiniteSetTheorems, TLAPS

-----------------------------------------------------------------------------
(* Numbers.                                                                *)

(* Induction, as a statement about a set.                                  *)
LEMMA NatSet ==
  ASSUME NEW T \in SUBSET Nat, 0 \in T, \A n \in T : n + 1 \in T
  PROVE  T = Nat
<1> SUFFICES ASSUME NEW n \in Nat, n \notin T PROVE FALSE
  OBVIOUS
<1> DEFINE U == T \cap (0 .. n)
           f == [x \in U |-> x + 1]
<1>1. IsFiniteSet(U)
  <2>1. IsFiniteSet(0 .. n) /\ U \subseteq 0 .. n
    BY FS_Interval
  <2> QED
    BY <2>1, FS_Subset
<1>2. f \in Injection(U, U)
  <2>1. \A x \in U : x + 1 \in U
    OBVIOUS
  <2> QED
    BY <2>1 DEF Injection, IsInjective
<1>3. f \in Surjection(U, U)
  BY <1>1, <1>2, FS_Injection
<1>4. 0 \in U
  OBVIOUS
<1>5. PICK x \in U : f[x] = 0
  BY <1>3, <1>4 DEF Surjection
<1> QED
  BY <1>5

(* Min of a set of naturals is its least element.                          *)
LEMMA NatMin ==
  ASSUME NEW T, T \subseteq Nat, T # {}
  PROVE  Min(T) \in T /\ \A y \in T : Min(T) <= y
<1> DEFINE Below == {n \in Nat : \A y \in T : n <= y}
<1>1. \E x \in T : \A y \in T : x <= y
  <2> SUFFICES ASSUME \A x \in T : \E y \in T : y < x PROVE FALSE
    OBVIOUS
  <2>1. Below = Nat
    <3>1. 0 \in Below
      OBVIOUS
    <3>2. \A n \in Below : n + 1 \in Below
      OBVIOUS
    <3> QED
      BY <3>1, <3>2, NatSet
  <2>2. PICK x : x \in T
    OBVIOUS
  <2>3. x + 1 \in Below
    BY <2>1, <2>2
  <2> QED
    BY <2>2, <2>3
<1> QED
  BY <1>1 DEF Min

LEMMA MinOfTwo ==
  ASSUME NEW a \in Nat, NEW b \in Nat
  PROVE  Min({a, b}) = IF a <= b THEN a ELSE b
  BY NatMin

-----------------------------------------------------------------------------
(* What the searchers return (module Search).                              *)

(* Where pattern k of the list is found, when looked for from start[k] on. *)
Found(patterns, buf, start, k) ==
  Occurs(buf, patterns[k], start[k]) \ {Len(buf)}

LEMMA BestFound ==
  ASSUME NEW patterns \in Seq(Seq(STRING)), NEW buf, Len(buf) \in Nat, NEW start,
         \A k \in Strings(patterns) : start[k] \in Nat
  PROVE  \/ /\ Best(patterns, buf, start) = NoMatch
            /\ \A k \in Strings(patterns) : Found(patterns, buf, start, k) = {}
         \/ \E k \in Strings(patterns) : \E n \in Found(patterns, buf, start, k) :
              /\ k > 0
              /\ Best(patterns, buf, start) =
                   [index |-> k, start |-> n, end |-> n + Len(patterns[k])]
<1> DEFINE found(k) == Occurs(buf, patterns[k], start[k]) \ {Len(buf)}
           all == UNION {found(k) : k \in Strings(patterns)}
           n == Min(all)
           those == {i \in Strings(patterns) : n \in found(i)}
<1>1. \A k \in Strings(patterns) : k \in Nat /\ k > 0 /\ found(k) \subseteq Nat
  <2>1. \A k \in Strings(patterns) : Len(patterns[k]) \in Nat /\ k \in 1 .. Len(patterns)
    BY DEF Strings
  <2> QED
    BY <2>1 DEF Occurs
<1>2. CASE all = {}
  BY <1>2 DEF Best, Found
<1>3. CASE all # {}
  <2>1. all \subseteq Nat
    BY <1>1
  <2>2. n \in all
    <3> HIDE DEF all
    <3> QED
      BY <1>3, <2>1, NatMin
  <2>3. those # {} /\ those \subseteq Nat
    BY <1>1, <2>2
  <2>4. Min(those) \in those
    <3> HIDE DEF those
    <3> QED
      BY <2>3, NatMin
  <2>5. Best(patterns, buf, start) =
          [index |-> Min(those), start |-> n, end |-> n + Len(patterns[Min(those)])]
    BY <1>3 DEF Best
  <2> QED
    BY <1>1, <2>4, <2>5 DEF Found
<1> QED
  BY <1>2, <1>3

(* Two searches that find each pattern in the same places agree.           *)
LEMMA BestAgree ==
  ASSUME NEW patterns, NEW buf, NEW s1, NEW s2,
         \A k \in Strings(patterns) :
           Found(patterns, buf, s1, k) = Found(patterns, buf, s2, k)
  PROVE  Best(patterns, buf, s1) = Best(patterns, buf, s2)
<1> DEFINE found1(k) == Occurs(buf, patterns[k], s1[k]) \ {Len(buf)}
           found2(k) == Occurs(buf, patterns[k], s2[k]) \ {Len(buf)}
<1>1. \A k \in Strings(patterns) : found1(k) = found2(k)
  BY DEF Found
<1>2. {found1(k) : k \in Strings(patterns)} = {found2(k) : k \in Strings(patterns)}
  BY <1>1
<1>3. \A n : {i \in Strings(patterns) : n \in found1(i)}
               = {i \in Strings(patterns) : n \in found2(i)}
  BY <1>1
<1> QED
  BY <1>2, <1>3 DEF Best

(* A match lies within what was searched.                                  *)
LEMMA BestWithin ==
  ASSUME NEW patterns \in Seq(Seq(STRING)), NEW buf, Len(buf) \in Nat, NEW start,
         \A k \in Strings(patterns) : start[k] \in Nat,
         Best(patterns, buf, start) # NoMatch
  PROVE  Best(patterns, buf, start).end \in 0 .. Len(buf)
<1>1. PICK k \in Strings(patterns) : \E n \in Found(patterns, buf, start, k) :
        Best(patterns, buf, start) =
          [index |-> k, start |-> n, end |-> n + Len(patterns[k])]
  BY BestFound
<1>2. Len(patterns[k]) \in Nat /\ start[k] \in Nat
  BY DEF Strings
<1> QED
  BY <1>1, <1>2 DEF Found, Occurs

-----------------------------------------------------------------------------
(* Type correctness.  It needs to know where in each call the program can  *)
(* be, and what isalive was called for.                                    *)

InIsalive == {"alive", "again", "reap", "reaped"}

(* The program, by the call in progress.                                   *)
MainAt ==
  \/ call.op = "none" /\ pc[Main] = "idle" /\ ret[Main] = "none"
  \/ call.op = "expect" /\ \/ pc[Main] \in {"search", "get", "rnb", "poll", "select", "read"}
                           \/ pc[Main] \in InIsalive /\ ret[Main] \in {"pre", "post"}
  \/ call.op = "isalive" /\ pc[Main] \in InIsalive /\ ret[Main] = "user"
  \/ call.op = "wait" /\ \/ pc[Main] \in InIsalive /\ ret[Main] = "wait"
                         \/ pc[Main] = "waitpid"
                         \/ pc[Main] = "reaped" /\ ret[Main] = "status"
  \/ call.op \in {"terminate", "close"} /\
       \/ pc[Main] \in InIsalive /\ ret[Main] \in {"term", "kill", "check", "last"}
       \/ pc[Main] = "signal"
  \/ call.op = "close" /\ \/ pc[Main] \in {"stop", "osclose", "shut"}
                          \/ pc[Main] \in InIsalive /\ ret[Main] = "close"

(* The thread, which only reads.                                           *)
DrainAt ==
  \/ pc[Drain] \in {"unborn", "boot", "loop", "rnb", "poll", "select", "read",
                    "put", "eof", "end", "done", "crashed"}
  \/ pc[Drain] \in InIsalive /\ ret[Drain] \in {"pre", "post"}

(* Where the program is about to send a signal there is one.               *)
Armed == pc[Main] = "signal" \/ ret[Main] = "kill" => sigs # <<>>

Places ==
  /\ DOMAIN pc = Threads /\ DOMAIN ret = Threads
  /\ ret[Main] \in {"none", "pre", "post", "user", "wait", "close", "term",
                    "kill", "check", "last", "status"}
  /\ ret[Drain] \in {"none", "pre", "post"}
  /\ MainAt /\ DrainAt /\ Armed

KernelOK ==
  /\ child \in {"running", "zombie", "reaped"}
  /\ slave \in BOOLEAN /\ doomed \in BOOLEAN /\ fdOpen \in BOOLEAN
  /\ written \in Seq(Alphabet) /\ pty \in Seq(Alphabet)

FlagsOK ==
  /\ closed \in BOOLEAN /\ terminated \in BOOLEAN
  /\ flag_eof \in BOOLEAN /\ drainpty \in BOOLEAN

ThreadOK ==
  /\ keepReading \in BOOLEAN
  /\ readQueue \in Seq(Seq(Alphabet)) /\ chunk \in Seq(Alphabet)

Results == {"none", "match", "EOF", "TIMEOUT", "error", "done", "True", "False"}
Exceptions == {"EOF", "TIMEOUT", "error"}

UserOK ==
  /\ buffer \in Seq(Alphabet) /\ incoming \in Seq(Alphabet)
  /\ given \in Seq(Alphabet)
  /\ freshlen \in Nat /\ late \in BOOLEAN
  /\ sigs \in Seq({"HUP", "CONT", "INT", "KILL"})
  /\ call \in Calls /\ calls \in 0 .. MaxCalls
  /\ result \in Results

TypeInv == KernelOK /\ FlagsOK /\ ThreadOK /\ UserOK /\ Places

LEMMA TypeParts == TypeInv => TypeOK
  BY DEF TypeInv, TypeOK, KernelOK, FlagsOK, ThreadOK, UserOK, Places, MainAt,
         DrainAt, InIsalive, Results

LEMMA CallTypes ==
  ASSUME NEW c \in Calls
  PROVE  c.timed \in BOOLEAN /\ (c.op = "expect" => c.search \in Searches)
  BY DEF Calls

(* How a thread goes on.                                                   *)
LEMMA FinishType ==
  ASSUME TypeInv, NEW r \in Results, Finish(r),
         buffer' \in Seq(Alphabet), given' \in Seq(Alphabet)
  PROVE  /\ UserOK' /\ Places' /\ pc'[Main] = "idle"
         /\ pc'[Drain] = pc[Drain] /\ ret'[Drain] = ret[Drain]
         /\ call' = NoCall
<1>1. /\ DOMAIN pc' = Threads /\ DOMAIN ret' = Threads
      /\ pc'[Main] = "idle" /\ ret'[Main] = "none" /\ call' = NoCall
      /\ pc'[Drain] = pc[Drain] /\ ret'[Drain] = ret[Drain]
  BY DEF Finish, Goto, TypeInv, Places, Threads, Main, Drain
<1>2. UserOK'
  <2>1. NoCall \in Calls
    BY DEF Calls, NoCall, CallOf
  <2>2. <<>> \in Seq({"HUP", "CONT", "INT", "KILL"}) /\ <<>> \in Seq(Alphabet)
    OBVIOUS
  <2> QED
    BY <2>1, <2>2 DEF Finish, TypeInv, UserOK
<1>3. Places'
  BY <1>1 DEF Finish, TypeInv, Places, MainAt, DrainAt, Armed, NoCall, CallOf, InIsalive
<1> QED
  BY <1>1, <1>2, <1>3

LEMMA CatchOf ==
  \A e \in Exceptions : \/ e = "EOF" /\ Catch(e) = "eof"
                        \/ e = "TIMEOUT" /\ Catch(e) = "loop"
                        \/ e = "error" /\ Catch(e) = "crashed"
<1>1. Catch("EOF") = "eof" /\ Catch("TIMEOUT") = "loop" /\ Catch("error") = "crashed"
  BY DEF Catch
<1> QED
  BY <1>1, Zenon DEF Exceptions

LEMMA RaiseType ==
  ASSUME TypeInv, NEW t \in Threads, NEW e \in Exceptions, Raise(t, e)
  PROVE  /\ UserOK' /\ Places'
         /\ t = Main => pc'[Main] = "idle"
         /\ t = Drain => pc'[Drain] = Catch(e)
         /\ \A u \in Threads : u # t => pc'[u] = pc[u] /\ ret'[u] = ret[u]
         /\ call' = call \/ call' = NoCall
<1>1. CASE t = Drain
  <2>1. /\ UNCHANGED user /\ DOMAIN pc' = Threads /\ DOMAIN ret' = Threads
        /\ pc'[Drain] = Catch(e) /\ ret'[Drain] = "none"
        /\ pc'[Main] = pc[Main] /\ ret'[Main] = ret[Main]
    BY <1>1 DEF Raise, Goto, TypeInv, Places, Threads, Main, Drain
  <2>0. call' = call
    BY <2>1 DEF user
  <2>2. Catch(e) \in {"eof", "loop", "crashed"}
    BY DEF Catch, Exceptions
  <2>3. UserOK'
    BY <2>1 DEF user, loop, TypeInv, UserOK
  <2>4. Places'
    BY <2>1, <2>2 DEF user, loop, TypeInv, Places, MainAt, DrainAt, Armed, InIsalive
  <2> QED
    BY <1>1, <2>0, <2>1, <2>3, <2>4 DEF Threads, Main, Drain
<1>2. CASE t = Main
  <2>1. Finish(e) /\ e \in Results
    BY <1>2 DEF Raise, Main, Drain, Exceptions, Results
  <2>2. given \o incoming \in Seq(Alphabet) /\ <<>> \in Seq(Alphabet)
    BY DEF TypeInv, UserOK
  <2>3. buffer' \in Seq(Alphabet) /\ given' \in Seq(Alphabet)
    BY <1>2, <2>2 DEF Raise, Main, Drain, Exceptions, TypeInv, UserOK
  <2> QED
    BY <1>2, <2>1, <2>3, FinishType DEF Threads, Main, Drain
<1> QED
  BY <1>1, <1>2 DEF Threads

LEMMA TwoThreads == Main # Drain /\ Threads = {Main, Drain}
  BY DEF Main, Drain, Threads

(* A thread that goes on does not move the other.                          *)
LEMMA GotoDoes ==
  ASSUME DOMAIN pc = Threads, DOMAIN ret = Threads, NEW t \in Threads, NEW l,
         NEW r, pc' = [pc EXCEPT ![t] = l], ret' = [ret EXCEPT ![t] = r]
  PROVE  /\ DOMAIN pc' = Threads /\ DOMAIN ret' = Threads
         /\ pc'[t] = l /\ ret'[t] = r
         /\ \A u \in Threads : u # t => pc'[u] = pc[u] /\ ret'[u] = ret[u]
  OBVIOUS

(* One of the two moves.                                                   *)
LEMMA MainMoves ==
  ASSUME Places, DOMAIN pc' = Threads, DOMAIN ret' = Threads,
         pc'[Drain] = pc[Drain], ret'[Drain] = ret[Drain],
         ret'[Main] \in {"none", "pre", "post", "user", "wait", "close", "term",
                         "kill", "check", "last", "status"},
         MainAt', Armed'
  PROVE  Places'
  BY DEF Places, DrainAt, InIsalive

LEMMA DrainMoves ==
  ASSUME Places, DOMAIN pc' = Threads, DOMAIN ret' = Threads,
         pc'[Main] = pc[Main], ret'[Main] = ret[Main], UNCHANGED <<call, sigs>>,
         ret'[Drain] \in {"none", "pre", "post"}, DrainAt'
  PROVE  Places'
  BY DEF Places, MainAt, Armed, InIsalive

(* What an answer of isalive leads to.                                     *)
AnswerEffect(t, alive) ==
  /\ UserOK' /\ Places' /\ (call' = call \/ call' = NoCall)
  /\ flag_eof' \in BOOLEAN /\ (alive => flag_eof' = flag_eof)
  /\ flag_eof => flag_eof'
  /\ \A u \in Threads : u # t => pc'[u] = pc[u] /\ ret'[u] = ret[u]
  /\ pc'[t] \in {"idle", "poll", "select", "alive", "waitpid", "shut", "signal",
                 "loop", "eof"}
  /\ pc'[t] = "poll" => ~alive
  /\ pc'[t] \in {"poll", "select"} => ret[t] = "pre"
  /\ pc'[t] = "alive" => ret'[t] \notin {"pre", "post"}
  /\ pc'[t] = "eof" => flag_eof'

LEMMA AnswerType ==
  ASSUME TypeInv, NEW t \in Threads, NEW alive \in BOOLEAN,
         pc[t] \in InIsalive, Answer(t, alive)
  PROVE  AnswerEffect(t, alive)
<1> DEFINE Rest == \A u \in Threads : u # t => pc'[u] = pc[u] /\ ret'[u] = ret[u]
<1>1. /\ FlagsOK /\ UserOK /\ Places /\ MainAt /\ DrainAt /\ Armed
      /\ DOMAIN pc = Threads /\ DOMAIN ret = Threads
      /\ flag_eof \in BOOLEAN
  BY DEF TypeInv, Places, FlagsOK
<1>2. t = Drain => ret[t] \in {"pre", "post"}
  BY <1>1 DEF DrainAt, InIsalive
<1>3. t = Main =>
        /\ ret[t] \in {"pre", "post"} => call.op = "expect"
        /\ ret[t] = "wait" => call.op = "wait"
        /\ ret[t] = "close" => call.op = "close"
        /\ ret[t] \in {"term", "kill", "check", "last"} => call.op \in {"terminate", "close"}
  BY <1>1 DEF MainAt, InIsalive
<1>a. ASSUME NEW l, NEW r, UNCHANGED <<flag_eof, user>>,
             pc' = [pc EXCEPT ![t] = l], ret' = [ret EXCEPT ![t] = r],
             \/ ret[t] = "pre" /\ r = "none" /\ l = "select"
             \/ ret[t] = "pre" /\ r = "none" /\ l = "poll" /\ ~alive
             \/ ret[t] = "wait" /\ l = "waitpid" /\ r = "none"
             \/ call.op = "close" /\ l = "shut" /\ r = "none" /\ ret[t] \notin {"pre", "post"}
             \/ ret[t] = "close" /\ l = "alive" /\ r = "term"
             \/ ret[t] \in {"term", "check"} /\ l = "alive" /\ r = "kill" /\ sigs # <<>>
             \/ ret[t] = "kill" /\ l = "signal" /\ r = "none"
      PROVE  AnswerEffect(t, alive)
  <2>1. /\ DOMAIN pc' = Threads /\ DOMAIN ret' = Threads
        /\ pc'[t] = l /\ ret'[t] = r /\ Rest
    BY <1>1, <1>a, GotoDoes
  <2>2. UserOK'
    BY <1>1, <1>a DEF user, loop, UserOK
  <2>3. call' = call /\ sigs' = sigs
    BY <1>a DEF user, loop
  <2>4. Places'
    <3>1. CASE t = Main
      <4>1. MainAt'
        BY <1>1, <1>3, <1>a, <2>1, <2>3, <3>1 DEF MainAt, InIsalive
      <4>2. Armed'
        BY <1>1, <1>a, <2>1, <2>3, <3>1 DEF Armed
      <4>3. pc'[Drain] = pc[Drain] /\ ret'[Drain] = ret[Drain]
        BY <2>1, <3>1, TwoThreads
      <4>4. ret'[Main] \in {"none", "term", "kill"}
        BY <1>a, <2>1, <3>1
      <4> QED
        BY <1>1, <2>1, <4>1, <4>2, <4>3, <4>4, MainMoves
    <3>2. CASE t = Drain
      <4>1. DrainAt' /\ ret'[Drain] = "none"
        BY <1>2, <1>a, <2>1, <3>2 DEF DrainAt
      <4>2. pc'[Main] = pc[Main] /\ ret'[Main] = ret[Main]
        BY <2>1, <3>2, TwoThreads
      <4> QED
        BY <1>1, <2>1, <2>3, <4>1, <4>2, DrainMoves
    <3> QED
      BY <3>1, <3>2, TwoThreads
  <2>5. flag_eof' \in BOOLEAN /\ flag_eof' = flag_eof
    BY <1>1, <1>a
  <2>6. /\ pc'[t] \in {"poll", "select", "alive", "waitpid", "shut", "signal"}
        /\ pc'[t] = "poll" => ~alive
        /\ pc'[t] \in {"poll", "select"} => ret[t] = "pre"
        /\ pc'[t] = "alive" => ret'[t] \notin {"pre", "post"}
    BY <1>a, <2>1
  <2> QED
    BY <2>1, <2>2, <2>3, <2>4, <2>5, <2>6 DEF AnswerEffect
<1>b. ASSUME NEW r \in Results, Finish(r), UNCHANGED <<flag_eof, buffer, given>>, t = Main
      PROVE  AnswerEffect(t, alive)
  <2>1. buffer' \in Seq(Alphabet) /\ given' \in Seq(Alphabet)
    BY <1>1, <1>b DEF UserOK
  <2>2. /\ UserOK' /\ Places' /\ pc'[Main] = "idle"
        /\ pc'[Drain] = pc[Drain] /\ ret'[Drain] = ret[Drain]
        /\ call' = NoCall
    BY <1>b, <2>1, FinishType
  <2>3. flag_eof' = flag_eof /\ flag_eof' \in BOOLEAN
    BY <1>1, <1>b
  <2> QED
    BY <1>b, <2>2, <2>3, TwoThreads DEF AnswerEffect
<1>c. ASSUME NEW e \in Exceptions, Raise(t, e),
             flag_eof' \in BOOLEAN, alive => flag_eof' = flag_eof,
             flag_eof => flag_eof', t = Drain => e # "error", e = "EOF" => flag_eof'
      PROVE  AnswerEffect(t, alive)
  <2>1. /\ UserOK' /\ Places'
        /\ t = Main => pc'[Main] = "idle"
        /\ t = Drain => pc'[Drain] = Catch(e)
        /\ \A u \in Threads : u # t => pc'[u] = pc[u] /\ ret'[u] = ret[u]
        /\ call' = call \/ call' = NoCall
    BY <1>c, RaiseType
  <2>2. pc'[t] = "idle" \/ (pc'[t] = "eof" /\ e = "EOF") \/ pc'[t] = "loop"
    BY <1>c, <2>1, CatchOf, TwoThreads DEF Exceptions
  <2>3. pc'[t] = "eof" => flag_eof'
    BY <1>c, <2>2
  <2> QED
    BY <1>c, <2>1, <2>2, <2>3 DEF AnswerEffect
<1>d. ASSUME NEW dead \in BOOLEAN, Terminated(dead), UNCHANGED flag_eof,
             call.op \in {"terminate", "close"}, t = Main, ret[t] \notin {"pre", "post"}
      PROVE  AnswerEffect(t, alive)
  <2>1. CASE call.op = "terminate"
    BY <1>b, <1>d, <2>1 DEF Terminated, Results
  <2>2. CASE call.op = "close" /\ dead
    BY <1>a, <1>d, <2>2 DEF Terminated, Goto
  <2>3. CASE call.op = "close" /\ ~dead
    <3>1. Raise(t, "error")
      BY <1>d, <2>3 DEF Terminated
    <3> QED
      BY <1>1, <1>c, <1>d, <3>1, TwoThreads DEF Exceptions
  <2> QED
    BY <1>d, <2>1, <2>2, <2>3
<1>4. CASE ret[t] = "pre"
  <2>1. /\ Goto(t, IF alive THEN "select" ELSE "poll")
        /\ UNCHANGED <<flag_eof, user>>
    BY <1>4 DEF Answer
  <2>2. CASE alive
    <3>1. Goto(t, "select") /\ UNCHANGED <<flag_eof, user>>
      BY <2>1, <2>2, Zenon
    <3> QED
      BY <1>a, <1>4, <3>1 DEF Goto
  <2>3. CASE ~alive
    <3>1. Goto(t, "poll") /\ UNCHANGED <<flag_eof, user>>
      BY <2>1, <2>3, Zenon
    <3> QED
      BY <1>a, <1>4, <2>3, <3>1 DEF Goto
  <2> QED
    BY <2>2, <2>3
<1>5. CASE ret[t] = "post"
  <2>1. CASE alive
    <3>1. Raise(t, "TIMEOUT") /\ flag_eof' = flag_eof
      BY <1>5, <2>1 DEF Answer
    <3> QED
      BY <1>1, <1>c, <3>1 DEF Exceptions
  <2>2. CASE ~alive
    <3>1. Raise(t, "EOF") /\ flag_eof' = TRUE
      BY <1>5, <2>2 DEF Answer, RaiseEOF
    <3> QED
      BY <1>1, <1>c, <2>2, <3>1 DEF Exceptions
  <2> QED
    BY <2>1, <2>2
<1>6. CASE ret[t] = "user" \/ ret[t] = "status"
  BY <1>2, <1>b, <1>6, TwoThreads DEF Answer, Results
<1>7. CASE ret[t] = "wait"
  BY <1>1, <1>2, <1>a, <1>c, <1>7, TwoThreads DEF Answer, Goto, Exceptions
<1>8. CASE ret[t] = "close"
  <2>1. t = Main /\ call.op = "close"
    BY <1>2, <1>3, <1>8, TwoThreads
  <2>2. CASE alive
    BY <1>a, <1>8, <2>1, <2>2 DEF Answer, isalive
  <2>3. CASE ~alive
    BY <1>a, <1>8, <2>1, <2>3 DEF Answer, Goto
  <2> QED
    BY <2>2, <2>3
<1>9. CASE ret[t] \in {"term", "check"}
  <2>1. CASE alive /\ sigs # <<>>
    BY <1>a, <1>9, <2>1 DEF Answer, isalive
  <2>2. CASE ~(alive /\ sigs # <<>>)
    BY <1>2, <1>3, <1>d, <1>9, <2>2, TwoThreads DEF Answer
  <2> QED
    BY <2>1, <2>2
<1>10. CASE ret[t] = "kill"
  <2>1. CASE alive
    BY <1>a, <1>10, <2>1 DEF Answer, Goto, user
  <2>2. CASE ~alive
    <3>1. /\ pc' = [pc EXCEPT ![t] = "alive"] /\ ret' = [ret EXCEPT ![t] = "check"]
          /\ sigs' = Tail(sigs) /\ UNCHANGED <<flag_eof, loop, call, calls, result>>
      BY <1>10, <2>2 DEF Answer, isalive
    <3>2. /\ DOMAIN pc' = Threads /\ DOMAIN ret' = Threads
          /\ pc'[t] = "alive" /\ ret'[t] = "check" /\ Rest
      BY <1>1, <3>1, GotoDoes
    <3>3. t = Main /\ sigs # <<>>
      BY <1>1, <1>2, <1>10, TwoThreads DEF Armed
    <3>4. UserOK'
      BY <1>1, <3>1, <3>3 DEF UserOK, loop
    <3>5. Places'
      BY <1>1, <1>3, <1>10, <3>1, <3>2, <3>3, TwoThreads
      DEF Places, MainAt, DrainAt, Armed, InIsalive
    <3> QED
      BY <1>1, <2>2, <3>1, <3>2, <3>4, <3>5 DEF AnswerEffect, FlagsOK
  <2> QED
    BY <2>1, <2>2
<1>11. CASE ret[t] = "last"
  BY <1>2, <1>3, <1>d, <1>11, TwoThreads DEF Answer
<1> QED
  BY <1>4, <1>5, <1>6, <1>7, <1>8, <1>9, <1>10, <1>11 DEF Answer

-----------------------------------------------------------------------------
(* Inside isalive.                                                         *)

LEMMA InsideType ==
  ASSUME TypeInv, NEW t \in Threads, pc[t] \in InIsalive \ {"reaped"},
         NEW l \in InIsalive, pc' = [pc EXCEPT ![t] = l], UNCHANGED user,
         DOMAIN ret' = Threads, \A u \in Threads : ret'[u] = ret[u]
  PROVE  UserOK' /\ Places'
<1>1. Places /\ MainAt /\ DrainAt /\ Armed /\ DOMAIN pc = Threads
      /\ ret'[Main] = ret[Main] /\ ret'[Drain] = ret[Drain]
  BY TwoThreads DEF TypeInv, Places
<1>2. DOMAIN pc' = Threads /\ pc'[t] = l
  BY <1>1
<1>3. UserOK' /\ UNCHANGED <<call, sigs>>
  BY DEF TypeInv, UserOK, user, loop
<1>4. CASE t = Main
  <2>1. pc'[Drain] = pc[Drain]
    BY <1>1, <1>4, TwoThreads
  <2>2. MainAt'
    BY <1>1, <1>2, <1>3, <1>4 DEF MainAt, InIsalive
  <2>3. Armed'
    BY <1>1, <1>2, <1>3, <1>4 DEF Armed, InIsalive
  <2> QED
    BY <1>1, <1>2, <1>3, <2>1, <2>2, <2>3 DEF Places, DrainAt
<1>5. CASE t = Drain
  <2>1. pc'[Main] = pc[Main]
    BY <1>1, <1>5, TwoThreads
  <2>2. DrainAt'
    BY <1>1, <1>2, <1>5 DEF DrainAt, InIsalive
  <2> QED
    BY <1>1, <1>2, <1>3, <2>1, <2>2 DEF Places, MainAt, Armed
<1> QED
  BY <1>3, <1>4, <1>5, TwoThreads

LEMMA ReapType ==
  ASSUME TypeInv, NEW t \in Threads, Reap(t)
  PROVE  KernelOK' /\ FlagsOK' /\ ThreadOK' /\ UNCHANGED user
  BY DEF Reap, TypeInv, KernelOK, FlagsOK, ThreadOK, flags, thread

LEMMA ECHILDType ==
  ASSUME TypeInv, NEW t \in Threads, ECHILD(t)
  PROVE  TypeInv'
<1>1. UserOK' /\ Places'
  BY RaiseType DEF ECHILD, Exceptions
<1> QED
  BY <1>1 DEF ECHILD, TypeInv, KernelOK, FlagsOK, ThreadOK, kernel, flags, thread

LEMMA AliveType ==
  ASSUME TypeInv, NEW t \in Threads, AliveSteps(t)
  PROVE  TypeInv'
<1>1. DOMAIN pc = Threads /\ DOMAIN ret = Threads
  BY DEF TypeInv, Places
<1>2. CASE Alive(t)
  <2>1. CASE Answer(t, FALSE) /\ UNCHANGED <<kernel, closed, terminated, drainpty, thread>>
    <3>1. AnswerEffect(t, FALSE)
      BY <1>2, <2>1, AnswerType DEF Alive, InIsalive
    <3> QED
      BY <2>1, <3>1 DEF AnswerEffect, TypeInv, KernelOK, FlagsOK, ThreadOK, kernel, thread
  <2>2. CASE /\ pc' = [pc EXCEPT ![t] = "reap"] \/ pc' = [pc EXCEPT ![t] = "again"]
             /\ UNCHANGED <<kernel, flags, thread, user, ret>>
    <3>1. UserOK' /\ Places'
      BY <1>1, <1>2, <2>2, InsideType DEF Alive, InIsalive
    <3> QED
      BY <2>2, <3>1 DEF TypeInv, KernelOK, FlagsOK, ThreadOK, kernel, flags, thread
  <2>3. CASE Reap(t) /\ pc' = [pc EXCEPT ![t] = "reaped"] /\ UNCHANGED ret
    <3>1. KernelOK' /\ FlagsOK' /\ ThreadOK' /\ UNCHANGED user
      BY <2>3, ReapType
    <3>2. UserOK' /\ Places'
      BY <1>2, <2>3, <3>1, <1>1, InsideType DEF Alive, InIsalive
    <3> QED
      BY <3>1, <3>2 DEF TypeInv
  <2> QED
    BY <1>2, <2>1, <2>2, <2>3, ECHILDType DEF Alive
<1>3. CASE AliveAgain(t)
  <2>1. CASE Answer(t, TRUE) /\ UNCHANGED <<kernel, closed, terminated, drainpty, thread>>
    <3>1. AnswerEffect(t, TRUE)
      BY <1>3, <2>1, AnswerType DEF AliveAgain, InIsalive
    <3> QED
      BY <2>1, <3>1 DEF AnswerEffect, TypeInv, KernelOK, FlagsOK, ThreadOK, kernel, thread
  <2>2. CASE Reap(t) /\ pc' = [pc EXCEPT ![t] = "reaped"] /\ UNCHANGED ret
    <3>1. KernelOK' /\ FlagsOK' /\ ThreadOK' /\ UNCHANGED user
      BY <2>2, ReapType
    <3>2. UserOK' /\ Places'
      BY <1>3, <2>2, <3>1, <1>1, InsideType DEF AliveAgain, InIsalive
    <3> QED
      BY <3>1, <3>2 DEF TypeInv
  <2> QED
    BY <1>3, <2>1, <2>2, ECHILDType DEF AliveAgain
<1>4. CASE WaitForChild(t)
  <2>1. CASE ECHILD(t)
    BY <2>1, ECHILDType
  <2>2. CASE ~ECHILD(t) /\ pc[t] = "reap"
    <3>1. /\ Reap(t) /\ pc' = [pc EXCEPT ![t] = "reaped"]
          /\ ret' = [ret EXCEPT ![t] = IF pc[t] = "waitpid" THEN "status" ELSE @]
      BY <1>4, <2>2 DEF WaitForChild
    <3>2. DOMAIN ret' = Threads /\ \A u \in Threads : ret'[u] = ret[u]
      BY <1>1, <2>2, <3>1
    <3>3. KernelOK' /\ FlagsOK' /\ ThreadOK' /\ UNCHANGED user
      BY <3>1, ReapType
    <3>4. UserOK' /\ Places'
      BY <2>2, <3>1, <3>2, <3>3, InsideType DEF InIsalive
    <3> QED
      BY <3>3, <3>4 DEF TypeInv
  <2>3. CASE ~ECHILD(t) /\ pc[t] = "waitpid"
    <3>1. /\ Reap(t) /\ pc' = [pc EXCEPT ![t] = "reaped"]
          /\ ret' = [ret EXCEPT ![t] = "status"]
      BY <1>4, <2>3 DEF WaitForChild
    <3>2. KernelOK' /\ FlagsOK' /\ ThreadOK' /\ UNCHANGED user
      BY <3>1, ReapType
    <3>3. t = Main
      BY <2>3, TwoThreads DEF TypeInv, Places, DrainAt, InIsalive
    <3>4. /\ DOMAIN pc' = Threads /\ DOMAIN ret' = Threads
          /\ pc'[Main] = "reaped" /\ ret'[Main] = "status"
          /\ pc'[Drain] = pc[Drain] /\ ret'[Drain] = ret[Drain]
      BY <1>1, <3>1, <3>3, TwoThreads
    <3>5. UserOK' /\ call' = call /\ sigs' = sigs
      BY <3>2 DEF TypeInv, UserOK, user, loop
    <3>6. MainAt' /\ Armed'
      BY <2>3, <3>3, <3>4, <3>5 DEF TypeInv, Places, MainAt, Armed, InIsalive
    <3>7. Places'
      BY <3>4, <3>6, MainMoves DEF TypeInv
    <3> QED
      BY <3>2, <3>5, <3>7 DEF TypeInv
  <2> QED
    BY <1>4, <2>1, <2>2, <2>3 DEF WaitForChild
<1>5. CASE StoreStatus(t)
  <2>1. AnswerEffect(t, FALSE)
    BY <1>5, AnswerType DEF StoreStatus, InIsalive
  <2> QED
    BY <1>5, <2>1 DEF StoreStatus, AnswerEffect, TypeInv, KernelOK, FlagsOK, ThreadOK,
                      kernel, thread
<1> QED
  BY <1>2, <1>3, <1>4, <1>5 DEF AliveSteps

-----------------------------------------------------------------------------
(* Reading.                                                                *)

LEMMA SubSeqType ==
  ASSUME NEW T, NEW s \in Seq(T), NEW m \in Nat \ {0}, NEW n \in Nat, n <= Len(s)
  PROVE  /\ SubSeq(s, m, n) \in Seq(T)
         /\ Len(SubSeq(s, m, n)) = IF m <= n THEN n - m + 1 ELSE 0
<1>1. \A i \in m .. n : s[i] \in T
  OBVIOUS
<1> QED
  BY <1>1, SubSeqProperties

LEMMA ReadingType ==
  ASSUME TypeInv, NEW t \in Threads, pc[t] \in {"rnb", "poll", "select"},
         UNCHANGED user, NEW l, NEW r,
         pc' = [pc EXCEPT ![t] = l], ret' = [ret EXCEPT ![t] = r],
         \/ l \in {"select", "read"} /\ r = "none"
         \/ l = "alive" /\ r \in {"pre", "post"}
  PROVE  UserOK' /\ Places'
<1>1. Places /\ MainAt /\ DrainAt /\ Armed /\ DOMAIN pc = Threads /\ DOMAIN ret = Threads
  BY DEF TypeInv, Places
<1>2. /\ DOMAIN pc' = Threads /\ DOMAIN ret' = Threads
      /\ pc'[t] = l /\ ret'[t] = r
      /\ \A u \in Threads : u # t => pc'[u] = pc[u] /\ ret'[u] = ret[u]
  BY <1>1, GotoDoes
<1>3. UserOK' /\ call' = call /\ sigs' = sigs
  BY DEF TypeInv, UserOK, user, loop
<1>4. CASE t = Main
  <2>1. MainAt' /\ Armed'
    BY <1>1, <1>2, <1>3, <1>4 DEF MainAt, Armed, InIsalive
  <2> QED
    BY <1>1, <1>2, <1>3, <1>4, <2>1, TwoThreads, MainMoves
<1>5. CASE t = Drain
  <2>1. DrainAt' /\ ret'[Drain] \in {"none", "pre", "post"}
    BY <1>2, <1>5 DEF DrainAt, InIsalive
  <2> QED
    BY <1>1, <1>2, <1>3, <1>5, <2>1, TwoThreads, DrainMoves
<1> QED
  BY <1>4, <1>5, TwoThreads

(* What one read takes off the terminal.                                   *)
LEMMA OneRead ==
  ASSUME TypeInv, pty # <<>>
  PROVE  LET n == Min({maxread, Len(pty)})
         IN /\ n \in 1 .. Len(pty)
            /\ SubSeq(pty, 1, n) \in Seq(Alphabet)
            /\ SubSeq(pty, 1, n) # <<>> /\ Len(SubSeq(pty, 1, n)) = n
            /\ SubSeq(pty, n + 1, Len(pty)) \in Seq(Alphabet)
            /\ SubSeq(pty, 1, n) \o SubSeq(pty, n + 1, Len(pty)) = pty
<1> DEFINE n == Min({maxread, Len(pty)})
<1>1. pty \in Seq(Alphabet) /\ Len(pty) \in Nat \ {0}
  BY DEF TypeInv, KernelOK
<1>2. n \in 1 .. Len(pty)
  BY <1>1, MinOfTwo, ExpectAssumption
<1> HIDE DEF n
<1>3. /\ SubSeq(pty, 1, n) \in Seq(Alphabet) /\ Len(SubSeq(pty, 1, n)) = n
      /\ SubSeq(pty, n + 1, Len(pty)) \in Seq(Alphabet)
  BY <1>1, <1>2, SubSeqType
<1>4. SubSeq(pty, 1, n) \o SubSeq(pty, n + 1, Len(pty)) = pty
  BY <1>1, <1>2, ConcatAdjacentSubSeq, SubSeqFull
<1>5. SubSeq(pty, 1, n) # <<>>
  BY <1>2, <1>3
<1> QED
  BY <1>2, <1>3, <1>4, <1>5 DEF n

LEMMA ReadType ==
  ASSUME TypeInv, NEW t \in Threads, ReadSteps(t)
  PROVE  TypeInv'
<1>1. /\ Places /\ MainAt /\ DrainAt /\ Armed
      /\ DOMAIN pc = Threads /\ DOMAIN ret = Threads
  BY DEF TypeInv, Places
<1>2. CASE ReadNonblocking(t)
  <2>1. CASE closed
    <3>1. UserOK' /\ Places'
      BY <1>2, <2>1, RaiseType DEF ReadNonblocking, Exceptions
    <3> QED
      BY <1>2, <3>1 DEF ReadNonblocking, TypeInv, KernelOK, FlagsOK, ThreadOK,
                        kernel, flags, thread
  <2>2. CASE ~closed
    <3>1. UserOK' /\ Places'
      BY <1>2, <2>2, ReadingType DEF ReadNonblocking, isalive
    <3> QED
      BY <1>2, <3>1 DEF ReadNonblocking, TypeInv, KernelOK, FlagsOK, ThreadOK,
                        kernel, flags, thread
  <2> QED
    BY <2>1, <2>2
<1>3. CASE Poll(t)
  <2>1. CASE Raise(t, "error") /\ UNCHANGED flag_eof
    <3>1. UserOK' /\ Places'
      BY <2>1, RaiseType DEF Exceptions
    <3> QED
      BY <1>3, <2>1, <3>1 DEF Poll, TypeInv, KernelOK, FlagsOK, ThreadOK, kernel, thread
  <2>2. CASE RaiseEOF(t)
    <3>1. UserOK' /\ Places' /\ flag_eof' = TRUE
      BY <2>2, RaiseType DEF RaiseEOF, Exceptions
    <3> QED
      BY <1>3, <3>1 DEF Poll, TypeInv, KernelOK, FlagsOK, ThreadOK, kernel, thread
  <2>3. CASE Goto(t, "select") /\ UNCHANGED <<flag_eof, user>>
    <3>1. UserOK' /\ Places'
      BY <1>3, <2>3, ReadingType DEF Poll, Goto
    <3> QED
      BY <1>3, <2>3, <3>1 DEF Poll, TypeInv, KernelOK, FlagsOK, ThreadOK, kernel, thread
  <2> QED
    BY <1>3, <2>1, <2>2, <2>3 DEF Poll
<1>4. CASE Select(t)
  <2>1. UserOK' /\ Places'
    <3>1. CASE Raise(t, "error")
      BY <3>1, RaiseType DEF Exceptions
    <3>2. CASE Goto(t, "read") /\ UNCHANGED user
      BY <1>4, <3>2, ReadingType DEF Select, Goto
    <3>3. CASE isalive(t, "post") /\ UNCHANGED user
      BY <1>4, <3>3, ReadingType DEF Select, isalive
    <3> QED
      BY <1>4, <3>1, <3>2, <3>3 DEF Select
  <2> QED
    BY <1>4, <2>1 DEF Select, TypeInv, KernelOK, FlagsOK, ThreadOK, kernel, flags, thread
<1>5. CASE Read(t)
  <2>1. CASE fdOpen /\ pty # <<>>
    <3> DEFINE n == Min({maxread, Len(pty)})
               s == SubSeq(pty, 1, n)
    <3>1. /\ n \in Nat /\ s \in Seq(Alphabet)
          /\ SubSeq(pty, n + 1, Len(pty)) \in Seq(Alphabet)
      <4>1. /\ n \in 1 .. Len(pty) /\ s \in Seq(Alphabet)
            /\ SubSeq(pty, n + 1, Len(pty)) \in Seq(Alphabet)
        BY <2>1, OneRead
      <4>2. Len(pty) \in Nat
        BY DEF TypeInv, KernelOK
      <4> HIDE DEF n, s
      <4> QED
        BY <4>1, <4>2
    <3> HIDE DEF n, s
    <3>2. /\ pty' = SubSeq(pty, n + 1, Len(pty))
          /\ IF t = Drain
             THEN chunk' = s /\ Goto(t, "put") /\ UNCHANGED loop
             ELSE /\ incoming' = incoming \o s
                  /\ freshlen' = n
                  /\ late' \in {FALSE, call.timed}
                  /\ Goto(t, "search")
                  /\ UNCHANGED <<chunk, buffer, given>>
          /\ UNCHANGED <<child, slave, doomed, written, fdOpen, flag_eof,
                         sigs, call, calls, result>>
      BY <1>5, <2>1 DEF Read, n, s
    <3>3. UNCHANGED <<closed, terminated, drainpty, keepReading, readQueue>>
      BY <1>5 DEF Read
    <3>4. KernelOK' /\ FlagsOK'
      BY <3>1, <3>2, <3>3 DEF TypeInv, KernelOK, FlagsOK
    <3>5. CASE t = Drain
      <4>1. ThreadOK' /\ UserOK'
        BY <3>1, <3>2, <3>3, <3>5 DEF TypeInv, ThreadOK, UserOK, loop
      <4>2. /\ DOMAIN pc' = Threads /\ DOMAIN ret' = Threads
            /\ pc'[Drain] = "put" /\ ret'[Drain] = "none"
            /\ pc'[Main] = pc[Main] /\ ret'[Main] = ret[Main]
        BY <1>1, <3>2, <3>5, TwoThreads DEF Goto
      <4>3. DrainAt'
        BY <4>2 DEF DrainAt
      <4>4. Places'
        BY <1>1, <3>2, <4>2, <4>3, DrainMoves
      <4> QED
        BY <3>4, <4>1, <4>4 DEF TypeInv
    <3>6. CASE t = Main
      <4>1. ThreadOK'
        BY <3>2, <3>3, <3>6, TwoThreads DEF TypeInv, ThreadOK
      <4>2. late' \in BOOLEAN /\ incoming' \in Seq(Alphabet)
        <5>1. call.timed \in BOOLEAN
          BY CallTypes DEF TypeInv, UserOK
        <5>2. late' \in {FALSE, call.timed} /\ incoming' = incoming \o s
          BY <3>2, <3>6, TwoThreads
        <5>3. late' \in BOOLEAN
          BY <5>1, <5>2
        <5>4. incoming \in Seq(Alphabet)
          BY DEF TypeInv, UserOK
        <5> QED
          BY <3>1, <5>2, <5>3, <5>4
      <4>3. UserOK'
        BY <3>1, <3>2, <3>6, <4>2, TwoThreads DEF TypeInv, UserOK
      <4>4. /\ DOMAIN pc' = Threads /\ DOMAIN ret' = Threads
            /\ pc'[Main] = "search" /\ ret'[Main] = "none"
            /\ pc'[Drain] = pc[Drain] /\ ret'[Drain] = ret[Drain]
        BY <1>1, <3>2, <3>6, TwoThreads DEF Goto
      <4>5. MainAt' /\ Armed'
        BY <1>1, <1>5, <3>2, <3>6, <4>4 DEF Read, MainAt, Armed, InIsalive
      <4>6. Places'
        BY <1>1, <4>4, <4>5, MainMoves
      <4> QED
        BY <3>4, <4>1, <4>3, <4>6 DEF TypeInv
    <3> QED
      BY <3>5, <3>6, TwoThreads
  <2>2. CASE ~(fdOpen /\ pty # <<>>)
    <3>1. /\ RaiseEOF(t) \/ (Raise(t, "error") /\ UNCHANGED flag_eof)
          /\ UNCHANGED <<kernel, chunk>>
      BY <1>5, <2>2 DEF Read
    <3>2. UserOK' /\ Places' /\ (flag_eof' = TRUE \/ flag_eof' = flag_eof)
      BY <3>1, RaiseType DEF RaiseEOF, Exceptions
    <3> QED
      BY <1>5, <3>1, <3>2 DEF Read, TypeInv, KernelOK, FlagsOK, ThreadOK, kernel
  <2> QED
    BY <2>1, <2>2
<1> QED
  BY <1>2, <1>3, <1>4, <1>5 DEF ReadSteps

-----------------------------------------------------------------------------
(* The thread.                                                             *)

LEMMA ThreadType ==
  ASSUME TypeInv, ThreadStep
  PROVE  TypeInv'
<1>1. /\ Places /\ DrainAt /\ DOMAIN pc = Threads /\ DOMAIN ret = Threads
  BY DEF TypeInv, Places
<1>2. ASSUME UNCHANGED user, NEW l, pc[Drain] # l,
             l \in {"loop", "rnb", "end", "done"}, Goto(Drain, l)
      PROVE  UserOK' /\ Places'
  <2>1. /\ DOMAIN pc' = Threads /\ DOMAIN ret' = Threads
        /\ pc'[Drain] = l /\ ret'[Drain] = "none"
        /\ pc'[Main] = pc[Main] /\ ret'[Main] = ret[Main]
    BY <1>1, <1>2, TwoThreads DEF Goto
  <2>2. UserOK' /\ call' = call /\ sigs' = sigs
    BY <1>2 DEF TypeInv, UserOK, user, loop
  <2>3. DrainAt'
    BY <1>2, <2>1 DEF DrainAt
  <2> QED
    BY <1>1, <2>1, <2>2, <2>3, DrainMoves
<1>3. CASE ThreadStarts
  BY <1>2, <1>3 DEF ThreadStarts, TypeInv, KernelOK, FlagsOK, ThreadOK, kernel, flags, thread
<1>4. CASE ThreadLoops
  BY <1>2, <1>4 DEF ThreadLoops, TypeInv, KernelOK, FlagsOK, ThreadOK, kernel, flags, thread
<1>5. CASE ThreadPuts
  <2>1. readQueue' \in Seq(Seq(Alphabet)) /\ chunk' \in Seq(Alphabet)
    BY <1>5 DEF ThreadPuts, TypeInv, ThreadOK
  <2> QED
    BY <1>2, <1>5, <2>1 DEF ThreadPuts, TypeInv, KernelOK, FlagsOK, ThreadOK, kernel, flags
<1>6. CASE ThreadSeesEOF
  <2>1. None \in Seq(Alphabet)
    BY DEF None
  <2>2. readQueue' \in Seq(Seq(Alphabet))
    BY <1>6, <2>1 DEF ThreadSeesEOF, TypeInv, ThreadOK
  <2> QED
    BY <1>2, <1>6, <2>2 DEF ThreadSeesEOF, TypeInv, KernelOK, FlagsOK, ThreadOK, kernel, flags
<1>7. CASE ThreadEnds
  BY <1>2, <1>7 DEF ThreadEnds, TypeInv, KernelOK, FlagsOK, ThreadOK, kernel, thread
<1> QED
  BY <1>3, <1>4, <1>5, <1>6, <1>7, AliveType, ReadType, TwoThreads DEF ThreadStep

-----------------------------------------------------------------------------
(* The rest of the program's calls.                                        *)

(* A step of the program within its call.                                  *)
LEMMA WithinType ==
  ASSUME TypeInv, NEW l, NEW r,
         pc' = [pc EXCEPT ![Main] = l], ret' = [ret EXCEPT ![Main] = r],
         UNCHANGED call,
         \/ call.op = "expect" /\ l \in {"search", "get", "rnb"} /\ r = "none"
         \/ call.op \in {"terminate", "close"} /\ l = "alive" /\ r \in {"check", "last"}
         \/ call.op = "close" /\ l = "osclose" /\ r = "none"
         \/ call.op = "close" /\ l = "alive" /\ r = "close"
  PROVE  Places'
<1>1. Places /\ DOMAIN pc = Threads /\ DOMAIN ret = Threads
  BY DEF TypeInv, Places
<1>2. /\ DOMAIN pc' = Threads /\ DOMAIN ret' = Threads
      /\ pc'[Main] = l /\ ret'[Main] = r
      /\ pc'[Drain] = pc[Drain] /\ ret'[Drain] = ret[Drain]
  BY <1>1, TwoThreads
<1>3. MainAt' /\ Armed'
  BY <1>2 DEF MainAt, Armed, InIsalive
<1> QED
  BY <1>1, <1>2, <1>3, MainMoves

(* What a match makes of what has been read.                               *)
LEMMA MatchWithin ==
  ASSUME TypeInv, call.op = "expect", Match # NoMatch
  PROVE  Match.end \in 0 .. Len(incoming)
<1>1. call.search \in Searches /\ incoming \in Seq(Alphabet) /\ freshlen \in Nat
  BY CallTypes DEF TypeInv, UserOK
<1> DEFINE ps == call.search.patterns
           w == call.search.window
           s1 == [k \in Strings(ps) |->
                   Offset(incoming, IF w = NoWindow THEN FirstNew(freshlen, ps[k]) ELSE -w)]
           s2 == [k \in Strings(ps) |->
                   IF w = NoWindow \/ w > Len(incoming) THEN 0 ELSE Len(incoming) - w]
<1>2. ps \in Seq(Seq(STRING)) /\ w \in Nat \cup {NoWindow} /\ Len(incoming) \in Nat
  BY <1>1, ExpectAssumption
<1> HIDE DEF ps, w
<1>3. \A k \in Strings(ps) : Len(ps[k]) \in Nat
  BY <1>2 DEF Strings
<1>4. \A k \in Strings(ps) : s1[k] \in Nat /\ s2[k] \in Nat
  BY <1>1, <1>2, <1>3 DEF Offset, FirstNew, NoWindow
<1>5. Match \in {Best(ps, incoming, s1), Best(ps, incoming, s2)}
  BY DEF Match, search_string, search_re, ps, w
<1> HIDE DEF s1, s2
<1> QED
  BY <1>2, <1>4, <1>5, BestWithin

LEMMA SearchType ==
  ASSUME TypeInv, SearchIncoming
  PROVE  TypeInv'
<1>1. call.op = "expect" /\ UNCHANGED <<kernel, flags, thread>>
  BY DEF SearchIncoming, TypeInv, Places, MainAt, InIsalive
<1>2. UserOK' /\ Places'
  <2>1. CASE /\ Match # NoMatch
             /\ given' = given \o SubSeq(incoming, 1, Match.end)
             /\ buffer' = AfterTheMatch
             /\ Finish("match")
    <3>1. Match.end \in 0 .. Len(incoming) /\ Len(incoming) \in Nat
      BY <1>1, <2>1, MatchWithin DEF TypeInv, UserOK
    <3>2. /\ SubSeq(incoming, 1, Match.end) \in Seq(Alphabet)
          /\ AfterTheMatch \in Seq(Alphabet)
      BY <3>1, SubSeqType DEF AfterTheMatch, TypeInv, UserOK
    <3>3. given' \in Seq(Alphabet) /\ buffer' \in Seq(Alphabet)
      BY <2>1, <3>2 DEF TypeInv, UserOK
    <3> QED
      BY <2>1, <3>3, FinishType DEF Results
  <2>2. CASE Raise(Main, "TIMEOUT")
    BY <2>2, RaiseType, TwoThreads DEF Exceptions
  <2>3. CASE Goto(Main, IF drainpty THEN "get" ELSE "rnb") /\ UNCHANGED user
    <3>1. UserOK' /\ UNCHANGED call
      BY <2>3 DEF TypeInv, UserOK, user, loop
    <3>2. CASE Goto(Main, "get")
      BY <1>1, <3>1, <3>2, WithinType DEF Goto
    <3>3. CASE Goto(Main, "rnb")
      BY <1>1, <3>1, <3>3, WithinType DEF Goto
    <3>4. Goto(Main, "get") \/ Goto(Main, "rnb")
      BY <2>3, Zenon
    <3> QED
      BY <3>1, <3>2, <3>3, <3>4
  <2> QED
    BY <2>1, <2>2, <2>3 DEF SearchIncoming
<1> QED
  BY <1>1, <1>2 DEF TypeInv, KernelOK, FlagsOK, ThreadOK, kernel, flags, thread

LEMMA GetType ==
  ASSUME TypeInv, Get
  PROVE  TypeInv'
<1>1. /\ Goto(Main, "search")
      /\ UNCHANGED <<kernel, flags, keepReading, chunk, buffer, given, sigs, call,
                     calls, result>>
  BY DEF Get
<1>2. call.op = "expect" /\ call.timed \in BOOLEAN
  BY CallTypes DEF Get, TypeInv, UserOK, Places, MainAt, InIsalive
<1>3. Places'
  BY <1>1, <1>2, WithinType DEF Goto
<1>4. /\ readQueue' \in Seq(Seq(Alphabet)) /\ incoming' \in Seq(Alphabet)
      /\ freshlen' \in Nat /\ late' \in BOOLEAN
  <2>1. CASE /\ readQueue # <<>>
             /\ readQueue' = Tail(readQueue)
             /\ incoming' = incoming \o Head(readQueue)
             /\ freshlen' = IF Head(readQueue) = None THEN freshlen
                            ELSE Len(Head(readQueue))
             /\ late' \in {FALSE, call.timed}
    <3>1. Head(readQueue) \in Seq(Alphabet) /\ Tail(readQueue) \in Seq(Seq(Alphabet))
      BY <2>1 DEF TypeInv, ThreadOK
    <3>2. late' \in BOOLEAN
      BY <1>2, <2>1
    <3> QED
      BY <2>1, <3>1, <3>2 DEF TypeInv, UserOK
  <2>2. CASE late' = TRUE /\ UNCHANGED <<readQueue, incoming, freshlen>>
    BY <2>2 DEF TypeInv, ThreadOK, UserOK
  <2> QED
    BY <2>1, <2>2 DEF Get
<1>5. UserOK' /\ ThreadOK'
  BY <1>1, <1>4 DEF TypeInv, UserOK, ThreadOK
<1> QED
  BY <1>1, <1>3, <1>5 DEF TypeInv, KernelOK, FlagsOK, kernel, flags

LEMMA SignalType ==
  ASSUME TypeInv, Signal
  PROVE  TypeInv'
<1>1. call.op \in {"terminate", "close"} /\ sigs # <<>>
  BY DEF Signal, TypeInv, Places, MainAt, Armed, InIsalive
<1>2. Places'
  BY <1>1, WithinType DEF Signal, isalive
<1>3. sigs' \in Seq({"HUP", "CONT", "INT", "KILL"}) /\ doomed' \in BOOLEAN
  <2>1. Tail(sigs) \in Seq({"HUP", "CONT", "INT", "KILL"})
    BY <1>1 DEF TypeInv, UserOK
  <2> QED
    BY <2>1 DEF Signal, TypeInv, UserOK, KernelOK
<1>4. UNCHANGED <<child, slave, pty, written, fdOpen, flags, thread, loop, call,
                  calls, result>>
  BY DEF Signal
<1> QED
  BY <1>2, <1>3, <1>4 DEF TypeInv, KernelOK, FlagsOK, ThreadOK, UserOK, flags, thread, loop

LEMMA StopType ==
  ASSUME TypeInv, Stop
  PROVE  TypeInv'
<1>1. call.op = "close" /\ UNCHANGED <<kernel, flags, readQueue, chunk, user>>
  BY DEF Stop, TypeInv, Places, MainAt, InIsalive
<1>2. Places'
  BY <1>1, WithinType DEF Stop, Goto, user
<1>3. keepReading' \in BOOLEAN
  BY DEF Stop
<1> QED
  BY <1>1, <1>2, <1>3
  DEF TypeInv, KernelOK, FlagsOK, ThreadOK, UserOK, kernel, flags, user, loop

LEMMA CloseTerminalType ==
  ASSUME TypeInv, CloseTerminal
  PROVE  TypeInv'
<1>1. call.op = "close"
  BY DEF CloseTerminal, TypeInv, Places, MainAt, InIsalive
<1>2. UserOK' /\ Places'
  <2>1. CASE fdOpen
    <3>1. isalive(Main, "close") /\ UNCHANGED user
      BY <2>1 DEF CloseTerminal
    <3>2. Places'
      BY <1>1, <3>1, WithinType DEF isalive, user
    <3> QED
      BY <3>1, <3>2 DEF TypeInv, UserOK, user, loop
  <2>2. CASE ~fdOpen
    BY <2>2, RaiseType, TwoThreads DEF CloseTerminal, Exceptions
  <2> QED
    BY <2>1, <2>2
<1> QED
  BY <1>2 DEF CloseTerminal, TypeInv, KernelOK, FlagsOK, ThreadOK, flags, thread

LEMMA ShutType ==
  ASSUME TypeInv, Shut
  PROVE  TypeInv'
<1>1. /\ Finish("done") /\ closed' = TRUE
      /\ UNCHANGED <<kernel, terminated, flag_eof, drainpty, thread, buffer, given>>
  BY DEF Shut
<1>2. UserOK' /\ Places'
  <2>1. buffer' \in Seq(Alphabet) /\ given' \in Seq(Alphabet)
    BY <1>1 DEF TypeInv, UserOK
  <2> QED
    BY <1>1, <2>1, FinishType DEF Results
<1> QED
  BY <1>1, <1>2 DEF TypeInv, KernelOK, FlagsOK, ThreadOK, kernel, thread

-----------------------------------------------------------------------------
(* The calls, and the child.                                               *)

LEMMA SignalsType ==
  ASSUME NEW f \in BOOLEAN
  PROVE  Signals(f) \in Seq({"HUP", "CONT", "INT", "KILL"}) /\ Signals(f) # <<>>
<1>1. <<"HUP", "CONT", "INT">> \in Seq({"HUP", "CONT", "INT", "KILL"})
  OBVIOUS
<1>2. <<>> \in Seq({"HUP", "CONT", "INT", "KILL"}) /\ <<"KILL">> \in Seq({"HUP", "CONT", "INT", "KILL"})
  OBVIOUS
<1>3. CASE f
  BY <1>1, <1>2, <1>3, ConcatProperties, ConcatEqualIffEmpty DEF Signals
<1>4. CASE ~f
  BY <1>1, <1>2, <1>4, ConcatProperties, ConcatEmptySeq DEF Signals
<1> QED
  BY <1>3, <1>4

LEMMA BeginType ==
  ASSUME TypeInv, NEW c \in Calls, Begin(c), NEW l, NEW r,
         pc' = [pc EXCEPT ![Main] = l], ret' = [ret EXCEPT ![Main] = r],
         UNCHANGED <<kernel, flags, thread, loop>>,
         sigs' \in Seq({"HUP", "CONT", "INT", "KILL"}),
         \/ c.op = "isalive" /\ l = "alive" /\ r = "user"
         \/ c.op = "wait" /\ l = "alive" /\ r = "wait"
         \/ c.op = "terminate" /\ l = "alive" /\ r = "term"
         \/ c.op = "close" /\ l = "stop" /\ r = "none"
  PROVE  TypeInv'
<1>1. Places /\ DOMAIN pc = Threads /\ DOMAIN ret = Threads
  BY DEF TypeInv, Places
<1>2. /\ DOMAIN pc' = Threads /\ DOMAIN ret' = Threads
      /\ pc'[Main] = l /\ ret'[Main] = r
      /\ pc'[Drain] = pc[Drain] /\ ret'[Drain] = ret[Drain]
  BY <1>1, TwoThreads
<1>3. call' = c /\ calls' \in 0 .. MaxCalls /\ result' \in Results
  BY ExpectAssumption DEF Begin, TypeInv, UserOK, Results
<1>4. MainAt' /\ Armed'
  BY <1>2, <1>3 DEF MainAt, Armed, InIsalive
<1>5. Places'
  BY <1>1, <1>2, <1>4, MainMoves
<1>6. UserOK'
  BY <1>3 DEF TypeInv, UserOK, loop
<1> QED
  BY <1>5, <1>6 DEF TypeInv, KernelOK, FlagsOK, ThreadOK, kernel, flags, thread

LEMMA ExpectType ==
  ASSUME TypeInv, Expect
  PROVE  TypeInv'
<1>1. PICK s \in Searches, t \in BOOLEAN :
    /\ pc[Main] = "idle"
    /\ calls < MaxCalls
    /\ calls' = calls + 1
    /\ IF drainpty /\ pc[Drain] = "boot"
       THEN result' = "error" /\ UNCHANGED <<call, incoming, freshlen, control>>
       ELSE /\ call' = [op |-> "expect", search |-> s, timed |-> t, force |-> FALSE]
            /\ result' = "none"
            /\ incoming' = buffer /\ freshlen' = Len(buffer)
            /\ pc' = [pc EXCEPT ![Main] = "search",
                                ![Drain] = IF drainpty /\ @ = "unborn" THEN "boot"
                                           ELSE @]
            /\ UNCHANGED ret
    /\ UNCHANGED <<kernel, flags, thread, buffer, late, given, sigs>>
  BY DEF Expect
<1>2. calls' \in 0 .. MaxCalls
  BY <1>1, ExpectAssumption DEF TypeInv, UserOK
<1>3. KernelOK' /\ FlagsOK' /\ ThreadOK'
  BY <1>1 DEF TypeInv, KernelOK, FlagsOK, ThreadOK, kernel, flags, thread
<1>4. CASE drainpty /\ pc[Drain] = "boot"
  <2>1. /\ result' = "error" /\ UNCHANGED <<call, incoming, freshlen, control>>
        /\ UNCHANGED <<buffer, late, given, sigs>>
    BY <1>1, <1>4
  <2>2. UserOK'
    BY <1>2, <2>1 DEF TypeInv, UserOK, Results
  <2>3. Places'
    BY <2>1 DEF TypeInv, Places, MainAt, DrainAt, Armed, control
  <2> QED
    BY <1>3, <2>2, <2>3 DEF TypeInv
<1>5. CASE ~(drainpty /\ pc[Drain] = "boot")
  <2>1. /\ call' = [op |-> "expect", search |-> s, timed |-> t, force |-> FALSE]
        /\ result' = "none"
        /\ incoming' = buffer /\ freshlen' = Len(buffer)
        /\ pc' = [pc EXCEPT ![Main] = "search",
                            ![Drain] = IF drainpty /\ @ = "unborn" THEN "boot"
                                       ELSE @]
        /\ UNCHANGED ret
        /\ UNCHANGED <<buffer, late, given, sigs>>
    BY <1>1, <1>5
  <2>2. call' \in Calls /\ call'.op = "expect"
    BY <2>1 DEF Calls
  <2>3. UserOK'
    BY <1>2, <2>1, <2>2 DEF TypeInv, UserOK, Results
  <2>4. /\ DOMAIN pc' = Threads /\ pc'[Main] = "search"
        /\ pc'[Drain] = pc[Drain] \/ pc'[Drain] = "boot"
    BY <2>1, TwoThreads DEF TypeInv, Places
  <2>5. ret[Main] # "kill"
    BY <1>1 DEF TypeInv, Places, MainAt, InIsalive
  <2>6. Places'
    BY <2>1, <2>2, <2>4, <2>5 DEF TypeInv, Places, MainAt, DrainAt, Armed, InIsalive
  <2> QED
    BY <1>3, <2>3, <2>6 DEF TypeInv
<1> QED
  BY <1>4, <1>5

LEMMA ChildType ==
  ASSUME TypeInv, Child
  PROVE  TypeInv'
<1>1. UNCHANGED <<fdOpen, flags, thread, user, control>>
  BY DEF Child, Write, HangUp, Exit
<1>2. KernelOK'
  <2>1. CASE Write
    <3>1. Len(written) + 1 \in DOMAIN Output
      BY <2>1, ExpectAssumption DEF Write, TypeInv, KernelOK
    <3>2. Output[Len(written) + 1] \in Alphabet
      BY <3>1 DEF Alphabet
    <3> QED
      BY <2>1, <3>2, AppendProperties DEF Write, TypeInv, KernelOK
  <2>2. CASE HangUp
    BY <2>2 DEF HangUp, TypeInv, KernelOK
  <2>3. CASE Exit
    BY <2>3 DEF Exit, TypeInv, KernelOK
  <2> QED
    BY <2>1, <2>2, <2>3 DEF Child
<1> QED
  BY <1>1, <1>2 DEF TypeInv, FlagsOK, ThreadOK, UserOK, Places, MainAt, DrainAt, Armed,
                    flags, thread, user, loop, control

LEMMA ProgramType ==
  ASSUME TypeInv, Program
  PROVE  TypeInv'
<1>1. ASSUME NEW f \in BOOLEAN, NEW op \in {"isalive", "wait", "terminate", "close"}
      PROVE  CallOf(op, f) \in Calls /\ CallOf(op, f).op = op
  BY <1>1 DEF Calls, CallOf
<1>2. sigs \in Seq({"HUP", "CONT", "INT", "KILL"})
  BY DEF TypeInv, UserOK
<1>3. CASE IsAlive
  BY <1>1, <1>2, <1>3, BeginType DEF IsAlive, isalive
<1>4. CASE Wait
  BY <1>1, <1>2, <1>4, BeginType DEF Wait, isalive
<1>5. CASE Terminate
  <2>1. PICK f \in BOOLEAN : /\ Begin(CallOf("terminate", f))
                             /\ sigs' = Signals(f)
                             /\ isalive(Main, "term")
                             /\ UNCHANGED <<kernel, flags, thread, loop>>
    BY <1>5 DEF Terminate
  <2> QED
    BY <1>1, <2>1, SignalsType, BeginType DEF isalive
<1>6. CASE Close
  <2>1. PICK f \in BOOLEAN : /\ Begin(CallOf("close", f))
                             /\ sigs' = Signals(f)
                             /\ Goto(Main, "stop")
                             /\ UNCHANGED <<kernel, flags, thread, loop>>
    BY <1>6 DEF Close
  <2> QED
    BY <1>1, <2>1, SignalsType, BeginType DEF Goto
<1> QED
  BY <1>3, <1>4, <1>5, <1>6, ExpectType DEF Program

-----------------------------------------------------------------------------
LEMMA InitType == Init => TypeInv
<1> SUFFICES ASSUME Init PROVE TypeInv
  OBVIOUS
<1>1. <<>> \in Seq(Alphabet) /\ <<>> \in Seq(Seq(Alphabet))
      /\ <<>> \in Seq({"HUP", "CONT", "INT", "KILL"})
  OBVIOUS
<1>2. NoCall \in Calls /\ NoCall.op = "none"
  BY DEF NoCall, CallOf, Calls
<1>3. 0 \in 0 .. MaxCalls /\ drainpty \in BOOLEAN
  BY ExpectAssumption DEF Init
<1>4. KernelOK /\ FlagsOK /\ ThreadOK
  BY <1>1, <1>3 DEF Init, KernelOK, FlagsOK, ThreadOK
<1>5. UserOK
  BY <1>1, <1>2, <1>3 DEF Init, UserOK, Results
<1>6. Places
  BY <1>2, TwoThreads DEF Init, Places, MainAt, DrainAt, Armed
<1> QED
  BY <1>4, <1>5, <1>6 DEF TypeInv

LEMMA NextType == TypeInv /\ [Next]_vars => TypeInv'
<1> SUFFICES ASSUME TypeInv, [Next]_vars PROVE TypeInv'
  OBVIOUS
<1>1. CASE MainStep
  BY <1>1, AliveType, ReadType, SearchType, GetType, SignalType, StopType,
     CloseTerminalType, ShutType, TwoThreads DEF MainStep
<1>2. CASE UNCHANGED vars
  BY <1>2 DEF vars, TypeInv, KernelOK, FlagsOK, ThreadOK, UserOK, Places, MainAt,
              DrainAt, Armed, kernel, flags, thread, user, loop, control
<1> QED
  BY <1>1, <1>2, ThreadType, ProgramType, ChildType DEF Next

LEMMA TypeAlways == Spec => []TypeInv
  BY InitType, NextType, PTL DEF Spec

(* Every variable of the spawn has its type, wherever the two threads are. *)
THEOREM TypeCorrect == Spec => []TypeOK
  BY TypeAlways, TypeParts, PTL

-----------------------------------------------------------------------------
(* What each kind of step does to the control state of both threads.       *)

Others(t) == \A u \in Threads : u # t => pc'[u] = pc[u] /\ ret'[u] = ret[u]

(* A step of isalive reaps the child, stores its status, or leaves both.   *)
Answering(t) ==
  /\ Others(t) /\ (call' = call \/ call' = NoCall)
  /\ pc'[t] \in {"idle", "poll", "select", "alive", "waitpid", "shut", "signal",
                 "loop", "eof", "crashed"}
  /\ pc'[t] \in {"poll", "select"} => ret[t] = "pre" /\ pc[t] \in InIsalive
  /\ pc'[t] = "alive" => ret'[t] \notin {"pre", "post"}
  /\ pc'[t] = "eof" => flag_eof'
  /\ pc'[t] = "poll" => terminated'
  /\ pc'[t] = "crashed" => child' = "reaped"
  /\ flag_eof => flag_eof'
  /\ flag_eof' => flag_eof \/ terminated'
  /\ child' = child
  /\ terminated' = IF pc[t] = "reaped" THEN TRUE ELSE terminated

Inside(t) ==
  /\ Others(t) /\ call' = call /\ flag_eof' = flag_eof /\ terminated' = terminated
  /\ pc[t] # "reaped"
  /\ pc'[t] \in {"again", "reap", "reaped"}
  /\ ret'[t] = IF pc[t] = "waitpid" THEN "status" ELSE ret[t]
  /\ pc'[t] = "again" => child' = "running"
  /\ pc'[t] = "reap" => flag_eof'
  /\ IF pc'[t] = "reaped" THEN child = "zombie" /\ child' = "reaped" ELSE child' = child

LEMMA AliveEffect ==
  ASSUME TypeInv, NEW t \in Threads, AliveSteps(t)
  PROVE  /\ UNCHANGED <<slave, pty, written, fdOpen, closed, drainpty, thread>>
         /\ pc[t] \in InIsalive \cup {"waitpid"}
         /\ Answering(t) \/ Inside(t)
<1>1. DOMAIN pc = Threads /\ DOMAIN ret = Threads /\ flag_eof \in BOOLEAN
  BY DEF TypeInv, Places, FlagsOK
<1>2. ASSUME ECHILD(t)
      PROVE  /\ UNCHANGED <<slave, pty, written, fdOpen, closed, drainpty, thread>>
             /\ pc[t] # "reaped" => Answering(t)
  <2>1. /\ child' = "reaped" /\ child' = child /\ terminated' = terminated
        /\ flag_eof' = flag_eof
        /\ UNCHANGED <<slave, pty, written, fdOpen, closed, drainpty, thread>>
    BY <1>2 DEF ECHILD, kernel, flags
  <2>2. /\ Others(t) /\ (call' = call \/ call' = NoCall)
        /\ pc'[t] \in {"idle", "crashed"}
    BY <1>2, RaiseType, TwoThreads DEF ECHILD, Others, Exceptions, Catch
  <2> QED
    BY <2>1, <2>2 DEF Answering
<1>3. ASSUME Reap(t), pc' = [pc EXCEPT ![t] = "reaped"], pc[t] # "reaped",
             \/ ret' = [ret EXCEPT ![t] = IF pc[t] = "waitpid" THEN "status" ELSE ret[t]]
             \/ ret' = ret /\ pc[t] # "waitpid"
      PROVE  /\ UNCHANGED <<slave, pty, written, fdOpen, closed, drainpty, thread>>
             /\ Inside(t)
  <2>1. /\ child = "zombie" /\ child' = "reaped" /\ UNCHANGED <<flags, user>>
        /\ UNCHANGED <<slave, pty, written, fdOpen, thread>>
    BY <1>3 DEF Reap
  <2>2. Others(t) /\ pc'[t] = "reaped" /\ ret'[t] = IF pc[t] = "waitpid" THEN "status" ELSE ret[t]
    BY <1>1, <1>3 DEF Others
  <2> QED
    BY <1>3, <2>1, <2>2 DEF Inside, flags, user
<1>4. ASSUME NEW alive \in BOOLEAN, Answer(t, alive), pc[t] \in InIsalive,
             alive => terminated' = terminated /\ pc[t] # "reaped",
             ~alive => terminated' /\ (pc[t] # "reaped" => terminated' = terminated),
             UNCHANGED <<kernel, closed, drainpty, thread>>
      PROVE  /\ UNCHANGED <<slave, pty, written, fdOpen, closed, drainpty, thread>>
             /\ Answering(t)
  <2>1. AnswerEffect(t, alive)
    BY <1>4, AnswerType
  <2>2. /\ Others(t) /\ (call' = call \/ call' = NoCall)
        /\ pc'[t] \in {"idle", "poll", "select", "alive", "waitpid", "shut", "signal",
                       "loop", "eof"}
        /\ pc'[t] \in {"poll", "select"} => ret[t] = "pre" /\ pc[t] \in InIsalive
        /\ pc'[t] = "alive" => ret'[t] \notin {"pre", "post"}
    BY <1>4, <2>1 DEF AnswerEffect, Others
  <2>3. (pc'[t] = "eof" => flag_eof') /\ (flag_eof => flag_eof')
    BY <2>1 DEF AnswerEffect
  <2>4. (flag_eof' => flag_eof \/ terminated') /\ (pc'[t] = "poll" => terminated')
    BY <1>4, <2>1 DEF AnswerEffect
  <2>5. /\ child' = child
        /\ UNCHANGED <<slave, pty, written, fdOpen, closed, drainpty, thread>>
    BY <1>4 DEF kernel
  <2>6. terminated' = IF pc[t] = "reaped" THEN TRUE ELSE terminated
    BY <1>4
  <2> QED
    BY <2>2, <2>3, <2>4, <2>5, <2>6 DEF Answering
<1>5. CASE Alive(t)
  <2>1. CASE terminated /\ Answer(t, FALSE)
             /\ UNCHANGED <<kernel, closed, terminated, drainpty, thread>>
    BY <1>4, <1>5, <2>1 DEF Alive, InIsalive
  <2>2. CASE /\ \/ pc' = [pc EXCEPT ![t] = "reap"] /\ flag_eof
                \/ pc' = [pc EXCEPT ![t] = "again"] /\ child = "running"
             /\ UNCHANGED <<kernel, flags, thread, user, ret>>
    <3>1. /\ Others(t) /\ ret'[t] = ret[t]
          /\ \/ pc'[t] = "reap" /\ flag_eof
             \/ pc'[t] = "again" /\ child = "running"
      <4>1. CASE pc' = [pc EXCEPT ![t] = "reap"] /\ flag_eof /\ ret' = ret
        <5>1. Others(t) /\ ret'[t] = ret[t] /\ pc'[t] = "reap"
          BY <1>1, <4>1 DEF Others
        <5> QED
          BY <4>1, <5>1
      <4>2. CASE pc' = [pc EXCEPT ![t] = "again"] /\ child = "running" /\ ret' = ret
        BY <1>1, <4>2 DEF Others
      <4> QED
        BY <2>2, <4>1, <4>2
    <3> QED
      BY <1>5, <2>2, <3>1 DEF Alive, Inside, InIsalive, kernel, flags, user
  <2>3. CASE Reap(t) /\ pc' = [pc EXCEPT ![t] = "reaped"] /\ UNCHANGED ret
    BY <1>3, <1>5, <2>3 DEF Alive, InIsalive
  <2>4. CASE ECHILD(t)
    BY <1>2, <1>5, <2>4 DEF Alive, InIsalive
  <2> QED
    BY <1>5, <2>1, <2>2, <2>3, <2>4 DEF Alive
<1>6. CASE AliveAgain(t)
  <2>1. CASE Answer(t, TRUE) /\ UNCHANGED <<kernel, closed, terminated, drainpty, thread>>
    BY <1>4, <1>6, <2>1 DEF AliveAgain, InIsalive
  <2>2. CASE Reap(t) /\ pc' = [pc EXCEPT ![t] = "reaped"] /\ UNCHANGED ret
    BY <1>3, <1>6, <2>2 DEF AliveAgain, InIsalive
  <2>3. CASE ECHILD(t)
    BY <1>2, <1>6, <2>3 DEF AliveAgain, InIsalive
  <2> QED
    BY <1>6, <2>1, <2>2, <2>3 DEF AliveAgain
<1>7. CASE WaitForChild(t)
  <2>1. CASE ECHILD(t)
    BY <1>2, <1>7, <2>1 DEF WaitForChild, InIsalive
  <2>2. CASE /\ Reap(t)
             /\ pc' = [pc EXCEPT ![t] = "reaped"]
             /\ ret' = [ret EXCEPT ![t] = IF pc[t] = "waitpid" THEN "status" ELSE @]
    <3>1. pc[t] # "reaped"
      BY <1>7 DEF WaitForChild
    <3> QED
      <4>1. ret' = [ret EXCEPT ![t] = IF pc[t] = "waitpid" THEN "status" ELSE ret[t]]
        BY <2>2
      <4> QED
        BY <1>3, <1>7, <2>2, <3>1, <4>1 DEF WaitForChild, InIsalive
  <2> QED
    BY <1>7, <2>1, <2>2 DEF WaitForChild
<1>8. CASE StoreStatus(t)
  BY <1>4, <1>8 DEF StoreStatus, InIsalive
<1> QED
  BY <1>5, <1>6, <1>7, <1>8 DEF AliveSteps

LEMMA ReadEffect ==
  ASSUME TypeInv, NEW t \in Threads, ReadSteps(t)
  PROVE  /\ Others(t) /\ (call' = call \/ call' = NoCall)
         /\ UNCHANGED <<child, slave, written, fdOpen, closed, terminated, drainpty,
                        keepReading, readQueue>>
         /\ pc[t] \in {"rnb", "poll", "select", "read"}
         /\ pc'[t] \in {"idle", "search", "put", "alive", "select", "read", "eof",
                        "crashed"}
         /\ pc'[t] = "alive" => ret'[t] \in {"pre", "post"}
         /\ pc'[t] = "read" => Readable
         /\ pty' # pty => pc[t] = "read" /\ pc'[t] \in {"search", "put"}
         /\ chunk' # chunk => t = Drain /\ pc'[t] = "put"
         /\ pc'[t] = "crashed" => ~fdOpen \/ closed
         /\ pc'[t] = "eof" => flag_eof'
         /\ flag_eof => flag_eof'
         /\ flag_eof' => \/ flag_eof
                         \/ pc[t] = "poll" /\ ~Readable
                         \/ pc[t] = "read" /\ (~fdOpen \/ pty = <<>>)
<1>1. DOMAIN pc = Threads /\ DOMAIN ret = Threads /\ flag_eof \in BOOLEAN
  BY DEF TypeInv, Places, FlagsOK
<1>2. ASSUME NEW e \in {"error", "EOF"}, Raise(t, e)
      PROVE  /\ Others(t) /\ (call' = call \/ call' = NoCall)
             /\ \/ pc'[t] = "idle"
                \/ pc'[t] = "eof" /\ e = "EOF"
                \/ pc'[t] = "crashed" /\ e = "error"
  BY <1>2, RaiseType, CatchOf, TwoThreads DEF Others, Exceptions
<1>3. CASE ReadNonblocking(t)
  <2>1. CASE closed
    <3>1. Raise(t, "error") /\ UNCHANGED <<kernel, flags, thread>>
      BY <1>3, <2>1 DEF ReadNonblocking
    <3> QED
      BY <1>2, <1>3, <2>1, <3>1 DEF ReadNonblocking, kernel, flags, thread
  <2>2. CASE ~closed
    <3>1. isalive(t, "pre") /\ UNCHANGED user /\ UNCHANGED <<kernel, flags, thread>>
      BY <1>3, <2>2 DEF ReadNonblocking
    <3>2. Others(t) /\ pc'[t] = "alive" /\ ret'[t] = "pre" /\ call' = call
      BY <1>1, <3>1 DEF isalive, Others, user
    <3> QED
      BY <1>3, <3>1, <3>2 DEF ReadNonblocking, kernel, flags, thread
  <2> QED
    BY <2>1, <2>2
<1>4. CASE Poll(t)
  <2>1. CASE ~fdOpen /\ Raise(t, "error") /\ UNCHANGED flag_eof
    BY <1>2, <1>4, <2>1 DEF Poll, kernel, thread
  <2>2. CASE fdOpen /\ Readable /\ Goto(t, "select") /\ UNCHANGED <<flag_eof, user>>
    <3>1. Others(t) /\ pc'[t] = "select" /\ call' = call
      BY <1>1, <2>2 DEF Goto, Others, user
    <3> QED
      BY <1>4, <2>2, <3>1 DEF Poll, kernel, thread
  <2>3. CASE fdOpen /\ ~Readable /\ RaiseEOF(t)
    BY <1>2, <1>4, <2>3 DEF Poll, RaiseEOF, kernel, thread
  <2> QED
    BY <1>4, <2>1, <2>2, <2>3 DEF Poll
<1>5. CASE Select(t)
  <2>1. CASE fdOpen /\ Readable /\ Goto(t, "read") /\ UNCHANGED user
    <3>1. Others(t) /\ pc'[t] = "read" /\ call' = call
      BY <1>1, <2>1 DEF Goto, Others, user
    <3> QED
      BY <1>5, <2>1, <3>1 DEF Select, kernel, flags, thread
  <2>2. CASE ~fdOpen /\ Raise(t, "error")
    BY <1>2, <1>5, <2>2 DEF Select, kernel, flags, thread
  <2>3. CASE isalive(t, "post") /\ UNCHANGED user
    <3>1. Others(t) /\ pc'[t] = "alive" /\ ret'[t] = "post" /\ call' = call
      BY <1>1, <2>3 DEF isalive, Others, user
    <3> QED
      BY <1>5, <3>1 DEF Select, kernel, flags, thread
  <2> QED
    BY <1>5, <2>1, <2>2, <2>3 DEF Select
<1>6. CASE Read(t)
  <2>1. CASE fdOpen /\ pty # <<>>
    <3>1. /\ Goto(t, IF t = Drain THEN "put" ELSE "search")
          /\ UNCHANGED <<child, slave, written, fdOpen, flag_eof, call>>
          /\ chunk' # chunk => t = Drain
      BY <1>6, <2>1, TwoThreads DEF Read
    <3>2. Others(t) /\ pc'[t] = IF t = Drain THEN "put" ELSE "search"
      BY <1>1, <3>1 DEF Goto, Others
    <3> QED
      BY <1>6, <3>1, <3>2 DEF Read
  <2>2. CASE ~(fdOpen /\ pty # <<>>)
    <3>1. /\ RaiseEOF(t) \/ (closed /\ Raise(t, "error") /\ UNCHANGED flag_eof)
          /\ UNCHANGED <<kernel, chunk>>
      BY <1>6, <2>2 DEF Read
    <3> QED
      BY <1>2, <1>6, <2>2, <3>1 DEF Read, RaiseEOF, kernel
  <2> QED
    BY <2>1, <2>2
<1> QED
  BY <1>3, <1>4, <1>5, <1>6 DEF ReadSteps

LEMMA MainEffect ==
  ASSUME TypeInv,
         SearchIncoming \/ Get \/ Signal \/ Stop \/ CloseTerminal \/ Shut
  PROVE  /\ Others(Main) /\ (call' = call \/ call' = NoCall)
         /\ UNCHANGED <<child, slave, pty, written, terminated, flag_eof, drainpty, chunk>>
         /\ pc[Main] \in {"search", "get", "signal", "stop", "osclose", "shut"}
         /\ pc'[Main] \in {"idle", "search", "get", "rnb", "alive", "osclose"}
         /\ pc'[Main] = "rnb" => ~drainpty
         /\ pc'[Main] = "alive" => ret'[Main] \in {"check", "last", "close"}
         /\ IF pc[Main] = "osclose" THEN fdOpen' = FALSE ELSE fdOpen' = fdOpen
         /\ IF pc[Main] = "shut" THEN closed' = TRUE ELSE closed' = closed
         /\ IF pc[Main] = "stop" THEN pc'[Main] = "osclose" /\ (keepReading => keepReading' \/ drainpty)
            ELSE pc'[Main] # "osclose" /\ keepReading' = keepReading
         /\ keepReading' => keepReading
         /\ readQueue' # readQueue => pc[Main] = "get" /\ readQueue # <<>>
<1>1. DOMAIN pc = Threads /\ DOMAIN ret = Threads
  BY DEF TypeInv, Places
<1>2. ASSUME NEW r \in Results, Finish(r)
      PROVE  /\ Others(Main) /\ (call' = call \/ call' = NoCall) /\ pc'[Main] = "idle"
  BY <1>1, <1>2, TwoThreads DEF Finish, Goto, Others
<1>3. ASSUME NEW e \in Exceptions, Raise(Main, e)
      PROVE  /\ Others(Main) /\ (call' = call \/ call' = NoCall) /\ pc'[Main] = "idle"
  BY <1>3, RaiseType, TwoThreads DEF Others
<1>4. ASSUME NEW l, NEW r, pc' = [pc EXCEPT ![Main] = l], ret' = [ret EXCEPT ![Main] = r]
      PROVE  Others(Main) /\ pc'[Main] = l /\ ret'[Main] = r
  BY <1>1, <1>4, TwoThreads DEF Others
<1>5. CASE SearchIncoming
  <2>1. CASE Finish("match")
    BY <1>2, <1>5, <2>1 DEF SearchIncoming, Results, kernel, flags, thread
  <2>2. CASE Raise(Main, "TIMEOUT")
    BY <1>3, <1>5, <2>2 DEF SearchIncoming, Exceptions, kernel, flags, thread
  <2>3. CASE Goto(Main, IF drainpty THEN "get" ELSE "rnb") /\ UNCHANGED user
    <3>1. UNCHANGED <<kernel, flags, thread, call>> /\ pc[Main] = "search"
      BY <1>5, <2>3 DEF SearchIncoming, user
    <3>2. CASE drainpty
      <4>1. Goto(Main, "get")
        BY <2>3, <3>2, Zenon
      <4>2. Others(Main) /\ pc'[Main] = "get"
        BY <1>4, <4>1 DEF Goto
      <4> QED
        BY <3>1, <4>2 DEF kernel, flags, thread
    <3>3. CASE ~drainpty
      <4>1. Goto(Main, "rnb")
        BY <2>3, <3>3, Zenon
      <4>2. Others(Main) /\ pc'[Main] = "rnb"
        BY <1>4, <4>1 DEF Goto
      <4> QED
        BY <3>1, <3>3, <4>2 DEF kernel, flags, thread
    <3> QED
      BY <3>2, <3>3
  <2> QED
    BY <1>5, <2>1, <2>2, <2>3 DEF SearchIncoming
<1>6. CASE Get
  <2>1. Others(Main) /\ pc'[Main] = "search"
    BY <1>4, <1>6 DEF Get, Goto
  <2> QED
    BY <1>6, <2>1 DEF Get, kernel, flags
<1>7. CASE Signal
  <2>1. Others(Main) /\ pc'[Main] = "alive" /\ ret'[Main] \in {"check", "last"}
    BY <1>4, <1>7 DEF Signal, isalive
  <2> QED
    BY <1>7, <2>1 DEF Signal, flags, thread
<1>8. CASE Stop
  <2>1. Others(Main) /\ pc'[Main] = "osclose"
    BY <1>4, <1>8 DEF Stop, Goto
  <2> QED
    BY <1>8, <2>1 DEF Stop, kernel, flags, user
<1>9. CASE CloseTerminal
  <2>1. CASE isalive(Main, "close") /\ UNCHANGED user
    <3>1. Others(Main) /\ pc'[Main] = "alive" /\ ret'[Main] = "close" /\ call' = call
      BY <1>4, <2>1 DEF isalive, user
    <3> QED
      BY <1>9, <3>1 DEF CloseTerminal, flags, thread
  <2>2. CASE Raise(Main, "error")
    BY <1>3, <1>9, <2>2 DEF CloseTerminal, Exceptions, flags, thread
  <2> QED
    BY <1>9, <2>1, <2>2 DEF CloseTerminal
<1>10. CASE Shut
  BY <1>2, <1>10 DEF Shut, Results, kernel, thread
<1> QED
  BY <1>5, <1>6, <1>7, <1>8, <1>9, <1>10

LEMMA ProgramEffect ==
  ASSUME TypeInv, Program
  PROVE  /\ UNCHANGED <<kernel, flags, thread>>
         /\ pc[Main] = "idle"
         /\ pc'[Main] \in {"idle", "search", "alive", "stop"}
         /\ pc'[Main] = "alive" => ret'[Main] \in {"user", "wait", "term"}
         /\ call'.op = "close" => pc'[Main] = "stop"
         /\ \/ pc'[Drain] = pc[Drain]
            \/ pc[Drain] = "unborn" /\ drainpty /\ pc'[Drain] = "boot"
         /\ ret'[Drain] = ret[Drain]
<1>1. DOMAIN pc = Threads /\ DOMAIN ret = Threads
  BY DEF TypeInv, Places
<1>2. ASSUME NEW l, NEW r, pc' = [pc EXCEPT ![Main] = l], ret' = [ret EXCEPT ![Main] = r]
      PROVE  /\ pc'[Main] = l /\ ret'[Main] = r
             /\ pc'[Drain] = pc[Drain] /\ ret'[Drain] = ret[Drain]
  BY <1>1, <1>2, TwoThreads
<1>3. CASE IsAlive
  BY <1>2, <1>3 DEF IsAlive, Begin, CallOf, isalive
<1>4. CASE Wait
  BY <1>2, <1>4 DEF Wait, Begin, CallOf, isalive
<1>5. CASE Terminate
  <2>1. PICK f \in BOOLEAN : /\ Begin(CallOf("terminate", f))
                             /\ isalive(Main, "term")
                             /\ UNCHANGED <<kernel, flags, thread, loop>>
    BY <1>5 DEF Terminate
  <2> QED
    BY <1>2, <2>1 DEF Begin, CallOf, isalive
<1>6. CASE Close
  <2>1. PICK f \in BOOLEAN : /\ Begin(CallOf("close", f))
                             /\ Goto(Main, "stop")
                             /\ UNCHANGED <<kernel, flags, thread, loop>>
    BY <1>6 DEF Close
  <2> QED
    BY <1>2, <2>1 DEF Begin, CallOf, Goto
<1>7. CASE Expect
  <2>1. PICK s \in Searches, t \in BOOLEAN :
      /\ pc[Main] = "idle"
      /\ IF drainpty /\ pc[Drain] = "boot"
         THEN UNCHANGED <<call, control>>
         ELSE /\ call' = [op |-> "expect", search |-> s, timed |-> t, force |-> FALSE]
              /\ pc' = [pc EXCEPT ![Main] = "search",
                                  ![Drain] = IF drainpty /\ @ = "unborn" THEN "boot"
                                             ELSE @]
              /\ UNCHANGED ret
      /\ UNCHANGED <<kernel, flags, thread>>
    BY <1>7 DEF Expect
  <2>2. CASE drainpty /\ pc[Drain] = "boot"
    <3>1. call.op # "close"
      BY <2>1 DEF TypeInv, Places, MainAt, InIsalive
    <3> QED
      BY <2>1, <2>2, <3>1 DEF control
  <2>3. CASE ~(drainpty /\ pc[Drain] = "boot")
    <3>1. /\ pc' = [pc EXCEPT ![Main] = "search",
                              ![Drain] = IF drainpty /\ @ = "unborn" THEN "boot" ELSE @]
          /\ ret' = ret /\ call'.op = "expect"
      BY <2>1, <2>3
    <3>2. CASE drainpty /\ pc[Drain] = "unborn"
      BY <1>1, <2>1, <3>1, <3>2, TwoThreads
    <3>3. CASE ~(drainpty /\ pc[Drain] = "unborn")
      BY <1>1, <2>1, <3>1, <3>3, TwoThreads
    <3> QED
      BY <3>2, <3>3
  <2> QED
    BY <2>2, <2>3
<1> QED
  BY <1>3, <1>4, <1>5, <1>6, <1>7 DEF Program

LEMMA ThreadEffect ==
  ASSUME TypeInv,
         ThreadStarts \/ ThreadLoops \/ ThreadPuts \/ ThreadSeesEOF \/ ThreadEnds
  PROVE  /\ Others(Drain) /\ UNCHANGED <<kernel, closed, terminated, flag_eof, user>>
         /\ pc[Drain] \in {"boot", "loop", "put", "eof", "end"}
         /\ pc'[Drain] \in {"loop", "rnb", "end", "done"}
         /\ pc[Drain] = "boot" => UNCHANGED <<thread, drainpty>> /\ pc'[Drain] = "loop"
         /\ pc'[Drain] = "end" => ~keepReading'
         /\ pc[Drain] # "put" => chunk' = chunk
         /\ pc[Drain] = "put" => chunk' = <<>>
         /\ IF pc'[Drain] = "done" THEN pc[Drain] = "end" /\ drainpty' = FALSE
            ELSE drainpty' = drainpty
         /\ \/ keepReading' = keepReading
            \/ pc[Drain] = "eof" /\ keepReading' = FALSE
<1>1. DOMAIN pc = Threads /\ DOMAIN ret = Threads
  BY DEF TypeInv, Places
<1>2. ASSUME NEW l, Goto(Drain, l)
      PROVE  Others(Drain) /\ pc'[Drain] = l
  BY <1>1, <1>2, TwoThreads DEF Others, Goto
<1>3. CASE ThreadStarts
  BY <1>2, <1>3 DEF ThreadStarts, flags, thread
<1>4. CASE ThreadLoops
  <2>1. UNCHANGED <<kernel, flags, thread, user>> /\ pc[Drain] = "loop"
    BY <1>4 DEF ThreadLoops
  <2>2. CASE keepReading
    <3>1. Goto(Drain, "rnb")
      BY <1>4, <2>2, Zenon DEF ThreadLoops
    <3> QED
      BY <1>2, <2>1, <3>1 DEF flags, thread
  <2>3. CASE ~keepReading
    <3>1. Goto(Drain, "end")
      BY <1>4, <2>3, Zenon DEF ThreadLoops
    <3> QED
      BY <1>2, <2>1, <2>3, <3>1 DEF flags, thread
  <2> QED
    BY <2>2, <2>3
<1>5. CASE ThreadPuts
  BY <1>2, <1>5 DEF ThreadPuts, flags
<1>6. CASE ThreadSeesEOF
  BY <1>2, <1>6 DEF ThreadSeesEOF, flags
<1>7. CASE ThreadEnds
  BY <1>2, <1>7 DEF ThreadEnds, thread
<1> QED
  BY <1>3, <1>4, <1>5, <1>6, <1>7

-----------------------------------------------------------------------------
(* The two threads, the child and the terminal: what holds between them.   *)

(* A thread in read_nonblocking.                                           *)
Reads(t) ==
  \/ pc[t] \in {"rnb", "poll", "select", "read"}
  \/ pc[t] \in InIsalive /\ ret[t] \in {"pre", "post"}

(* Who has the status of the child in hand is alone, and has not stored it. *)
Reaper ==
  /\ ReapedOnce
  /\ \A t \in Threads : pc[t] = "reaped" =>
       /\ child = "reaped" /\ ~terminated
       /\ \A u \in Threads \ {t} : pc[u] # "reaped"

Closing ==
  /\ closed => ~fdOpen
  /\ call.op = "close" => pc[Main] \in {"stop", "osclose"} \/ ~fdOpen

(* There is one reader: the program reads only when the thread does not,   *)
(* and the thread never comes back.                                        *)
Solo ==
  /\ Reads(Main) => ~drainpty
  /\ ~drainpty => pc[Drain] \in {"unborn", "done"}

(* So what select saw is there when it is read,                            *)
AtRead == \A t \in Threads : pc[t] = "read" => Readable \/ ~fdOpen

(* and a child the program found running is there to be waited for again.  *)
Alone == Reads(Main) /\ pc[Main] = "again" => child # "reaped"

(* The thread ends by itself, and its queue is as it left it.              *)
Ending ==
  /\ \A t \in Threads : (pc[t] = "reap" => flag_eof) /\ (pc[t] = "poll" => terminated)
  /\ pc[Drain] = "eof" => flag_eof
  /\ pc[Drain] = "end" => ~keepReading
  /\ ~keepReading => Over \/ pc[Main] = "osclose"
  /\ pc[Drain] = "done" => Over \/ pc[Main] = "osclose"
  /\ pc[Drain] \in {"unborn", "boot"} => readQueue = <<>>
  /\ pc[Drain] # "put" => chunk = <<>>

Shared == Reaper /\ Closing /\ Solo /\ AtRead /\ Alone /\ Ending
SharedInv == TypeInv /\ Shared /\ EofJustified /\ ThreadDiesLate

(* A step of isalive, of either thread.                                    *)
LEMMA AliveShared ==
  ASSUME SharedInv, NEW t \in Threads, AliveSteps(t)
  PROVE  Shared' /\ EofJustified' /\ ThreadDiesLate'
<1>1. /\ UNCHANGED <<slave, pty, written, fdOpen, closed, drainpty, thread>>
      /\ pc[t] \in InIsalive \cup {"waitpid"}
      /\ Answering(t) \/ Inside(t)
      /\ TypeInv /\ Reaper /\ Closing /\ Solo /\ AtRead /\ Alone /\ Ending
      /\ EofJustified /\ ThreadDiesLate
  BY AliveEffect DEF SharedInv, Shared
<1>2. Others(t) /\ (call' = call \/ call' = NoCall)
  BY <1>1 DEF Answering, Inside
<1>3. Reaper'
  <2>1. \A u \in Threads : u # t => pc'[u] = pc[u]
    BY <1>2 DEF Others
  <2>2. CASE pc'[t] = "reaped"
    <3>1. child = "zombie" /\ child' = "reaped" /\ terminated' = terminated /\ ~terminated
      BY <1>1, <2>2 DEF Answering, Inside, Reaper, ReapedOnce
    <3>2. \A u \in Threads : u # t => pc'[u] # "reaped"
      BY <1>1, <2>1, <3>1 DEF Reaper
    <3> QED
      BY <2>2, <3>1, <3>2 DEF Reaper, ReapedOnce
  <2>3. CASE pc'[t] # "reaped" /\ pc[t] = "reaped"
    <3>1. child' = "reaped" /\ child = "reaped" /\ terminated'
      BY <1>1, <2>3 DEF Answering, Inside, Reaper
    <3>2. \A u \in Threads : pc'[u] # "reaped"
      BY <1>1, <2>1, <2>3 DEF Reaper
    <3> QED
      BY <3>1, <3>2 DEF Reaper, ReapedOnce
  <2>4. CASE pc'[t] # "reaped" /\ pc[t] # "reaped"
    <3>1. child' = child /\ terminated' = terminated
      BY <1>1, <2>4 DEF Answering, Inside
    <3>2. \A u \in Threads : pc'[u] = "reaped" <=> pc[u] = "reaped"
      BY <2>1, <2>4
    <3> QED
      BY <1>1, <3>1, <3>2 DEF Reaper, ReapedOnce
  <2> QED
    BY <2>2, <2>3, <2>4
<1>4. Closing'
  BY <1>1, <1>2, TwoThreads DEF Closing, Others, InIsalive, NoCall, CallOf
<1>5. /\ Reads(Main)' => Reads(Main)
      /\ t = Drain => pc[Drain] \notin {"unborn", "done"}
  BY <1>1, TwoThreads DEF Reads, Answering, Inside, Others, InIsalive
<1>6. Solo'
  BY <1>1, <1>2, <1>5, TwoThreads DEF Solo, Others
<1>7. AtRead'
  BY <1>1, TwoThreads DEF AtRead, Readable, Answering, Inside, Others
<1>8. Alone'
  <2>1. CASE t = Main
    BY <1>1, <2>1, TwoThreads DEF Alone, Answering, Inside
  <2>2. CASE t = Drain
    BY <1>1, <1>2, <1>5, <2>2, TwoThreads DEF Alone, Solo, Others
  <2> QED
    BY <2>1, <2>2, TwoThreads
<1>9. flag_eof => flag_eof'
  BY <1>1 DEF Answering, Inside
<1>10. EofJustified'
  BY <1>1, <1>3 DEF EofJustified, Reaper, ReapedOnce, Answering, Inside
<1>11. ThreadDiesLate'
  BY <1>1, TwoThreads DEF ThreadDiesLate, Answering, Inside, Others
<1>12. Ending'
  <2>1. Over => Over'
    BY <1>1, <1>9 DEF Over
  <2>2. UNCHANGED <<keepReading, readQueue, chunk>>
    BY <1>1 DEF thread
  <2>3. pc[t] \notin {"osclose", "put"}
    BY <1>1 DEF InIsalive
  <2>4. pc'[t] \notin {"osclose", "put", "done", "end", "unborn", "boot"}
    BY <1>1 DEF Answering, Inside
  <2>5. terminated => terminated'
    BY <1>1 DEF Answering, Inside
  <2>6. /\ pc'[t] = "reap" => flag_eof'
        /\ pc'[t] = "eof" => flag_eof'
        /\ pc'[t] = "poll" => terminated'
    BY <1>1 DEF Answering, Inside
  <2>7. \A u \in Threads : (pc'[u] = "reap" => flag_eof') /\ (pc'[u] = "poll" => terminated')
    BY <1>1, <1>2, <1>9, <2>5, <2>6 DEF Ending, Others
  <2>8. CASE t = Main
    BY <1>1, <1>2, <1>9, <2>1, <2>2, <2>3, <2>4, <2>7, <2>8, TwoThreads DEF Ending, Others
  <2>9. CASE t = Drain
    BY <1>1, <1>2, <1>9, <2>1, <2>2, <2>3, <2>4, <2>6, <2>7, <2>9, TwoThreads DEF Ending, Others
  <2> QED
    BY <2>8, <2>9, TwoThreads
<1> QED
  BY <1>3, <1>4, <1>6, <1>7, <1>8, <1>10, <1>11, <1>12 DEF Shared

(* A step that reaps nobody keeps what is said of reaping.                 *)
LEMMA ReaperKept ==
  ASSUME Reaper, UNCHANGED terminated,
         child' = child \/ (child = "running" /\ child' = "zombie"),
         \A u \in Threads : pc'[u] = "reaped" <=> pc[u] = "reaped"
  PROVE  Reaper'
  BY DEF Reaper, ReapedOnce

LEMMA ReadShared ==
  ASSUME SharedInv, NEW t \in Threads, ReadSteps(t)
  PROVE  Shared' /\ EofJustified' /\ ThreadDiesLate'
<1>1. /\ TypeInv /\ Reaper /\ Closing /\ Solo /\ AtRead /\ Alone /\ Ending
      /\ EofJustified /\ ThreadDiesLate
  BY DEF SharedInv, Shared
<1>2. /\ Others(t) /\ (call' = call \/ call' = NoCall)
      /\ UNCHANGED <<child, slave, written, fdOpen, closed, terminated, drainpty,
                     keepReading, readQueue>>
      /\ pc[t] \in {"rnb", "poll", "select", "read"}
      /\ pc'[t] \in {"idle", "search", "put", "alive", "select", "read", "eof",
                     "crashed"}
      /\ pc'[t] = "alive" => ret'[t] \in {"pre", "post"}
      /\ pc'[t] = "read" => Readable
      /\ pty' # pty => pc[t] = "read" /\ pc'[t] \in {"search", "put"}
      /\ chunk' # chunk => t = Drain /\ pc'[t] = "put"
      /\ pc'[t] = "crashed" => ~fdOpen \/ closed
      /\ pc'[t] = "eof" => flag_eof'
      /\ flag_eof => flag_eof'
      /\ flag_eof' => \/ flag_eof
                      \/ pc[t] = "poll" /\ ~Readable
                      \/ pc[t] = "read" /\ (~fdOpen \/ pty = <<>>)
  BY <1>1, ReadEffect
<1>3. Reaper'
  <2>1. \A u \in Threads : pc'[u] = "reaped" <=> pc[u] = "reaped"
    BY <1>2 DEF Others
  <2>2. child' = child /\ UNCHANGED terminated
    BY <1>2
  <2> QED
    BY <1>1, <2>1, <2>2, ReaperKept
<1>4. Closing'
  BY <1>1, <1>2, TwoThreads DEF Closing, Others, NoCall, CallOf
<1>5. /\ Reads(Main)' => Reads(Main)
      /\ t = Drain => pc[Drain] \notin {"unborn", "done"}
  BY <1>2, TwoThreads DEF Reads, Others, InIsalive
<1>6. Solo'
  BY <1>1, <1>2, <1>5, TwoThreads DEF Solo, Others
<1>7. AtRead'
  <2>1. ASSUME NEW u \in Threads, pc'[u] = "read" PROVE Readable' \/ ~fdOpen'
    <3>1. CASE u = t
      <4>1. pty' = pty /\ Readable
        BY <1>2, <2>1, <3>1
      <4> QED
        BY <1>2, <4>1 DEF Readable
    <3>2. CASE u # t
      <4>1. pc[u] = "read"
        BY <1>2, <2>1, <3>2 DEF Others
      <4>2. pc[t] # "read"
        BY <1>1, <1>2, <3>2, <4>1, TwoThreads DEF Solo, Reads
      <4>3. pty' = pty
        BY <1>2, <4>2
      <4> QED
        BY <1>1, <1>2, <4>1, <4>3 DEF AtRead, Readable
    <3> QED
      BY <3>1, <3>2
  <2> QED
    BY <2>1 DEF AtRead
<1>8. Alone'
  BY <1>1, <1>2, <1>5, TwoThreads DEF Alone, Others
<1>9. EofJustified'
  <2>1. pc[t] = "poll" => child # "running"
    BY <1>1 DEF Ending, Reaper, ReapedOnce
  <2>2. pc[t] = "read" /\ (~fdOpen \/ pty = <<>>) => ~slave \/ ~fdOpen
    BY <1>1 DEF AtRead, Readable
  <2> QED
    BY <1>1, <1>2, <2>1, <2>2 DEF EofJustified
<1>10. ThreadDiesLate'
  BY <1>1, <1>2, TwoThreads DEF ThreadDiesLate, Closing, Others
<1>11. Ending'
  BY <1>1, <1>2, TwoThreads DEF Ending, Over, Others
<1> QED
  BY <1>3, <1>4, <1>6, <1>7, <1>8, <1>9, <1>10, <1>11 DEF Shared

LEMMA MainShared ==
  ASSUME SharedInv,
         SearchIncoming \/ Get \/ Signal \/ Stop \/ CloseTerminal \/ Shut
  PROVE  Shared' /\ EofJustified' /\ ThreadDiesLate'
<1>1. /\ TypeInv /\ Reaper /\ Closing /\ Solo /\ AtRead /\ Alone /\ Ending
      /\ EofJustified /\ ThreadDiesLate
  BY DEF SharedInv, Shared
<1>2. /\ Others(Main) /\ (call' = call \/ call' = NoCall)
      /\ UNCHANGED <<child, slave, pty, written, terminated, flag_eof, drainpty, chunk>>
      /\ pc[Main] \in {"search", "get", "signal", "stop", "osclose", "shut"}
      /\ pc'[Main] \in {"idle", "search", "get", "rnb", "alive", "osclose"}
      /\ pc'[Main] = "rnb" => ~drainpty
      /\ pc'[Main] = "alive" => ret'[Main] \in {"check", "last", "close"}
      /\ IF pc[Main] = "osclose" THEN fdOpen' = FALSE ELSE fdOpen' = fdOpen
      /\ IF pc[Main] = "shut" THEN closed' = TRUE ELSE closed' = closed
      /\ IF pc[Main] = "stop" THEN pc'[Main] = "osclose" /\ (keepReading => keepReading' \/ drainpty)
         ELSE pc'[Main] # "osclose" /\ keepReading' = keepReading
      /\ keepReading' => keepReading
      /\ readQueue' # readQueue => pc[Main] = "get" /\ readQueue # <<>>
  BY <1>1, MainEffect
<1>3. pc'[Drain] = pc[Drain] /\ ret'[Drain] = ret[Drain]
  BY <1>2, TwoThreads DEF Others
<1>4. Reaper'
  <2>1. \A u \in Threads : pc'[u] = "reaped" <=> pc[u] = "reaped"
    BY <1>2, <1>3, TwoThreads
  <2>2. child' = child /\ UNCHANGED terminated
    BY <1>2
  <2> QED
    BY <1>1, <2>1, <2>2, ReaperKept
<1>5. fdOpen' => fdOpen /\ pc[Main] # "osclose"
  BY <1>2
<1>6. Closing'
  <2>1. closed' => ~fdOpen'
    <3>1. pc[Main] = "shut" => call.op = "close"
      BY <1>1 DEF TypeInv, Places, MainAt, InIsalive
    <3> QED
      BY <1>1, <1>2, <1>5, <3>1 DEF Closing
  <2>2. call'.op = "close" => pc'[Main] \in {"stop", "osclose"} \/ ~fdOpen'
    BY <1>1, <1>2, <1>5 DEF Closing, NoCall, CallOf
  <2> QED
    BY <2>1, <2>2 DEF Closing
<1>7. Solo'
  BY <1>1, <1>2, <1>3 DEF Solo, Reads, InIsalive
<1>8. AtRead'
  BY <1>1, <1>2, <1>3, <1>5, TwoThreads DEF AtRead, Readable
<1>9. Alone'
  BY <1>2 DEF Alone
<1>10. EofJustified' /\ ThreadDiesLate'
  BY <1>1, <1>2, <1>3, <1>5 DEF EofJustified, ThreadDiesLate
<1>11. Ending'
  <2>1. pc[Main] = "osclose" => Over'
    BY <1>2 DEF Over
  <2>2. Over => Over'
    BY <1>2, <1>5 DEF Over
  <2>3. pc'[Main] # "reap"
    BY <1>2
  <2>4. ~keepReading' => Over' \/ pc'[Main] = "osclose"
    BY <1>1, <1>2, <2>1, <2>2 DEF Ending
  <2> QED
    BY <1>1, <1>2, <1>3, <2>1, <2>2, <2>3, <2>4, TwoThreads DEF Ending
<1> QED
  BY <1>4, <1>6, <1>7, <1>8, <1>9, <1>10, <1>11 DEF Shared

LEMMA ProgramShared ==
  ASSUME SharedInv, Program
  PROVE  Shared' /\ EofJustified' /\ ThreadDiesLate'
<1>1. /\ TypeInv /\ Reaper /\ Closing /\ Solo /\ AtRead /\ Alone /\ Ending
      /\ EofJustified /\ ThreadDiesLate
  BY DEF SharedInv, Shared
<1>2. /\ UNCHANGED <<kernel, flags, thread>>
      /\ pc[Main] = "idle"
      /\ pc'[Main] \in {"idle", "search", "alive", "stop"}
      /\ pc'[Main] = "alive" => ret'[Main] \in {"user", "wait", "term"}
      /\ call'.op = "close" => pc'[Main] = "stop"
      /\ \/ pc'[Drain] = pc[Drain]
         \/ pc[Drain] = "unborn" /\ drainpty /\ pc'[Drain] = "boot"
      /\ ret'[Drain] = ret[Drain]
  BY <1>1, ProgramEffect
<1>3. Reaper'
  <2>1. \A u \in Threads : pc'[u] = "reaped" <=> pc[u] = "reaped"
    BY <1>2, TwoThreads
  <2>2. child' = child /\ UNCHANGED terminated
    BY <1>2 DEF kernel, flags
  <2> QED
    BY <1>1, <2>1, <2>2, ReaperKept
<1>4. Closing' /\ Solo' /\ Alone' /\ EofJustified' /\ ThreadDiesLate'
  BY <1>1, <1>2 DEF Closing, Solo, Alone, Reads, EofJustified, ThreadDiesLate, InIsalive,
                    kernel, flags
<1>5. AtRead'
  BY <1>1, <1>2, TwoThreads DEF AtRead, Readable, kernel
<1>6. Ending'
  BY <1>1, <1>2, TwoThreads DEF Ending, Over, kernel, flags, thread
<1> QED
  BY <1>3, <1>4, <1>5, <1>6 DEF Shared

LEMMA ThreadShared ==
  ASSUME SharedInv,
         ThreadStarts \/ ThreadLoops \/ ThreadPuts \/ ThreadSeesEOF \/ ThreadEnds
  PROVE  Shared' /\ EofJustified' /\ ThreadDiesLate'
<1>1. /\ TypeInv /\ Reaper /\ Closing /\ Solo /\ AtRead /\ Alone /\ Ending
      /\ EofJustified /\ ThreadDiesLate
  BY DEF SharedInv, Shared
<1>2. /\ Others(Drain) /\ UNCHANGED <<kernel, closed, terminated, flag_eof, user>>
      /\ pc[Drain] \in {"boot", "loop", "put", "eof", "end"}
      /\ pc'[Drain] \in {"loop", "rnb", "end", "done"}
      /\ pc[Drain] = "boot" => UNCHANGED <<thread, drainpty>> /\ pc'[Drain] = "loop"
      /\ pc'[Drain] = "end" => ~keepReading'
      /\ pc[Drain] # "put" => chunk' = chunk
      /\ pc[Drain] = "put" => chunk' = <<>>
      /\ IF pc'[Drain] = "done" THEN pc[Drain] = "end" /\ drainpty' = FALSE
         ELSE drainpty' = drainpty
      /\ \/ keepReading' = keepReading
         \/ pc[Drain] = "eof" /\ keepReading' = FALSE
  BY <1>1, ThreadEffect
<1>3. pc'[Main] = pc[Main] /\ ret'[Main] = ret[Main] /\ call' = call
  BY <1>2, TwoThreads DEF Others, user
<1>4. Reaper'
  <2>1. \A u \in Threads : pc'[u] = "reaped" <=> pc[u] = "reaped"
    BY <1>2, <1>3, TwoThreads
  <2>2. child' = child /\ UNCHANGED terminated
    BY <1>2 DEF kernel
  <2> QED
    BY <1>1, <2>1, <2>2, ReaperKept
<1>5. Closing' /\ EofJustified' /\ ThreadDiesLate'
  BY <1>1, <1>2, <1>3 DEF Closing, EofJustified, ThreadDiesLate, kernel
<1>6. Solo'
  <2>1. CASE pc'[Drain] = "done"
    BY <1>2, <2>1 DEF Solo
  <2>2. CASE pc'[Drain] # "done"
    BY <1>1, <1>2, <1>3, <2>2 DEF Solo, Reads
  <2> QED
    BY <2>1, <2>2
<1>7. Alone' /\ AtRead'
  BY <1>1, <1>2, <1>3, TwoThreads DEF Alone, AtRead, Reads, Readable, kernel
<1>8. Ending'
  <2>1. Over => Over'
    BY <1>2 DEF Over, kernel
  <2>2. pc[Drain] = "eof" => Over
    BY <1>1 DEF Ending, Over
  <2>3. ~keepReading' => Over' \/ pc'[Main] = "osclose"
    BY <1>1, <1>2, <1>3, <2>1, <2>2 DEF Ending
  <2>4. pc'[Drain] = "done" => Over' \/ pc'[Main] = "osclose"
    BY <1>1, <1>2, <1>3, <2>1 DEF Ending
  <2>5. chunk' = <<>>
    BY <1>1, <1>2 DEF Ending
  <2>6. terminated' = terminated /\ flag_eof' = flag_eof
    BY <1>2
  <2> QED
    BY <1>1, <1>2, <1>3, <2>3, <2>4, <2>5, <2>6, TwoThreads DEF Ending
<1> QED
  BY <1>4, <1>5, <1>6, <1>7, <1>8 DEF Shared

LEMMA ChildShared ==
  ASSUME SharedInv, Child
  PROVE  Shared' /\ EofJustified' /\ ThreadDiesLate'
<1>1. /\ TypeInv /\ Reaper /\ Closing /\ Solo /\ AtRead /\ Alone /\ Ending
      /\ EofJustified /\ ThreadDiesLate
  BY DEF SharedInv, Shared
<1>2. /\ UNCHANGED <<fdOpen, flags, thread, user, control>>
      /\ child' = child \/ (child = "running" /\ child' = "zombie")
      /\ slave' => slave
      /\ pty' = pty \/ pty' # <<>>
  <2>1. CASE Write
    <3>1. pty' = Append(pty, Output[Len(written) + 1])
      BY <2>1 DEF Write
    <3>2. pty' # <<>>
      BY <1>1, <3>1 DEF TypeInv, KernelOK
    <3>3. UNCHANGED <<child, slave, fdOpen, flags, thread, user, control>>
      BY <2>1 DEF Write
    <3> QED
      BY <3>2, <3>3
  <2>2. CASE HangUp
    BY <2>2 DEF HangUp
  <2>3. CASE Exit
    <3>1. slave' = FALSE \/ slave' = slave
      BY <2>3 DEF Exit
    <3>2. slave' => slave
      BY <3>1, Zenon
    <3> QED
      BY <2>3, <3>2 DEF Exit
  <2> QED
    BY <2>1, <2>2, <2>3 DEF Child
<1>3. Reaper'
  BY <1>1, <1>2, ReaperKept DEF flags, control
<1>4. Closing' /\ Solo' /\ Alone' /\ EofJustified' /\ ThreadDiesLate'
  BY <1>1, <1>2 DEF Closing, Solo, Alone, Reads, EofJustified, ThreadDiesLate,
                    flags, control, user
<1>5. AtRead'
  BY <1>1, <1>2 DEF AtRead, Readable, control
<1>6. Ending'
  BY <1>1, <1>2 DEF Ending, Over, flags, thread, control
<1> QED
  BY <1>3, <1>4, <1>5, <1>6 DEF Shared

LEMMA SharedInit == Init => SharedInv
<1> SUFFICES ASSUME Init PROVE SharedInv
  OBVIOUS
<1>1. TypeInv
  BY InitType
<1>2. Shared
  BY TwoThreads
  DEF Init, Shared, Reaper, ReapedOnce, Closing, Solo, AtRead, Alone, Ending, Reads,
      Over, InIsalive, NoCall, CallOf
<1>3. EofJustified /\ ThreadDiesLate
  BY TwoThreads DEF Init, EofJustified, ThreadDiesLate
<1> QED
  BY <1>1, <1>2, <1>3 DEF SharedInv

LEMMA SharedNext == SharedInv /\ [Next]_vars => SharedInv'
<1> SUFFICES ASSUME SharedInv, [Next]_vars PROVE SharedInv'
  OBVIOUS
<1>1. TypeInv'
  BY NextType DEF SharedInv
<1>2. CASE UNCHANGED vars
  BY <1>2 DEF SharedInv, Shared, EofJustified, ThreadDiesLate, Reaper, ReapedOnce,
              Closing, Solo, AtRead, Alone, Ending, Reads, Over, Readable, InIsalive,
              vars, kernel, flags, thread, user, loop, control, TypeInv, UserOK,
              KernelOK, FlagsOK, ThreadOK, Places, MainAt, DrainAt, Armed
<1> QED
  BY <1>1, <1>2, AliveShared, ReadShared, MainShared, ProgramShared, ThreadShared,
     ChildShared, TwoThreads
  DEF SharedInv, Next, MainStep, ThreadStep

LEMMA SharedAlways == Spec => []SharedInv
  BY SharedInit, SharedNext, PTL DEF Spec

(* Of the two threads one waits for the child, once, and terminated says so *)
(* no earlier than it is true (isalive, pexpect.py).                       *)
THEOREM Reaped == Spec => []ReapedOnce
<1>1. SharedInv => ReapedOnce
  BY DEF SharedInv, Shared, Reaper
<1> QED
  BY <1>1, SharedAlways, PTL

(* flag_eof is not set by a read that only failed.                         *)
THEOREM EofIsTheEnd == Spec => []EofJustified
<1>1. SharedInv => EofJustified
  BY DEF SharedInv
<1> QED
  BY <1>1, SharedAlways, PTL

(* No step of the program but close() or a wait for the child makes the    *)
(* thread die of an exception.                                             *)
THEOREM DiesLate == Spec => []ThreadDiesLate
<1>1. SharedInv => ThreadDiesLate
  BY DEF SharedInv
<1> QED
  BY <1>1, SharedAlways, PTL
=============================================================================
