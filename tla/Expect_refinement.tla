------------------------- MODULE Expect_refinement -------------------------
(***************************************************************************)
(* Theorems about what the program is given by class spawn (module Expect): *)
(* the two searchers agree, nothing read is lost or handed out twice, and  *)
(* the spawn with its thread and its queue implements a stream (module     *)
(* Stream).                                                                *)
(***************************************************************************)
EXTENDS Expect_proofs

-----------------------------------------------------------------------------
(* Strings laid end to end: FlattenSeq, which is defined by recursion.     *)

Cat(s, t) == s \o t

LEMMA Assoc ==
  ASSUME NEW T, NEW s \in Seq(T), NEW t \in Seq(T), NEW u \in Seq(T)
  PROVE  Cat(Cat(s, t), u) = Cat(s, Cat(t, u))
  BY ConcatAssociative DEF Cat

LEMMA CatType ==
  ASSUME NEW T, NEW s \in Seq(T), NEW t \in Seq(T)
  PROVE  Cat(s, t) \in Seq(T)
  BY ConcatProperties DEF Cat

(* f[i] is the first i elements of q laid end to end, as far as n.         *)
LaidTo(q, n, f) ==
  /\ DOMAIN f = 1 .. n
  /\ \A i \in 1 .. n : f[i] = IF i = 1 THEN q[i] ELSE Cat(f[i - 1], q[i])
Laid(q, f) == LaidTo(q, Len(q), f)

LEMMA LaidExists ==
  ASSUME NEW T, NEW q \in Seq(Seq(T)), q # <<>>
  PROVE  \E f : f = [i \in 1 .. Len(q) |-> IF i = 1 THEN q[i] ELSE Cat(f[i - 1], q[i])]
<1> DEFINE N == {n \in Nat : n = 0 \/ \E f : LaidTo(q, n, f)}
<1>1. Len(q) \in Nat /\ Len(q) > 0
  OBVIOUS
<1>2. 0 \in N
  OBVIOUS
<1>3. ASSUME NEW n \in N PROVE n + 1 \in N
  <2>0. n \in Nat
    OBVIOUS
  <2>1. CASE n = 0
    <3> DEFINE g == [i \in 1 .. 1 |-> q[1]]
    <3>1. LaidTo(q, 1, g)
      BY DEF LaidTo
    <3> QED
      BY <2>1, <3>1
  <2>2. CASE n # 0
    <3>1. PICK f : LaidTo(q, n, f)
      BY <2>2
    <3> DEFINE g == [i \in 1 .. (n + 1) |-> IF i = n + 1 THEN Cat(f[n], q[n + 1]) ELSE f[i]]
    <3>2. LaidTo(q, n + 1, g)
      <4>1. DOMAIN g = 1 .. (n + 1)
        OBVIOUS
      <4>2. g[n + 1] = Cat(f[n], q[n + 1]) /\ \A i \in 1 .. n : g[i] = f[i]
        <5>1. n + 1 \in 1 .. (n + 1) /\ \A i \in 1 .. n : i \in 1 .. (n + 1) /\ i # n + 1
          BY <2>0
        <5> QED
          BY <5>1, Zenon
      <4> HIDE DEF g
      <4>3. ASSUME NEW i \in 1 .. (n + 1)
            PROVE  g[i] = IF i = 1 THEN q[i] ELSE Cat(g[i - 1], q[i])
        <5>1. CASE i = n + 1
          <6>1. i # 1 /\ n \in 1 .. n /\ i - 1 = n
            BY <2>0, <2>2, <5>1
          <6> QED
            BY <4>2, <5>1, <6>1
        <5>2. CASE i # n + 1
          <6>1. i \in 1 .. n /\ (i # 1 => i - 1 \in 1 .. n)
            BY <2>0, <5>2
          <6> QED
            BY <3>1, <4>2, <6>1 DEF LaidTo
        <5> QED
          BY <5>1, <5>2
      <4> QED
        BY <4>1, <4>3 DEF LaidTo
    <3> HIDE DEF g
    <3> QED
      BY <3>2
  <2> QED
    BY <2>1, <2>2
<1>4. Len(q) \in N
  <2>1. N \subseteq Nat
    OBVIOUS
  <2> HIDE DEF N
  <2> QED
    BY <1>1, <1>2, <1>3, <2>1, NatSet
<1>5. PICK f : LaidTo(q, Len(q), f)
  BY <1>1, <1>4
<1> DEFINE g == [i \in 1 .. Len(q) |-> f[i]]
           h == [i \in 1 .. Len(q) |-> IF i = 1 THEN q[i] ELSE Cat(g[i - 1], q[i])]
<1>6. ASSUME NEW i \in 1 .. Len(q) PROVE g[i] = h[i]
  <2>1. f[i] = IF i = 1 THEN q[i] ELSE Cat(f[i - 1], q[i])
    BY <1>5 DEF LaidTo
  <2>2. i # 1 => g[i - 1] = f[i - 1]
    BY <1>1
  <2>3. g[i] = f[i]
    OBVIOUS
  <2> HIDE DEF g
  <2> QED
    BY <2>1, <2>2, <2>3
<1>7. g = h
  BY <1>6
<1> HIDE DEF g
<1> QED
  BY <1>7

LEMMA FlattenIsLaid ==
  ASSUME NEW T, NEW q \in Seq(Seq(T)), q # <<>>
  PROVE  \E f : Laid(q, f) /\ FlattenSeq(q) = f[Len(q)]
<1> DEFINE flatten == CHOOSE f : f = [i \in 1 .. Len(q) |->
                                       IF i = 1 THEN q[i] ELSE Cat(f[i - 1], q[i])]
<1>1. Len(q) # 0
  OBVIOUS
<1>2. FlattenSeq(q) = flatten[Len(q)]
  BY <1>1, Zenon DEF FlattenSeq, Cat
<1>3. flatten = [i \in 1 .. Len(q) |-> IF i = 1 THEN q[i] ELSE Cat(flatten[i - 1], q[i])]
  BY LaidExists, Zenon
<1> HIDE DEF flatten
<1>4. Laid(q, flatten)
  BY <1>3 DEF Laid, LaidTo
<1> QED
  BY <1>2, <1>4

LEMMA LaidStep ==
  ASSUME NEW q, NEW f, Laid(q, f), NEW n \in Nat, NEW i \in 1 .. Len(q), i = n + 1
  PROVE  /\ n = 0 => f[i] = q[i]
         /\ n # 0 => f[i] = Cat(f[n], q[i])
<1>1. f[i] = IF i = 1 THEN q[i] ELSE Cat(f[i - 1], q[i])
  BY Zenon DEF Laid, LaidTo
<1>2. i - 1 = n /\ (i = 1 <=> n = 0)
  OBVIOUS
<1>3. CASE n = 0
  BY <1>1, <1>2, <1>3
<1>4. CASE n # 0
  <2>1. f[i] = Cat(f[i - 1], q[i])
    BY <1>1, <1>2, <1>4
  <2> QED
    BY <1>2, <1>4, <2>1
<1> QED
  BY <1>3, <1>4

LEMMA LaidType ==
  ASSUME NEW T, NEW q \in Seq(Seq(T)), NEW f, Laid(q, f), NEW m \in 1 .. Len(q)
  PROVE  f[m] \in Seq(T)
<1> DEFINE N == {n \in Nat : n \in 1 .. Len(q) => f[n] \in Seq(T)}
<1>1. 0 \in N
  OBVIOUS
<1>2. ASSUME NEW n \in N PROVE n + 1 \in N
  <2>1. SUFFICES ASSUME n + 1 \in 1 .. Len(q) PROVE f[n + 1] \in Seq(T)
    OBVIOUS
  <2>2. n \in Nat /\ q[n + 1] \in Seq(T)
    BY <2>1
  <2>3. /\ n = 0 => f[n + 1] = q[n + 1]
        /\ n # 0 => f[n + 1] = Cat(f[n], q[n + 1])
    BY <2>1, <2>2, LaidStep
  <2>4. CASE n = 0
    BY <2>2, <2>3, <2>4
  <2>5. CASE n # 0
    <3>1. f[n] \in Seq(T)
      BY <2>1, <2>2, <2>5
    <3> QED
      BY <2>2, <2>3, <2>5, <3>1, CatType
  <2> QED
    BY <2>4, <2>5
<1>3. m \in N
  <2>1. N \subseteq Nat /\ m \in Nat
    OBVIOUS
  <2> HIDE DEF N
  <2> QED
    BY <1>1, <1>2, <2>1, NatSet
<1> QED
  BY <1>3

(* The beginning of what is laid depends on the beginning only.            *)
LEMMA LaidAgree ==
  ASSUME NEW T, NEW p \in Seq(Seq(T)), NEW q \in Seq(Seq(T)), NEW f, NEW g,
         Laid(p, f), Laid(q, g), NEW m \in 1 .. Len(p), m <= Len(q),
         \A i \in 1 .. m : p[i] = q[i]
  PROVE  f[m] = g[m]
<1> DEFINE N == {n \in Nat : n \in 1 .. m => f[n] = g[n]}
<1>1. 0 \in N
  OBVIOUS
<1>2. ASSUME NEW n \in N PROVE n + 1 \in N
  <2>1. SUFFICES ASSUME n + 1 \in 1 .. m PROVE f[n + 1] = g[n + 1]
    OBVIOUS
  <2>2. n \in Nat /\ p[n + 1] = q[n + 1] /\ n + 1 \in 1 .. Len(p) /\ n + 1 \in 1 .. Len(q)
    BY <2>1
  <2>3. /\ n = 0 => f[n + 1] = p[n + 1] /\ g[n + 1] = q[n + 1]
        /\ n # 0 => f[n + 1] = Cat(f[n], p[n + 1]) /\ g[n + 1] = Cat(g[n], q[n + 1])
    BY <2>2, LaidStep
  <2>4. n # 0 => f[n] = g[n]
    BY <2>1, <2>2
  <2>5. CASE n = 0
    BY <2>2, <2>3, <2>5
  <2>6. CASE n # 0
    <3>1. f[n + 1] = Cat(f[n], p[n + 1]) /\ g[n + 1] = Cat(f[n], p[n + 1])
      BY <2>2, <2>3, <2>4, <2>6
    <3> QED
      BY <3>1
  <2> QED
    BY <2>5, <2>6
<1>3. m \in N
  <2>1. N \subseteq Nat /\ m \in Nat
    OBVIOUS
  <2> HIDE DEF N
  <2> QED
    BY <1>1, <1>2, <2>1, NatSet
<1> QED
  BY <1>3

LEMMA FlattenNone == FlattenSeq(<<>>) = <<>>
  BY DEF FlattenSeq

(* The queue: what is put at its end,                                      *)
LEMMA FlattenAppend ==
  ASSUME NEW T, NEW q \in Seq(Seq(T)), NEW c \in Seq(T)
  PROVE  /\ FlattenSeq(q) \in Seq(T)
         /\ FlattenSeq(Append(q, c)) = Cat(FlattenSeq(q), c)
<1> DEFINE p == Append(q, c)
<1>1. /\ p \in Seq(Seq(T)) /\ p # <<>> /\ Len(p) = Len(q) + 1 /\ p[Len(p)] = c
      /\ \A i \in 1 .. Len(q) : p[i] = q[i]
      /\ Len(q) \in Nat
  BY AppendProperties
<1> HIDE DEF p
<1>2. PICK f : Laid(p, f) /\ FlattenSeq(p) = f[Len(p)]
  BY <1>1, FlattenIsLaid
<1>3. /\ Len(q) = 0 => f[Len(p)] = c
      /\ Len(q) # 0 => f[Len(p)] = Cat(f[Len(q)], c)
  <2>1. Len(p) \in 1 .. Len(p)
    BY <1>1
  <2> QED
    BY <1>1, <1>2, <2>1, LaidStep
<1>4. CASE q = <<>>
  <2>1. FlattenSeq(q) = <<>> /\ Len(p) = 1
    BY <1>1, <1>4, FlattenNone
  <2>2. f[Len(p)] = c
    BY <1>3, <1>4
  <2> QED
    BY <1>2, <2>1, <2>2, ConcatEmptySeq DEF p, Cat
<1>5. CASE q # <<>>
  <2>1. PICK g : Laid(q, g) /\ FlattenSeq(q) = g[Len(q)]
    BY <1>5, FlattenIsLaid
  <2>2. /\ Len(q) \in 1 .. Len(q) /\ Len(q) # 0 /\ Len(q) <= Len(p)
        /\ \A i \in 1 .. Len(q) : q[i] = p[i]
    BY <1>1, <1>5
  <2>3. g[Len(q)] \in Seq(T)
    BY <2>1, <2>2, LaidType
  <2>4. g[Len(q)] = f[Len(q)]
    <3> DEFINE m == Len(q)
    <3>1. m \in 1 .. Len(q) /\ m <= Len(p) /\ \A i \in 1 .. m : q[i] = p[i]
      BY <2>2
    <3>2. Laid(q, g) /\ Laid(p, f) /\ p \in Seq(Seq(T))
      BY <1>1, <1>2, <2>1
    <3> HIDE DEF m
    <3>3. g[m] = f[m]
      BY <3>1, <3>2, LaidAgree
    <3> QED
      BY <3>3 DEF m
  <2> QED
    BY <1>2, <1>3, <2>1, <2>2, <2>3, <2>4 DEF p
<1> QED
  BY <1>4, <1>5

(* What is laid after the first element.                                   *)
RestOf(r, q) == Len(q) = Len(r) + 1 /\ \A i \in 1 .. Len(r) : r[i] = q[i + 1]

LEMMA LaidAfter ==
  ASSUME NEW T, NEW q \in Seq(Seq(T)), NEW r \in Seq(Seq(T)), NEW f, NEW g,
         Laid(q, f), Laid(r, g), RestOf(r, q),
         NEW n \in Nat, NEW m \in 1 .. Len(r), NEW k \in 1 .. Len(q),
         m = n + 1, k = m + 1, n # 0 => f[m] = Cat(q[1], g[n])
  PROVE  f[k] = Cat(q[1], g[m])
<1>1. m \in Nat /\ m # 0 /\ r[m] = q[k] /\ 1 \in 1 .. Len(q)
  BY DEF RestOf
<1>2. q[1] \in Seq(T) /\ r[m] \in Seq(T)
  BY <1>1
<1>3. f[k] = Cat(f[m], r[m])
  <2>1. m \in Nat /\ m # 0 /\ k \in 1 .. Len(q) /\ k = m + 1
    BY <1>1
  <2>2. f[k] = Cat(f[m], q[k])
    BY <2>1, LaidStep, Zenon
  <2> QED
    BY <1>1, <2>2
<1>4. CASE n = 0
  <2>1. m = 1 /\ 0 \in Nat /\ 1 = 0 + 1
    BY <1>4
  <2>2. f[1] = q[1]
    BY <1>1, <2>1 DEF Laid, LaidTo
  <2>3. g[m] = r[m]
    BY <1>4, LaidStep
  <2> QED
    BY <1>3, <2>1, <2>2, <2>3
<1>5. CASE n # 0
  <2>1. g[m] = Cat(g[n], r[m])
    BY <1>5, LaidStep
  <2>2. n \in 1 .. Len(r)
    BY <1>5
  <2>3. g[n] \in Seq(T)
    BY <2>2, LaidType
  <2>4. Cat(Cat(q[1], g[n]), r[m]) = Cat(q[1], Cat(g[n], r[m]))
    BY <1>2, <2>3, Assoc
  <2> QED
    BY <1>3, <1>5, <2>1, <2>4
<1> QED
  BY <1>4, <1>5

(* and what is taken from its beginning.                                   *)
LEMMA FlattenHead ==
  ASSUME NEW T, NEW q \in Seq(Seq(T)), q # <<>>
  PROVE  FlattenSeq(q) = Cat(Head(q), FlattenSeq(Tail(q)))
<1> DEFINE r == Tail(q)
<1>1. /\ Head(q) = q[1] /\ Head(q) \in Seq(T)
      /\ r \in Seq(Seq(T)) /\ Len(r) = Len(q) - 1
      /\ \A i \in 1 .. Len(r) : r[i] = q[i + 1]
      /\ Len(q) \in Nat /\ Len(q) > 0
  BY HeadTailProperties
<1> HIDE DEF r
<1>2. PICK f : Laid(q, f) /\ FlattenSeq(q) = f[Len(q)]
  BY FlattenIsLaid
<1>3. CASE r = <<>>
  <2>1. Len(q) = 1 /\ FlattenSeq(r) = <<>>
    BY <1>1, <1>3, FlattenNone
  <2>2. f[1] = q[1]
    BY <1>2, <2>1 DEF Laid, LaidTo
  <2> QED
    BY <1>1, <1>2, <2>1, <2>2, ConcatEmptySeq DEF r, Cat
<1>4. CASE r # <<>>
  <2>1. PICK g : Laid(r, g) /\ FlattenSeq(r) = g[Len(r)]
    BY <1>1, <1>4, FlattenIsLaid
  <2> DEFINE N == {n \in Nat : n \in 1 .. Len(r) => f[n + 1] = Cat(q[1], g[n])}
  <2>2. 0 \in N
    OBVIOUS
  <2>3. ASSUME NEW n \in N PROVE n + 1 \in N
    <3>1. n \in Nat /\ (n \in 1 .. Len(r) => f[n + 1] = Cat(q[1], g[n]))
      OBVIOUS
    <3>2. ASSUME n + 1 \in 1 .. Len(r) PROVE f[n + 2] = Cat(q[1], g[n + 1])
      <4> HIDE DEF N
      <4>1. /\ n + 2 \in 1 .. Len(q) /\ n + 2 = (n + 1) + 1 /\ Len(q) = Len(r) + 1
            /\ n # 0 => n \in 1 .. Len(r)
        BY <1>1, <3>1, <3>2
      <4>2. n # 0 => f[n + 1] = Cat(q[1], g[n])
        BY <3>1, <4>1
      <4> DEFINE m == n + 1
                 k == n + 2
      <4>3. /\ m \in 1 .. Len(r) /\ k \in 1 .. Len(q) /\ m = n + 1 /\ k = m + 1
            /\ n # 0 => f[m] = Cat(q[1], g[n])
        BY <3>2, <4>1, <4>2
      <4>4. /\ Laid(q, f) /\ Laid(r, g) /\ n \in Nat
            /\ r \in Seq(Seq(T)) /\ RestOf(r, q)
        BY <1>1, <1>2, <2>1, <3>1, <4>1 DEF RestOf
      <4> HIDE DEF m, k
      <4>5. f[k] = Cat(q[1], g[m])
        BY <4>3, <4>4, LaidAfter
      <4> QED
        BY <4>5 DEF m, k
    <3>3. n + 1 \in Nat /\ (n + 1) + 1 = n + 2
      BY <3>1
    <3> QED
      BY <3>2, <3>3
  <2>4. Len(r) \in N
    <3>1. N \subseteq Nat
      OBVIOUS
    <3>2. Len(r) \in Nat
      BY <1>1
    <3> HIDE DEF N
    <3> QED
      BY <2>2, <2>3, <3>1, <3>2, NatSet
  <2>5. Len(r) \in 1 .. Len(r) /\ Len(r) + 1 = Len(q)
    BY <1>1, <1>4
  <2> QED
    BY <1>1, <1>2, <2>1, <2>4, <2>5 DEF r
<1> QED
  BY <1>3, <1>4

-----------------------------------------------------------------------------
(* Strings in general.                                                     *)

LEMMA CatNone ==
  ASSUME NEW T, NEW s \in Seq(T)
  PROVE  Cat(s, <<>>) = s /\ Cat(<<>>, s) = s
  BY ConcatEmptySeq DEF Cat

LEMMA AppendIsCat ==
  ASSUME NEW T, NEW s \in Seq(T), NEW c \in T
  PROVE  Append(s, c) = Cat(s, <<c>>) /\ <<c>> \in Seq(T)
<1>1. Append(s, c) = s \o <<c>>
  BY AppendIsConcat
<1>2. <<c>> \in Seq(T)
  OBVIOUS
<1> QED
  BY <1>1, <1>2 DEF Cat

(* A string is what is before a place in it and what is after.             *)
LEMMA CutAt ==
  ASSUME NEW T, NEW s \in Seq(T), NEW n \in 0 .. Len(s)
  PROVE  /\ SubSeq(s, 1, n) \in Seq(T) /\ SubSeq(s, n + 1, Len(s)) \in Seq(T)
         /\ Cat(SubSeq(s, 1, n), SubSeq(s, n + 1, Len(s))) = s
<1>1. Len(s) \in Nat /\ n \in Nat /\ n <= Len(s)
  OBVIOUS
<1>2. SubSeq(s, 1, n) \in Seq(T) /\ SubSeq(s, n + 1, Len(s)) \in Seq(T)
  BY <1>1, SubSeqType
<1>3. SubSeq(s, 1, n) \o SubSeq(s, n + 1, Len(s)) = SubSeq(s, 1, Len(s))
  <2>1. 1 \in 1 .. Len(s) + 1 /\ n \in 1 - 1 .. Len(s) /\ Len(s) \in n .. Len(s)
    BY <1>1
  <2> QED
    BY <2>1, ConcatAdjacentSubSeq
<1> QED
  BY <1>2, <1>3, SubSeqFull DEF Cat

LEMMA HeadRest ==
  ASSUME NEW T, NEW s \in Seq(T), s # <<>>
  PROVE  Head(s) \in T /\ Tail(s) \in Seq(T)
  BY HeadTailProperties

-----------------------------------------------------------------------------
(* Where the characters are that the child wrote.                          *)

(* With the program, and with the thread.                                  *)
Mine == Cat(given, IF call.op = "expect" THEN incoming ELSE buffer)
Queued == Cat(FlattenSeq(readQueue), chunk)

(* An expect holds what the last one left, and what it has read since.     *)
Grown ==
  call.op = "expect" => \E m \in Seq(Alphabet) : incoming = Cat(buffer, m)

LEMMA ExpectingIs == TypeInv => (Expecting <=> call.op = "expect")
  BY DEF TypeInv, Places, MainAt, InIsalive, Expecting

LEMMA StringTypes ==
  ASSUME TypeInv
  PROVE  /\ given \in Seq(Alphabet) /\ buffer \in Seq(Alphabet)
         /\ incoming \in Seq(Alphabet) /\ pty \in Seq(Alphabet)
         /\ written \in Seq(Alphabet) /\ chunk \in Seq(Alphabet)
         /\ FlattenSeq(readQueue) \in Seq(Alphabet)
         /\ Mine \in Seq(Alphabet) /\ Queued \in Seq(Alphabet)
<1>1. /\ given \in Seq(Alphabet) /\ buffer \in Seq(Alphabet)
      /\ incoming \in Seq(Alphabet) /\ pty \in Seq(Alphabet)
      /\ written \in Seq(Alphabet) /\ chunk \in Seq(Alphabet)
      /\ readQueue \in Seq(Seq(Alphabet))
  BY DEF TypeInv, UserOK, KernelOK, ThreadOK
<1>2. FlattenSeq(readQueue) \in Seq(Alphabet)
  <2>1. <<>> \in Seq(Alphabet)
    OBVIOUS
  <2> QED
    BY <1>1, <2>1, FlattenAppend
<1>3. Mine \in Seq(Alphabet)
  BY <1>1, CatType DEF Mine
<1>4. Queued \in Seq(Alphabet)
  BY <1>1, <1>2, CatType DEF Queued
<1> QED
  BY <1>1, <1>2, <1>3, <1>4

LEMMA NextStringTypes ==
  ASSUME TypeInv'
  PROVE  Mine' \in Seq(Alphabet) /\ Queued' \in Seq(Alphabet) /\ pty' \in Seq(Alphabet)
<1>1. /\ given' \in Seq(Alphabet) /\ buffer' \in Seq(Alphabet)
      /\ incoming' \in Seq(Alphabet) /\ pty' \in Seq(Alphabet)
      /\ chunk' \in Seq(Alphabet) /\ readQueue' \in Seq(Seq(Alphabet))
      /\ <<>> \in Seq(Alphabet)
  BY DEF TypeInv, UserOK, KernelOK, ThreadOK
<1>2. FlattenSeq(readQueue') \in Seq(Alphabet)
  BY <1>1, FlattenAppend
<1> QED
  BY <1>1, <1>2, CatType DEF Mine, Queued

(* What the program is given comes from what its expect has read.          *)
NewGiven ==
  \/ given' = given
  \/ /\ call.op = "expect"
     /\ \E r, q \in Seq(Alphabet) : incoming = Cat(r, q) /\ given' = Cat(given, r)

(* A step that reads nothing leaves the program what it has.  Only an      *)
(* expect that fails loses what it has read, at the end of the terminal.   *)
UserKept ==
  /\ call'.op = "expect" => UNCHANGED <<call, buffer, incoming, freshlen>>
  /\ NewGiven
  /\ \/ Mine' = Mine
     \/ given' = given /\ Over /\ \E m \in Seq(Alphabet) : Mine = Cat(Mine', m)

LEMMA UserStill ==
  ASSUME UNCHANGED user
  PROVE  UserKept
  BY DEF user, loop, UserKept, NewGiven, Mine

(* The end of a call that is no expect.                                    *)
LEMMA OtherEnds ==
  ASSUME call.op # "expect", call' = call \/ call' = NoCall, UNCHANGED <<buffer, given>>
  PROVE  UserKept
  BY DEF UserKept, NewGiven, Mine, NoCall, CallOf

LEMMA RaiseKeeps ==
  ASSUME TypeInv, Grown, NEW t \in Threads, NEW e \in Exceptions, Raise(t, e),
         t = Main /\ e = "error" /\ call.op = "expect" => Over
  PROVE  UserKept
<1>1. CASE t = Drain
  <2>1. UNCHANGED user
    BY <1>1, TwoThreads DEF Raise
  <2> QED
    BY <2>1, UserStill
<1>2. CASE t = Main
  <2>1. call' = NoCall /\ call'.op = "none"
    BY <1>2, TwoThreads DEF Raise, Finish, NoCall, CallOf
  <2>2. /\ given \in Seq(Alphabet) /\ buffer \in Seq(Alphabet)
        /\ incoming \in Seq(Alphabet) /\ <<>> \in Seq(Alphabet)
    BY StringTypes
  <2>3. CASE call.op # "expect"
    BY <1>2, <2>1, <2>3, OtherEnds, TwoThreads DEF Raise
  <2>4. CASE call.op = "expect"
    <3>1. Mine = Cat(given, incoming) /\ Mine' = Cat(given', buffer')
      BY <2>1, <2>4 DEF Mine
    <3>2. CASE e = "error"
      <4>1. buffer' = buffer /\ given' = given /\ Over
        BY <1>2, <2>4, <3>2, TwoThreads DEF Raise
      <4>2. PICK m \in Seq(Alphabet) : incoming = Cat(buffer, m)
        BY <2>4 DEF Grown
      <4>3. Mine = Cat(Mine', m)
        BY <2>2, <3>1, <4>1, <4>2, Assoc
      <4> QED
        BY <2>1, <4>1, <4>3 DEF UserKept, NewGiven
    <3>3. CASE e = "EOF"
      <4>1. buffer' = <<>> /\ given' = Cat(given, incoming)
        BY <1>2, <2>4, <3>3, TwoThreads DEF Raise, Cat
      <4>2. Mine' = Mine
        <5>1. given' \in Seq(Alphabet)
          BY <2>2, <4>1, CatType
        <5> QED
          BY <3>1, <4>1, <5>1, CatNone
      <4>3. incoming = Cat(incoming, <<>>)
        BY <2>2, CatNone
      <4> QED
        BY <2>1, <2>2, <2>4, <4>1, <4>2, <4>3 DEF UserKept, NewGiven
    <3>4. CASE e = "TIMEOUT"
      <4>1. buffer' = incoming /\ given' = given
        BY <1>2, <2>4, <3>4, TwoThreads DEF Raise
      <4> QED
        BY <2>1, <3>1, <4>1 DEF UserKept, NewGiven
    <3> QED
      BY <3>2, <3>3, <3>4 DEF Exceptions
  <2> QED
    BY <2>3, <2>4
<1> QED
  BY <1>1, <1>2, TwoThreads

LEMMA AnswerKeeps ==
  ASSUME TypeInv, Grown, NEW t \in Threads, NEW alive \in BOOLEAN,
         pc[t] \in InIsalive, Answer(t, alive)
  PROVE  UserKept
<1>1. t = Main =>
        /\ ret[t] \in {"pre", "post"} => call.op = "expect"
        /\ ret[t] = "user" => call.op = "isalive"
        /\ ret[t] \in {"wait", "status"} => call.op = "wait"
        /\ ret[t] = "close" => call.op = "close"
        /\ ret[t] \in {"term", "kill", "check", "last"} => call.op \in {"terminate", "close"}
  BY DEF TypeInv, Places, MainAt, InIsalive
<1>2. t = Drain => ret[t] \in {"pre", "post"}
  BY DEF TypeInv, Places, DrainAt, InIsalive
<1>3. ASSUME t = Main, call.op # "expect", NEW b \in BOOLEAN, Terminated(b)
      PROVE  UserKept
  <2>1. CASE call.op = "terminate"
    BY <1>3, <2>1, OtherEnds DEF Terminated, Finish
  <2>2. CASE call.op # "terminate"
    <3>1. UNCHANGED user \/ Raise(Main, "error")
      BY <1>3, <2>2 DEF Terminated
    <3> QED
      BY <1>3, <3>1, UserStill, RaiseKeeps DEF Exceptions
  <2> QED
    BY <2>1, <2>2
<1>4. CASE ret[t] = "pre"
  BY <1>4, UserStill DEF Answer
<1>5. CASE ret[t] = "post"
  <2>1. Raise(t, "TIMEOUT") \/ Raise(t, "EOF")
    BY <1>5 DEF Answer, RaiseEOF
  <2> QED
    BY <2>1, RaiseKeeps DEF Exceptions
<1>6. CASE ret[t] \in {"user", "status"}
  <2>1. t = Main /\ call.op # "expect"
    BY <1>1, <1>2, <1>6, TwoThreads
  <2> QED
    BY <1>6, <2>1, OtherEnds DEF Answer, Finish
<1>7. CASE ret[t] = "wait"
  <2>1. t = Main /\ call.op # "expect"
    BY <1>1, <1>2, <1>7, TwoThreads
  <2>2. UNCHANGED user \/ Raise(t, "error")
    BY <1>7 DEF Answer
  <2> QED
    BY <2>1, <2>2, UserStill, RaiseKeeps DEF Exceptions
<1>8. CASE ret[t] = "close"
  BY <1>8, UserStill DEF Answer
<1>9. CASE ret[t] \in {"term", "check"}
  <2>1. t = Main /\ call.op # "expect"
    BY <1>1, <1>2, <1>9, TwoThreads
  <2>2. UNCHANGED user \/ Terminated(~alive)
    BY <1>9 DEF Answer
  <2> QED
    BY <1>3, <2>1, <2>2, UserStill
<1>10. CASE ret[t] = "kill"
  <2>1. t = Main /\ call.op # "expect"
    BY <1>1, <1>2, <1>10, TwoThreads
  <2>2. UNCHANGED <<buffer, given, call>>
    BY <1>10 DEF Answer, loop
  <2> QED
    BY <2>1, <2>2, OtherEnds
<1>11. CASE ret[t] = "last"
  <2>1. t = Main /\ call.op # "expect"
    BY <1>1, <1>2, <1>11, TwoThreads
  <2> QED
    BY <1>3, <1>11, <2>1 DEF Answer
<1> QED
  BY <1>4, <1>5, <1>6, <1>7, <1>8, <1>9, <1>10, <1>11 DEF Answer

(* isalive, of either thread: the only waitpid that may fail in an expect  *)
(* is the one after the end of the terminal.                               *)
LEMMA AliveKeeps ==
  ASSUME SharedInv, Grown, NEW t \in Threads, AliveSteps(t)
  PROVE  UserKept
<1>1. TypeInv /\ Reaper /\ Closing /\ Solo /\ Alone /\ Ending
  BY DEF SharedInv, Shared
<1>2. ASSUME ECHILD(t), pc[t] \in InIsalive \cup {"waitpid"}, pc[t] # "reaped",
             pc[t] = "alive" => ~terminated
      PROVE  UserKept
  <2>1. Raise(t, "error") /\ child = "reaped"
    BY <1>2 DEF ECHILD
  <2>2. t = Main /\ call.op = "expect" => Over
    <3> SUFFICES ASSUME t = Main, call.op = "expect" PROVE Over
      OBVIOUS
    <3>1. pc[Main] \in {"alive", "again", "reap"} /\ Reads(Main)
      BY <1>1, <1>2 DEF TypeInv, Places, MainAt, InIsalive, Reads
    <3>2. pc[Drain] \in {"unborn", "done"}
      BY <1>1, <3>1 DEF Solo
    <3>3. pc[Main] # "again"
      BY <1>1, <2>1, <3>1 DEF Alone
    <3>4. pc[Main] # "alive"
      BY <1>1, <1>2, <2>1, <3>1, <3>2, TwoThreads DEF Reaper, ReapedOnce
    <3>5. pc[Main] = "reap"
      BY <3>1, <3>3, <3>4
    <3> QED
      BY <1>1, <3>5, TwoThreads DEF Ending, Over
  <2> QED
    BY <1>1, <2>1, <2>2, RaiseKeeps DEF Exceptions
<1>3. CASE Alive(t)
  <2>1. pc[t] = "alive" /\ pc[t] \in InIsalive
    BY <1>3 DEF Alive, InIsalive
  <2>2. Answer(t, FALSE) \/ UNCHANGED user \/ (ECHILD(t) /\ ~terminated)
    BY <1>3 DEF Alive, Reap
  <2> QED
    BY <1>1, <1>2, <2>1, <2>2, AnswerKeeps, UserStill
<1>4. CASE AliveAgain(t)
  <2>1. pc[t] = "again" /\ pc[t] \in InIsalive
    BY <1>4 DEF AliveAgain, InIsalive
  <2>2. Answer(t, TRUE) \/ UNCHANGED user \/ ECHILD(t)
    BY <1>4 DEF AliveAgain, Reap
  <2> QED
    BY <1>1, <1>2, <2>1, <2>2, AnswerKeeps, UserStill
<1>5. CASE WaitForChild(t)
  <2>1. UNCHANGED user \/ ECHILD(t)
    BY <1>5 DEF WaitForChild, Reap
  <2> QED
    BY <1>2, <1>5, <2>1, UserStill DEF WaitForChild, InIsalive
<1>6. CASE StoreStatus(t)
  BY <1>1, <1>6, AnswerKeeps DEF StoreStatus, InIsalive
<1> QED
  BY <1>3, <1>4, <1>5, <1>6 DEF AliveSteps

(* Where a step takes characters from and where it leaves them.            *)
Still == UNCHANGED <<pty, written>> /\ Mine' = Mine /\ Queued' = Queued
Lost ==
  /\ UNCHANGED <<pty, written, given>> /\ Queued' = Queued
  /\ Over /\ \E m \in Seq(Alphabet) : Mine = Cat(Mine', m)
MainReads ==
  /\ UNCHANGED <<written, given>> /\ Queued' = Queued
  /\ pc[Main] = "read"
  /\ \E s \in Seq(Alphabet) : pty = Cat(s, pty') /\ Mine' = Cat(Mine, s)
DrainReads ==
  /\ UNCHANGED <<written, given>> /\ Mine' = Mine
  /\ pc[Drain] = "read"
  /\ \E s \in Seq(Alphabet) : pty = Cat(s, pty') /\ Queued' = Cat(Queued, s)
Gets ==
  /\ UNCHANGED <<pty, written, given>>
  /\ pc[Main] = "get"
  /\ \E s \in Seq(Alphabet) : Queued = Cat(s, Queued') /\ Mine' = Cat(Mine, s)
Writes ==
  /\ given' = given /\ Mine' = Mine /\ Queued' = Queued /\ (Over' <=> Over)
  /\ \E c \in Alphabet : written' = Append(written, c) /\ pty' = Append(pty, c)

Flows ==
  /\ Grown' /\ NewGiven
  /\ Still \/ Lost \/ MainReads \/ DrainReads \/ Gets \/ Writes

LEMMA KeptFlows ==
  ASSUME Grown, UserKept, UNCHANGED <<pty, written, readQueue, chunk>>
  PROVE  Flows
<1>1. Grown'
  BY DEF Grown, UserKept
<1>2. Queued' = Queued
  BY DEF Queued
<1> QED
  BY <1>1, <1>2 DEF Flows, UserKept, Still, Lost

LEMMA AliveFlows ==
  ASSUME SharedInv, Grown, NEW t \in Threads, AliveSteps(t)
  PROVE  Flows
<1>1. UserKept
  BY AliveKeeps
<1>2. UNCHANGED <<pty, written, readQueue, chunk>>
  BY AliveEffect DEF SharedInv, thread
<1> QED
  BY <1>1, <1>2, KeptFlows

LEMMA ReadFlows ==
  ASSUME SharedInv, Grown, NEW t \in Threads, ReadSteps(t)
  PROVE  Flows
<1>1. TypeInv /\ Closing /\ Ending /\ DOMAIN pc = Threads
  BY DEF SharedInv, Shared, TypeInv, Places
<1>2. ASSUME NEW e \in {"EOF", "error"}, Raise(t, e), e = "error" => Over,
             UNCHANGED <<pty, written, readQueue, chunk>>
      PROVE  Flows
  BY <1>1, <1>2, RaiseKeeps, KeptFlows DEF Exceptions
<1>3. ASSUME UNCHANGED user, UNCHANGED <<pty, written, readQueue, chunk>>
      PROVE  Flows
  BY <1>3, UserStill, KeptFlows
<1>4. CASE ReadNonblocking(t)
  <2>1. UNCHANGED <<pty, written, readQueue, chunk>>
    BY <1>4 DEF ReadNonblocking, kernel, thread
  <2>2. UNCHANGED user \/ (Raise(t, "error") /\ closed)
    BY <1>4 DEF ReadNonblocking
  <2> QED
    BY <1>1, <1>2, <1>3, <2>1, <2>2 DEF Closing, Over
<1>5. CASE Poll(t)
  <2>1. UNCHANGED <<pty, written, readQueue, chunk>>
    BY <1>5 DEF Poll, kernel, thread
  <2>2. UNCHANGED user \/ (Raise(t, "error") /\ ~fdOpen) \/ Raise(t, "EOF")
    BY <1>5 DEF Poll, RaiseEOF
  <2> QED
    BY <1>2, <1>3, <2>1, <2>2 DEF Over
<1>6. CASE Select(t)
  <2>1. UNCHANGED <<pty, written, readQueue, chunk>>
    BY <1>6 DEF Select, kernel, thread
  <2>2. UNCHANGED user \/ (Raise(t, "error") /\ ~fdOpen)
    BY <1>6 DEF Select
  <2> QED
    BY <1>2, <1>3, <2>1, <2>2 DEF Over
<1>7. CASE Read(t)
  <2>1. CASE ~(fdOpen /\ pty # <<>>)
    <3>1. /\ Raise(t, "EOF") \/ (closed /\ Raise(t, "error"))
          /\ UNCHANGED <<pty, written, readQueue, chunk>>
      BY <1>7, <2>1 DEF Read, RaiseEOF, kernel
    <3> QED
      BY <1>1, <1>2, <1>3, <3>1 DEF Closing, Over
  <2>2. CASE fdOpen /\ pty # <<>>
    <3> DEFINE n == Min({maxread, Len(pty)})
               s == SubSeq(pty, 1, n)
    <3>1. pty' = SubSeq(pty, n + 1, Len(pty)) /\ UNCHANGED <<written, readQueue>>
      BY <1>7, <2>2 DEF Read
    <3>2. s \in Seq(Alphabet) /\ pty' \in Seq(Alphabet) /\ pty = Cat(s, pty')
      BY <1>1, <2>2, <3>1, OneRead DEF Cat
    <3>3. t = Drain => chunk' = s /\ UNCHANGED <<given, buffer, incoming, call>>
      BY <1>7, <2>2 DEF Read, loop
    <3>4. t = Main => /\ incoming' = Cat(incoming, s)
                      /\ UNCHANGED <<given, buffer, chunk, call>>
      BY <1>7, <2>2, TwoThreads DEF Read, Cat
    <3>5. pc[t] = "read"
      BY <1>7 DEF Read
    <3> HIDE DEF n, s
    <3>6. CASE t = Drain
      <4>1. chunk = <<>> /\ FlattenSeq(readQueue) \in Seq(Alphabet)
        BY <1>1, <3>5, <3>6, StringTypes DEF Ending
      <4>2. Queued' = Cat(FlattenSeq(readQueue), s) /\ Queued = FlattenSeq(readQueue)
        BY <3>1, <3>3, <3>6, <4>1, CatNone DEF Queued
      <4>3. Mine' = Mine /\ (Grown => Grown')
        BY <3>3, <3>6 DEF Mine, Grown
      <4> QED
        BY <3>1, <3>2, <3>3, <3>5, <3>6, <4>2, <4>3 DEF Flows, NewGiven, DrainReads
    <3>7. CASE t = Main
      <4>1. call.op = "expect"
        BY <1>1, <3>5, <3>7 DEF TypeInv, Places, MainAt, InIsalive
      <4>2. Mine = Cat(given, incoming) /\ Mine' = Cat(given, Cat(incoming, s))
        BY <3>4, <3>7, <4>1 DEF Mine
      <4>3. /\ given \in Seq(Alphabet) /\ incoming \in Seq(Alphabet)
            /\ buffer \in Seq(Alphabet)
        BY <1>1, StringTypes
      <4>4. Mine' = Cat(Mine, s)
        BY <3>2, <4>2, <4>3, Assoc
      <4>5. Grown'
        <5>1. PICK m \in Seq(Alphabet) : incoming = Cat(buffer, m)
          BY <4>1 DEF Grown
        <5>2. incoming' = Cat(buffer', Cat(m, s)) /\ Cat(m, s) \in Seq(Alphabet)
          BY <3>2, <3>4, <3>7, <4>3, <5>1, Assoc, CatType
        <5> QED
          BY <5>2 DEF Grown
      <4>6. Queued' = Queued
        BY <3>1, <3>4, <3>7 DEF Queued
      <4> QED
        BY <3>1, <3>2, <3>4, <3>5, <3>7, <4>4, <4>5, <4>6 DEF Flows, NewGiven, MainReads
    <3> QED
      BY <3>6, <3>7, TwoThreads
  <2> QED
    BY <2>1, <2>2
<1> QED
  BY <1>4, <1>5, <1>6, <1>7 DEF ReadSteps

LEMMA SearchKeeps ==
  ASSUME SharedInv, Grown, SearchIncoming
  PROVE  UserKept
<1>1. TypeInv /\ call.op = "expect"
  BY DEF SharedInv, TypeInv, Places, MainAt, InIsalive, SearchIncoming
<1>2. CASE Match # NoMatch
  <2> DEFINE r == SubSeq(incoming, 1, Match.end)
             q == SubSeq(incoming, Match.end + 1, Len(incoming))
  <2>1. CASE Finish("match") /\ given' = Cat(given, r) /\ buffer' = q
    <3>1. Match.end \in 0 .. Len(incoming)
      BY <1>1, <1>2, MatchWithin
    <3>2. given \in Seq(Alphabet) /\ incoming \in Seq(Alphabet)
      BY <1>1, StringTypes
    <3>3. r \in Seq(Alphabet) /\ q \in Seq(Alphabet) /\ Cat(r, q) = incoming
      BY <3>1, <3>2, CutAt
    <3>4. call' = NoCall /\ call'.op = "none"
      BY <2>1 DEF Finish, NoCall, CallOf
    <3> HIDE DEF r, q
    <3>5. Mine = Cat(given, Cat(r, q)) /\ Mine' = Cat(Cat(given, r), q)
      BY <1>1, <2>1, <3>3, <3>4 DEF Mine
    <3>6. Mine' = Mine
      BY <3>2, <3>3, <3>5, Assoc
    <3> QED
      BY <1>1, <2>1, <3>3, <3>4, <3>6 DEF UserKept, NewGiven
  <2>2. Finish("match") /\ given' = Cat(given, r) /\ buffer' = q
    BY <1>2 DEF SearchIncoming, AfterTheMatch, Cat
  <2> QED
    BY <2>1, <2>2
<1>3. CASE Match = NoMatch
  <2>1. Raise(Main, "TIMEOUT") \/ UNCHANGED user
    BY <1>3 DEF SearchIncoming
  <2> QED
    BY <1>1, <2>1, RaiseKeeps, UserStill, TwoThreads DEF Exceptions
<1> QED
  BY <1>2, <1>3

LEMMA GetFlows ==
  ASSUME SharedInv, Grown, Get
  PROVE  Flows
<1>1. TypeInv /\ pc[Main] = "get" /\ call.op = "expect"
  BY DEF SharedInv, TypeInv, Places, MainAt, InIsalive, Get
<1>2. UNCHANGED <<pty, written, chunk, given, buffer, call>>
  BY DEF Get, kernel
<1>3. CASE readQueue = <<>>
  <2>1. UNCHANGED <<readQueue, incoming>>
    BY <1>3 DEF Get
  <2>2. Mine' = Mine /\ Queued' = Queued /\ Grown'
    BY <1>2, <2>1 DEF Mine, Queued, Grown
  <2> QED
    BY <1>2, <2>2 DEF Flows, NewGiven, Still
<1>4. CASE readQueue # <<>>
  <2> DEFINE s == Head(readQueue)
  <2>1. readQueue' = Tail(readQueue) /\ incoming' = Cat(incoming, s)
    BY <1>4 DEF Get, Cat
  <2>2. readQueue \in Seq(Seq(Alphabet)) /\ <<>> \in Seq(Alphabet)
    BY <1>1 DEF TypeInv, ThreadOK
  <2>3. s \in Seq(Alphabet) /\ readQueue' \in Seq(Seq(Alphabet))
    BY <1>4, <2>1, <2>2, HeadRest
  <2>4. FlattenSeq(readQueue) = Cat(s, FlattenSeq(readQueue'))
    BY <1>4, <2>1, <2>2, FlattenHead
  <2>5. FlattenSeq(readQueue') \in Seq(Alphabet) /\ chunk \in Seq(Alphabet)
    BY <1>1, <2>2, <2>3, FlattenAppend, StringTypes
  <2> HIDE DEF s
  <2>6. Queued = Cat(s, Queued')
    BY <1>2, <2>3, <2>4, <2>5, Assoc DEF Queued
  <2>7. /\ given \in Seq(Alphabet) /\ incoming \in Seq(Alphabet)
        /\ buffer \in Seq(Alphabet)
    BY <1>1, StringTypes
  <2>8. Mine' = Cat(Mine, s)
    <3>1. Mine = Cat(given, incoming) /\ Mine' = Cat(given, Cat(incoming, s))
      BY <1>1, <1>2, <2>1 DEF Mine
    <3> QED
      BY <2>3, <2>7, <3>1, Assoc
  <2>9. Grown'
    <3>1. PICK m \in Seq(Alphabet) : incoming = Cat(buffer, m)
      BY <1>1 DEF Grown
    <3>2. incoming' = Cat(buffer', Cat(m, s)) /\ Cat(m, s) \in Seq(Alphabet)
      BY <1>2, <2>1, <2>3, <2>7, <3>1, Assoc, CatType
    <3> QED
      BY <3>2 DEF Grown
  <2> QED
    BY <1>1, <1>2, <2>3, <2>6, <2>8, <2>9 DEF Flows, NewGiven, Gets
<1> QED
  BY <1>3, <1>4

LEMMA MainFlows ==
  ASSUME SharedInv, Grown,
         SearchIncoming \/ Get \/ Signal \/ Stop \/ CloseTerminal \/ Shut
  PROVE  Flows
<1>1. TypeInv /\ Closing
  BY DEF SharedInv, Shared
<1>2. CASE SearchIncoming
  <2>1. UNCHANGED <<pty, written, readQueue, chunk>>
    BY <1>2 DEF SearchIncoming, kernel, thread
  <2> QED
    BY <1>2, <2>1, SearchKeeps, KeptFlows
<1>3. CASE Signal
  <2>1. call.op # "expect"
    BY <1>1, <1>3 DEF TypeInv, Places, MainAt, InIsalive, Signal
  <2>2. UNCHANGED <<call, buffer, given, pty, written, readQueue, chunk>>
    BY <1>3 DEF Signal, loop, thread
  <2> QED
    BY <2>1, <2>2, OtherEnds, KeptFlows
<1>4. CASE Stop
  <2>1. UNCHANGED user /\ UNCHANGED <<pty, written, readQueue, chunk>>
    BY <1>4 DEF Stop, kernel
  <2> QED
    BY <2>1, UserStill, KeptFlows
<1>5. CASE CloseTerminal
  <2>1. call.op # "expect"
    BY <1>1, <1>5 DEF TypeInv, Places, MainAt, InIsalive, CloseTerminal
  <2>2. UNCHANGED <<pty, written, readQueue, chunk>>
    BY <1>5 DEF CloseTerminal, thread
  <2>3. UNCHANGED user \/ Raise(Main, "error")
    BY <1>5 DEF CloseTerminal
  <2> QED
    BY <1>1, <2>1, <2>2, <2>3, UserStill, RaiseKeeps, KeptFlows, TwoThreads DEF Exceptions
<1>6. CASE Shut
  <2>1. call.op # "expect"
    BY <1>1, <1>6 DEF TypeInv, Places, MainAt, InIsalive, Shut
  <2>2. /\ UNCHANGED <<buffer, given, pty, written, readQueue, chunk>>
        /\ call' = NoCall
    BY <1>6 DEF Shut, Finish, kernel, thread
  <2> QED
    BY <2>1, <2>2, OtherEnds, KeptFlows
<1> QED
  BY <1>2, <1>3, <1>4, <1>5, <1>6, GetFlows

LEMMA ProgramFlows ==
  ASSUME SharedInv, Grown, Program
  PROVE  Flows
<1>1. TypeInv /\ pc[Main] = "idle" /\ UNCHANGED <<kernel, thread>>
  BY ProgramEffect DEF SharedInv
<1>2. call.op # "expect"
  BY <1>1 DEF TypeInv, Places, MainAt, InIsalive
<1>3. UNCHANGED <<pty, written, readQueue, chunk>>
  BY <1>1 DEF kernel, thread
<1>4. Queued' = Queued
  BY <1>3 DEF Queued
<1>5. ASSUME call'.op # "expect", UNCHANGED <<buffer, given>>
      PROVE  Flows
  <2>1. Mine' = Mine /\ Grown'
    BY <1>2, <1>5 DEF Mine, Grown
  <2> QED
    BY <1>3, <1>4, <1>5, <2>1 DEF Flows, NewGiven, Still
<1>6. CASE Expect
  <2>1. PICK s \in Searches, t \in BOOLEAN :
      /\ \/ UNCHANGED call
         \/ /\ call' = [op |-> "expect", search |-> s, timed |-> t, force |-> FALSE]
            /\ incoming' = buffer
      /\ UNCHANGED <<buffer, given>>
    BY <1>6 DEF Expect
  <2>2. CASE call' = call
    BY <1>2, <1>5, <2>1, <2>2
  <2>3. CASE /\ call' = [op |-> "expect", search |-> s, timed |-> t, force |-> FALSE]
             /\ incoming' = buffer
    <3>1. call'.op = "expect"
      BY <2>3
    <3>2. Mine' = Mine
      BY <1>2, <2>1, <2>3, <3>1 DEF Mine
    <3>3. buffer \in Seq(Alphabet) /\ <<>> \in Seq(Alphabet)
      BY <1>1, StringTypes
    <3>4. incoming' = Cat(buffer', <<>>)
      BY <2>1, <2>3, <3>3, CatNone
    <3>5. Grown'
      BY <3>3, <3>4 DEF Grown
    <3> QED
      BY <1>3, <1>4, <2>1, <3>2, <3>5 DEF Flows, NewGiven, Still
  <2> QED
    BY <2>1, <2>2, <2>3
<1>7. CASE IsAlive
  BY <1>5, <1>7 DEF IsAlive, Begin, CallOf, loop
<1>8. CASE Wait
  BY <1>5, <1>8 DEF Wait, Begin, CallOf, loop
<1>9. CASE Terminate
  BY <1>5, <1>9 DEF Terminate, Begin, CallOf, loop
<1>10. CASE Close
  BY <1>5, <1>10 DEF Close, Begin, CallOf, loop
<1> QED
  BY <1>6, <1>7, <1>8, <1>9, <1>10 DEF Program

LEMMA ThreadFlows ==
  ASSUME SharedInv, Grown,
         ThreadStarts \/ ThreadLoops \/ ThreadPuts \/ ThreadSeesEOF \/ ThreadEnds
  PROVE  Flows
<1>1. TypeInv /\ UNCHANGED <<kernel, user>>
  BY ThreadEffect DEF SharedInv
<1>2. UNCHANGED <<pty, written, given>> /\ Mine' = Mine /\ Grown'
  BY <1>1 DEF kernel, user, loop, Mine, Grown
<1>3. /\ readQueue \in Seq(Seq(Alphabet)) /\ chunk \in Seq(Alphabet)
      /\ <<>> \in Seq(Alphabet) /\ FlattenSeq(readQueue) \in Seq(Alphabet)
  BY <1>1, StringTypes DEF TypeInv, ThreadOK
<1>4. Queued' = Queued
  <2>1. CASE ThreadPuts
    <3>1. readQueue' = Append(readQueue, chunk) /\ chunk' = <<>>
      BY <2>1 DEF ThreadPuts
    <3>2. FlattenSeq(readQueue') = Cat(FlattenSeq(readQueue), chunk)
      BY <1>3, <3>1, FlattenAppend
    <3>3. Cat(FlattenSeq(readQueue), chunk) \in Seq(Alphabet)
      BY <1>3, CatType
    <3> QED
      BY <3>1, <3>2, <3>3, CatNone DEF Queued
  <2>2. CASE ThreadSeesEOF
    <3>1. readQueue' = Append(readQueue, <<>>) /\ chunk' = chunk
      BY <2>2 DEF ThreadSeesEOF, None
    <3>2. FlattenSeq(readQueue') = Cat(FlattenSeq(readQueue), <<>>)
      BY <1>3, <3>1, FlattenAppend
    <3> QED
      BY <1>3, <3>1, <3>2, CatNone DEF Queued
  <2>3. CASE ThreadStarts \/ ThreadLoops \/ ThreadEnds
    BY <2>3 DEF ThreadStarts, ThreadLoops, ThreadEnds, thread, Queued
  <2> QED
    BY <2>1, <2>2, <2>3
<1> QED
  BY <1>2, <1>4 DEF Flows, NewGiven, Still

LEMMA ChildFlows ==
  ASSUME SharedInv, Grown, Child
  PROVE  Flows
<1>1. UNCHANGED <<fdOpen, flags, thread, user>>
  BY DEF Child, Write, HangUp, Exit
<1>2. /\ Mine' = Mine /\ Queued' = Queued /\ given' = given /\ Grown' /\ (Over' <=> Over)
  BY <1>1 DEF flags, thread, user, loop, Mine, Queued, Grown, Over
<1>3. CASE Write
  <2>1. written \in Seq(Alphabet)
    BY DEF SharedInv, TypeInv, KernelOK
  <2>2. Output[Len(written) + 1] \in Alphabet
    <3>1. Len(written) + 1 \in DOMAIN Output
      BY <1>3, <2>1, ExpectAssumption DEF Write
    <3> QED
      BY <3>1 DEF Alphabet
  <2> QED
    BY <1>2, <1>3, <2>2 DEF Flows, NewGiven, Writes, Write
<1>4. CASE HangUp \/ Exit
  <2>1. UNCHANGED <<pty, written>>
    BY <1>4 DEF HangUp, Exit
  <2> QED
    BY <1>2, <2>1 DEF Flows, NewGiven, Still
<1> QED
  BY <1>3, <1>4 DEF Child

LEMMA StepFlows ==
  ASSUME SharedInv, Grown, [Next]_vars
  PROVE  Flows
<1>1. CASE UNCHANGED vars
  BY <1>1, UserStill, KeptFlows DEF vars, kernel, thread
<1>2. CASE MainStep
  BY <1>2, AliveFlows, ReadFlows, MainFlows, TwoThreads DEF MainStep
<1>3. CASE ThreadStep
  BY <1>3, AliveFlows, ReadFlows, ThreadFlows, TwoThreads DEF ThreadStep
<1> QED
  BY <1>1, <1>2, <1>3, ProgramFlows, ChildFlows DEF Next

(* The end of the terminal is for good.                                    *)
LEMMA OverStays ==
  ASSUME SharedInv, [Next]_vars, Over
  PROVE  Over'
<1>1. TypeInv
  BY DEF SharedInv
<1>2. ASSUME NEW t \in Threads, AliveSteps(t) PROVE Over'
  <2>1. fdOpen' = fdOpen
    BY <1>1, <1>2, AliveEffect
  <2>2. flag_eof => flag_eof'
    BY <1>1, <1>2, AliveEffect DEF Answering, Inside
  <2> QED
    BY <2>1, <2>2 DEF Over
<1>3. ASSUME NEW t \in Threads, ReadSteps(t) PROVE Over'
  <2>1. fdOpen' = fdOpen /\ (flag_eof => flag_eof')
    BY <1>1, <1>3, ReadEffect
  <2> QED
    BY <2>1 DEF Over
<1>4. ASSUME SearchIncoming \/ Get \/ Signal \/ Stop \/ CloseTerminal \/ Shut
      PROVE  Over'
  <2>1. /\ flag_eof' = flag_eof
        /\ IF pc[Main] = "osclose" THEN fdOpen' = FALSE ELSE fdOpen' = fdOpen
    BY <1>1, <1>4, MainEffect
  <2>2. fdOpen' = FALSE \/ fdOpen' = fdOpen
    BY <2>1
  <2> QED
    BY <2>1, <2>2, Zenon DEF Over
<1>5. ASSUME UNCHANGED <<flag_eof, fdOpen>> PROVE Over'
  BY <1>5 DEF Over
<1>6. CASE Program
  BY <1>1, <1>5, <1>6, ProgramEffect DEF kernel, flags
<1>7. CASE ThreadStarts \/ ThreadLoops \/ ThreadPuts \/ ThreadSeesEOF \/ ThreadEnds
  <2>1. UNCHANGED kernel /\ UNCHANGED flag_eof
    BY <1>1, <1>7, ThreadEffect
  <2> QED
    BY <1>5, <2>1 DEF kernel
<1>8. CASE Child
  <2>1. UNCHANGED fdOpen /\ UNCHANGED flags
    BY <1>8 DEF Child, Write, HangUp, Exit
  <2> QED
    BY <1>5, <2>1 DEF flags
<1>9. CASE UNCHANGED vars
  BY <1>5, <1>9 DEF vars, kernel, flags
<1> QED
  BY <1>2, <1>3, <1>4, <1>6, <1>7, <1>8, <1>9, TwoThreads DEF Next, MainStep, ThreadStep

-----------------------------------------------------------------------------
(* Conserved.                                                              *)

Whole == Cat(Cat(Mine, Queued), pty)

LEMMA ConservedIs == TypeInv => (Conserved <=> Over \/ Whole = written)
<1> SUFFICES ASSUME TypeInv
             PROVE  given \o Held \o FlattenSeq(readQueue) \o chunk \o pty = Whole
  BY DEF Conserved
<1>1. given \o Held = Mine
  BY ExpectingIs DEF Held, Mine, Cat
<1>2. Mine \o FlattenSeq(readQueue) \o chunk = Cat(Mine, Queued)
  <2>1. Cat(Cat(Mine, FlattenSeq(readQueue)), chunk) = Cat(Mine, Queued)
    BY StringTypes, Assoc DEF Queued
  <2> QED
    BY <2>1 DEF Cat
<1> QED
  BY <1>1, <1>2 DEF Whole, Cat

LEMMA ConservedKept ==
  ASSUME SharedInv, SharedInv', Grown, [Next]_vars, Over \/ Whole = written
  PROVE  Over' \/ Whole' = written'
<1>1. TypeInv /\ TypeInv' /\ Ending /\ Solo
  BY DEF SharedInv, Shared
<1>2. CASE Over
  BY <1>2, OverStays
<1>3. CASE ~Over
  <2> DEFINE A == Mine
             B == Queued
             C == pty
  <2>1. /\ A \in Seq(Alphabet) /\ B \in Seq(Alphabet) /\ C \in Seq(Alphabet)
        /\ A' \in Seq(Alphabet) /\ B' \in Seq(Alphabet) /\ C' \in Seq(Alphabet)
        /\ written \in Seq(Alphabet)
    BY <1>1, StringTypes, NextStringTypes
  <2>2. Cat(Cat(A, B), C) = written /\ Whole' = Cat(Cat(A', B'), C')
    BY <1>3 DEF Whole
  <2>3. Flows
    BY StepFlows
  <2>4. CASE Still
    BY <2>2, <2>4 DEF Still
  <2>5. CASE MainReads
    <3>1. B = <<>>
      <4>1. pc[Drain] \in {"unborn", "boot"}
        BY <1>1, <1>3, <2>5 DEF MainReads, Solo, Reads, Ending
      <4>2. readQueue = <<>> /\ chunk = <<>>
        BY <1>1, <4>1 DEF Ending
      <4>3. Queued = Cat(<<>>, <<>>) /\ <<>> \in Seq(Alphabet)
        BY <4>2, FlattenNone DEF Queued
      <4> QED
        BY <4>3, CatNone
    <3>2. PICK s \in Seq(Alphabet) : C = Cat(s, C') /\ A' = Cat(A, s) /\ B' = B
      BY <2>5 DEF MainReads
    <3>3. Cat(A, B) = A /\ Cat(A', B') = Cat(A, s)
      BY <2>1, <3>1, <3>2, CatNone
    <3>4. Whole' = Cat(Cat(A, s), C') /\ written = Cat(A, Cat(s, C')) /\ written' = written
      BY <2>2, <2>5, <3>2, <3>3 DEF MainReads
    <3> HIDE DEF A, B, C
    <3> QED
      BY <2>1, <3>2, <3>4, Assoc
  <2>6. CASE DrainReads
    <3>1. PICK s \in Seq(Alphabet) : C = Cat(s, C') /\ B' = Cat(B, s) /\ A' = A
      BY <2>6 DEF DrainReads
    <3>2. /\ Whole' = Cat(Cat(A, Cat(B, s)), C') /\ written = Cat(Cat(A, B), Cat(s, C'))
          /\ written' = written
      BY <2>2, <2>6, <3>1 DEF DrainReads
    <3> HIDE DEF A, B, C
    <3>3. Cat(A, Cat(B, s)) = Cat(Cat(A, B), s) /\ Cat(A, B) \in Seq(Alphabet)
      BY <2>1, Assoc, CatType
    <3>4. Cat(Cat(Cat(A, B), s), C') = Cat(Cat(A, B), Cat(s, C'))
      BY <2>1, <3>3, Assoc
    <3> QED
      BY <3>2, <3>3, <3>4
  <2>7. CASE Gets
    <3>1. PICK s \in Seq(Alphabet) : B = Cat(s, B') /\ A' = Cat(A, s) /\ C' = C
      BY <2>7 DEF Gets
    <3>2. Whole' = Cat(Cat(Cat(A, s), B'), C) /\ written' = written
      BY <2>2, <2>7, <3>1 DEF Gets
    <3>3. written = Cat(Cat(A, Cat(s, B')), C)
      BY <2>2, <3>1
    <3> HIDE DEF A, B, C
    <3>4. Cat(Cat(A, s), B') = Cat(A, Cat(s, B'))
      BY <2>1, Assoc
    <3> QED
      BY <3>2, <3>3, <3>4
  <2>8. CASE Writes
    <3>1. PICK c \in Alphabet : /\ written' = Append(written, c) /\ C' = Append(C, c)
                                /\ A' = A /\ B' = B
      BY <2>8 DEF Writes
    <3>2. /\ written' = Cat(Cat(Cat(A, B), C), <<c>>) /\ <<c>> \in Seq(Alphabet)
          /\ C' = Cat(C, <<c>>)
      BY <2>1, <2>2, <3>1, AppendIsCat
    <3>3. Whole' = Cat(Cat(A, B), Cat(C, <<c>>))
      BY <2>2, <3>1, <3>2
    <3> HIDE DEF A, B, C
    <3>4. Cat(A, B) \in Seq(Alphabet)
      BY <2>1, CatType
    <3> DEFINE d == <<c>>
    <3>5. d \in Seq(Alphabet)
      BY <3>2
    <3>6. written' = Cat(Cat(Cat(A, B), C), d) /\ Whole' = Cat(Cat(A, B), Cat(C, d))
      BY <3>2, <3>3
    <3> HIDE DEF d
    <3>7. Cat(Cat(Cat(A, B), C), d) = Cat(Cat(A, B), Cat(C, d))
      BY <2>1, <3>4, <3>5, Assoc
    <3> QED
      BY <3>6, <3>7
  <2>9. CASE Lost
    BY <1>3, <2>9 DEF Lost
  <2> QED
    BY <2>3, <2>4, <2>5, <2>6, <2>7, <2>8, <2>9 DEF Flows
<1> QED
  BY <1>2, <1>3

FlowInv == SharedInv /\ Grown /\ (Over \/ Whole = written)

LEMMA FlowAlways == Spec => []FlowInv
<1>1. Init => FlowInv
  <2> SUFFICES ASSUME Init PROVE FlowInv
    OBVIOUS
  <2>1. SharedInv
    BY SharedInit
  <2>2. Grown
    BY DEF Init, Grown, NoCall, CallOf
  <2>3. Whole = written
    <3>1. /\ given = <<>> /\ buffer = <<>> /\ readQueue = <<>> /\ chunk = <<>>
          /\ pty = <<>> /\ written = <<>> /\ call.op # "expect"
      BY DEF Init, NoCall, CallOf
    <3>2. <<>> \in Seq(Alphabet)
      OBVIOUS
    <3>3. Mine = Cat(<<>>, <<>>) /\ Queued = Cat(<<>>, <<>>)
      BY <3>1, FlattenNone DEF Mine, Queued
    <3>4. Cat(<<>>, <<>>) = <<>>
      BY <3>2, CatNone
    <3> QED
      BY <3>1, <3>3, <3>4 DEF Whole
  <2> QED
    BY <2>1, <2>2, <2>3 DEF FlowInv
<1>2. FlowInv /\ [Next]_vars => FlowInv'
  <2> SUFFICES ASSUME FlowInv, [Next]_vars PROVE FlowInv'
    OBVIOUS
  <2>1. SharedInv'
    BY SharedNext DEF FlowInv
  <2>2. Grown'
    BY StepFlows DEF FlowInv, Flows
  <2>3. Over' \/ Whole' = written'
    BY <2>1, ConservedKept DEF FlowInv
  <2> QED
    BY <2>1, <2>2, <2>3 DEF FlowInv
<1> QED
  BY <1>1, <1>2, PTL DEF Spec

(* Until the end of the terminal is seen, or the program has closed it,    *)
(* every character the child wrote is in one place, in order, whichever of *)
(* the two threads has read it and however the reads cut the output        *)
(* (read_nonblocking, readQueue and buffer, pexpect.py).                   *)
THEOREM NothingLost == Spec => []Conserved
<1>1. FlowInv => Conserved
  BY ConservedIs DEF FlowInv, SharedInv
<1> QED
  BY <1>1, FlowAlways, PTL

-----------------------------------------------------------------------------
(* SearchersAgree.                                                         *)

(* Where pattern k occurs in all that was read, and can be a match.        *)
Seen(k) == Occurs(incoming, call.search.patterns[k], 0) \ {Len(incoming)}

(* Without a window, an expect has searched all it had before it reads on: *)
(* a pattern that occurs in it reaches into the fresh characters.          *)
NothingOld ==
  call.op = "expect" /\ call.search.window = NoWindow =>
    \A k \in Strings(call.search.patterns) : \A n \in Seen(k) :
      /\ pc[Main] = "search"
      /\ n >= Len(incoming) - freshlen - Len(call.search.patterns[k])

LEMMA SearchTypes ==
  ASSUME TypeInv, call.op = "expect"
  PROVE  /\ call.search.patterns \in Seq(Seq(STRING))
         /\ \A k \in Strings(call.search.patterns) :
              Len(call.search.patterns[k]) \in Nat
         /\ incoming \in Seq(Alphabet) /\ Len(incoming) \in Nat /\ freshlen \in Nat
<1>1. call.search \in Searches /\ incoming \in Seq(Alphabet) /\ freshlen \in Nat
  BY CallTypes DEF TypeInv, UserOK
<1>2. call.search.patterns \in Seq(Seq(STRING))
  BY <1>1, ExpectAssumption
<1>3. \A k \in Strings(call.search.patterns) : Len(call.search.patterns[k]) \in Nat
  BY <1>2 DEF Strings
<1> QED
  BY <1>1, <1>2, <1>3

LEMMA OccursFrom ==
  ASSUME NEW s, NEW p, Len(s) \in Nat, Len(p) \in Nat, NEW m \in Nat, NEW n
  PROVE  n \in Occurs(s, p, m) <=> n \in Occurs(s, p, 0) /\ n >= m
<1>1. n \in m .. Len(s) - Len(p) <=> n \in 0 .. Len(s) - Len(p) /\ n >= m
  OBVIOUS
<1> QED
  BY <1>1 DEF Occurs

(* The two searchers, when there is no window.                             *)
LEMMA StringSearch ==
  ASSUME TypeInv, call.op = "expect", NothingOld, pc[Main] = "search",
         call.search.window = NoWindow
  PROVE  LET ps == call.search.patterns
             whole == [k \in Strings(ps) |-> 0]
         IN /\ search_re(ps, incoming, NoWindow) = Best(ps, incoming, whole)
            /\ search_string(ps, incoming, freshlen, NoWindow) = Best(ps, incoming, whole)
            /\ \A k \in Strings(ps) : Found(ps, incoming, whole, k) = Seen(k)
<1> DEFINE ps == call.search.patterns
           whole == [k \in Strings(ps) |-> 0]
           fresh == [k \in Strings(ps) |-> Offset(incoming, FirstNew(freshlen, ps[k]))]
<1>1. search_re(ps, incoming, NoWindow) = Best(ps, incoming, whole)
  BY DEF search_re
<1>2. search_string(ps, incoming, freshlen, NoWindow) = Best(ps, incoming, fresh)
  BY DEF search_string
<1>3. \A k \in Strings(ps) : Found(ps, incoming, whole, k) = Seen(k)
  BY DEF Found, Seen
<1>4. ASSUME NEW k \in Strings(ps)
      PROVE  Found(ps, incoming, fresh, k) = Found(ps, incoming, whole, k)
  <2> DEFINE l == Len(ps[k])
             from == Offset(incoming, FirstNew(freshlen, ps[k]))
  <2>1. l \in Nat /\ Len(incoming) \in Nat /\ freshlen \in Nat
    BY SearchTypes
  <2>2. \A n \in Seen(k) : n >= Len(incoming) - freshlen - l
    BY DEF NothingOld
  <2>3. \/ from = 0
        \/ from \in Nat /\ from = Len(incoming) - freshlen - l
    <3>1. from = Offset(incoming, -(freshlen + l))
      BY DEF FirstNew
    <3> HIDE DEF l, from
    <3>2. CASE -(freshlen + l) >= 0
      BY <2>1, <3>1, <3>2 DEF Offset
    <3>3. CASE -(freshlen + l) < 0
      <4>1. from = IF Len(incoming) + -(freshlen + l) < 0 THEN 0
                   ELSE Len(incoming) + -(freshlen + l)
        BY <2>1, <3>1, <3>3 DEF Offset
      <4> QED
        BY <2>1, <4>1
    <3> QED
      BY <2>1, <3>2, <3>3
  <2>4. Found(ps, incoming, fresh, k) = Occurs(incoming, ps[k], from) \ {Len(incoming)}
    BY DEF Found
  <2>5. Found(ps, incoming, whole, k) = Occurs(incoming, ps[k], 0) \ {Len(incoming)}
    BY DEF Found
  <2>6. l = Len(ps[k])
    OBVIOUS
  <2>7. \A n \in Occurs(incoming, ps[k], 0) \ {Len(incoming)} :
          n >= Len(incoming) - freshlen - l
    BY <2>2 DEF Seen
  <2> HIDE DEF l, from, ps, whole, fresh
  <2>8. \A n : n \in Occurs(incoming, ps[k], from) <=>
                 n \in Occurs(incoming, ps[k], 0) /\ n >= from
    BY <2>1, <2>3, <2>6, OccursFrom
  <2>9. \A n \in Occurs(incoming, ps[k], 0) : n \in Nat
    BY <2>1, <2>6 DEF Occurs
  <2>10. \A n \in Occurs(incoming, ps[k], 0) \ {Len(incoming)} : n >= from
    BY <2>3, <2>7, <2>9
  <2> QED
    BY <2>4, <2>5, <2>8, <2>10
<1>5. Best(ps, incoming, fresh) = Best(ps, incoming, whole)
  BY <1>4, BestAgree
<1> QED
  BY <1>1, <1>2, <1>3, <1>5

(* What is found after more has been read, and was not found before.       *)
LEMMA FoundLater ==
  ASSUME NEW T, NEW s \in Seq(T), NEW m \in Seq(T), NEW p, Len(p) \in Nat,
         Occurs(s, p, 0) \ {Len(s)} = {},
         NEW n \in Occurs(Cat(s, m), p, 0) \ {Len(Cat(s, m))}
  PROVE  n >= Len(Cat(s, m)) - Len(m) - Len(p) /\ m # <<>>
<1>1. /\ Len(s) \in Nat /\ Len(m) \in Nat /\ Len(Cat(s, m)) = Len(s) + Len(m)
  BY ConcatProperties DEF Cat
<1>2. /\ n \in Nat /\ n + Len(p) <= Len(s) + Len(m) /\ n # Len(s) + Len(m)
      /\ SubSeq(Cat(s, m), n + 1, n + Len(p)) = p
  BY <1>1 DEF Occurs
<1>3. m # <<>>
  <2> SUFFICES ASSUME m = <<>> PROVE FALSE
    OBVIOUS
  <2>1. Cat(s, m) = s
    BY CatNone
  <2> QED
    BY <2>1
<1>4. ~(n + Len(p) < Len(s))
  <2> SUFFICES ASSUME n + Len(p) < Len(s) PROVE FALSE
    OBVIOUS
  <2>1. SubSeq(Cat(s, m), n + 1, n + Len(p)) = SubSeq(s, n + 1, n + Len(p))
    <3>1. CASE Len(p) = 0
      BY <1>1, <1>2, <3>1, SubSeqEmpty
    <3>2. CASE Len(p) # 0
      <4>1. n + 1 \in 1 .. Len(s) /\ n + Len(p) \in 1 .. Len(s)
        BY <1>1, <1>2, <3>2
      <4> QED
        BY <4>1, SubSeqOfConcat1 DEF Cat
    <3> QED
      BY <3>1, <3>2
  <2>2. n \in Occurs(s, p, 0)
    BY <1>1, <1>2, <2>1 DEF Occurs
  <2> QED
    BY <1>1, <1>2, <2>2
<1> QED
  BY <1>1, <1>2, <1>3, <1>4

(* Whoever has not just searched does not touch what there is to search.   *)
LEMMA NothingOldStays ==
  ASSUME NothingOld,
         call'.op = "expect" => /\ UNCHANGED <<call, incoming, freshlen>>
                                /\ pc[Main] = "search" => pc'[Main] = "search"
  PROVE  NothingOld'
  BY DEF NothingOld, Seen

LEMMA SearchDone ==
  ASSUME SharedInv, NothingOld, SearchIncoming
  PROVE  NothingOld'
<1>1. TypeInv /\ call.op = "expect" /\ pc[Main] = "search"
  BY DEF SharedInv, TypeInv, Places, MainAt, InIsalive, SearchIncoming
<1>2. CASE call'.op # "expect"
  BY <1>2 DEF NothingOld
<1>3. CASE call'.op = "expect" /\ call.search.window # NoWindow
  <2>1. call' = call
    BY <1>3, RaiseType DEF SearchIncoming, Finish, Raise, NoCall, CallOf, user, loop
  <2> QED
    BY <1>3, <2>1 DEF NothingOld
<1>4. CASE call'.op = "expect" /\ call.search.window = NoWindow
  <2> DEFINE ps == call.search.patterns
             whole == [k \in Strings(ps) |-> 0]
  <2>1. Match = NoMatch /\ UNCHANGED <<call, incoming, freshlen>>
    BY <1>4 DEF SearchIncoming, Finish, Raise, NoCall, CallOf, user, loop
  <2>2. /\ search_re(ps, incoming, NoWindow) = Best(ps, incoming, whole)
        /\ search_string(ps, incoming, freshlen, NoWindow) = Best(ps, incoming, whole)
        /\ \A k \in Strings(ps) : Found(ps, incoming, whole, k) = Seen(k)
    BY <1>1, <1>4, StringSearch
  <2>3. Best(ps, incoming, whole) = NoMatch
    BY <1>4, <2>1, <2>2 DEF Match
  <2>4. \A k \in Strings(ps) : Seen(k) = {}
    <3>1. ps \in Seq(Seq(STRING)) /\ Len(incoming) \in Nat
      BY <1>1, SearchTypes
    <3>2. \A k \in Strings(ps) : whole[k] \in Nat
      OBVIOUS
    <3> HIDE DEF ps, whole
    <3>3. \A k \in Strings(ps) : Found(ps, incoming, whole, k) = {}
      BY <2>3, <3>1, <3>2, BestFound DEF NoMatch
    <3> QED
      BY <2>2, <3>3
  <2> QED
    BY <2>1, <2>4 DEF NothingOld, Seen
<1> QED
  BY <1>2, <1>3, <1>4

(* More is read, and what is new is searched.                              *)
LEMMA FreshRead ==
  ASSUME TypeInv, NothingOld, call.op = "expect", call' = call, pc[Main] # "search",
         pc'[Main] = "search", NEW m \in Seq(Alphabet), incoming' = Cat(incoming, m),
         m # <<>> => freshlen' = Len(m)
  PROVE  NothingOld'
<1> SUFFICES ASSUME call.search.window = NoWindow,
                    NEW k \in Strings(call.search.patterns),
                    NEW n \in Occurs(incoming', call.search.patterns[k], 0) \ {Len(incoming')}
             PROVE  n >= Len(incoming') - freshlen' - Len(call.search.patterns[k])
  BY DEF NothingOld, Seen
<1> DEFINE p == call.search.patterns[k]
<1>1. incoming \in Seq(Alphabet) /\ Len(p) \in Nat
  BY SearchTypes
<1>2. Occurs(incoming, p, 0) \ {Len(incoming)} = {}
  BY DEF NothingOld, Seen
<1>3. n \in Occurs(Cat(incoming, m), p, 0) \ {Len(Cat(incoming, m))}
  OBVIOUS
<1> HIDE DEF p
<1>4. n >= Len(Cat(incoming, m)) - Len(m) - Len(p) /\ m # <<>>
  BY <1>1, <1>2, <1>3, FoundLater
<1> QED
  BY <1>4 DEF p

LEMMA DrainReadsOnly ==
  ASSUME ReadSteps(Drain)
  PROVE  UNCHANGED <<call, incoming, freshlen>>
<1>1. CASE Read(Drain)
  BY <1>1, TwoThreads DEF Read, RaiseEOF, Raise, user, loop
<1>2. CASE ReadNonblocking(Drain)
  BY <1>2, TwoThreads DEF ReadNonblocking, Raise, user, loop
<1>3. CASE Poll(Drain)
  BY <1>3, TwoThreads DEF Poll, RaiseEOF, Raise, user, loop
<1>4. CASE Select(Drain)
  BY <1>4, TwoThreads DEF Select, Raise, user, loop
<1> QED
  BY <1>1, <1>2, <1>3, <1>4 DEF ReadSteps

LEMMA ReadOld ==
  ASSUME SharedInv, NothingOld, NEW t \in Threads, ReadSteps(t)
  PROVE  NothingOld'
<1>1. TypeInv
  BY DEF SharedInv
<1>2. Others(t) /\ pc[t] \in {"rnb", "poll", "select", "read"}
  BY <1>1, ReadEffect
<1>3. CASE t = Drain
  <2>1. pc'[Main] = pc[Main] /\ UNCHANGED <<call, incoming, freshlen>>
    BY <1>2, <1>3, DrainReadsOnly, TwoThreads DEF Others
  <2> QED
    BY <2>1, NothingOldStays
<1>4. CASE t = Main
  <2>1. call.op = "expect" /\ pc[Main] # "search"
    BY <1>1, <1>2, <1>4 DEF TypeInv, Places, MainAt, InIsalive
  <2>2. ASSUME NEW e, Raise(t, e) PROVE NothingOld'
    <3>1. call'.op # "expect"
      BY <1>4, <2>2, TwoThreads DEF Raise, Finish, NoCall, CallOf
    <3> QED
      BY <3>1, NothingOldStays
  <2>3. ASSUME UNCHANGED user PROVE NothingOld'
    BY <2>1, <2>3, NothingOldStays DEF user, loop
  <2>4. CASE Read(t)
    <3>1. CASE ~(fdOpen /\ pty # <<>>)
      BY <2>2, <2>4, <3>1 DEF Read, RaiseEOF
    <3>2. CASE fdOpen /\ pty # <<>>
      <4> DEFINE n == Min({maxread, Len(pty)})
                 s == SubSeq(pty, 1, n)
      <4>1. /\ incoming' = Cat(incoming, s) /\ freshlen' = n /\ call' = call
            /\ Goto(Main, "search")
        BY <1>4, <2>4, <3>2, TwoThreads DEF Read, Cat
      <4>2. s \in Seq(Alphabet) /\ Len(s) = n
        BY <1>1, <3>2, OneRead
      <4>3. pc'[Main] = "search"
        BY <1>1, <4>1 DEF Goto, TypeInv, Places, Threads
      <4> HIDE DEF n, s
      <4> QED
        BY <1>1, <2>1, <4>1, <4>2, <4>3, FreshRead
    <3> QED
      BY <3>1, <3>2
  <2>5. CASE ReadNonblocking(t)
    BY <2>2, <2>3, <2>5 DEF ReadNonblocking
  <2>6. CASE Poll(t)
    BY <2>2, <2>3, <2>6 DEF Poll, RaiseEOF
  <2>7. CASE Select(t)
    BY <2>2, <2>3, <2>7 DEF Select
  <2> QED
    BY <2>4, <2>5, <2>6, <2>7 DEF ReadSteps
<1> QED
  BY <1>3, <1>4, TwoThreads

LEMMA GetOld ==
  ASSUME SharedInv, NothingOld, Get
  PROVE  NothingOld'
<1>1. TypeInv /\ pc[Main] = "get" /\ call.op = "expect"
  BY DEF SharedInv, TypeInv, Places, MainAt, InIsalive, Get
<1>2. call' = call /\ pc'[Main] = "search"
  BY <1>1 DEF Get, Goto, TypeInv, Places, Threads
<1>3. incoming \in Seq(Alphabet) /\ <<>> \in Seq(Alphabet)
  BY <1>1, StringTypes
<1>4. CASE readQueue = <<>>
  <2>1. incoming' = Cat(incoming, <<>>)
    BY <1>3, <1>4, CatNone DEF Get
  <2> QED
    BY <1>1, <1>2, <1>3, <2>1, FreshRead
<1>5. CASE readQueue # <<>>
  <2> DEFINE s == Head(readQueue)
  <2>1. incoming' = Cat(incoming, s) /\ (s # <<>> => freshlen' = Len(s))
    BY <1>5 DEF Get, None, Cat
  <2>2. s \in Seq(Alphabet)
    BY <1>1, <1>5, HeadRest DEF TypeInv, ThreadOK
  <2> HIDE DEF s
  <2> QED
    BY <1>1, <1>2, <2>1, <2>2, FreshRead
<1> QED
  BY <1>4, <1>5

LEMMA ProgramOld ==
  ASSUME SharedInv, NothingOld, Program
  PROVE  NothingOld'
<1>1. TypeInv /\ pc[Main] = "idle"
  BY ProgramEffect DEF SharedInv
<1>2. call.op # "expect"
  BY <1>1 DEF TypeInv, Places, MainAt, InIsalive
<1>3. ASSUME call'.op # "expect" PROVE NothingOld'
  BY <1>3, NothingOldStays
<1>4. CASE Expect
  <2>1. \/ UNCHANGED call
        \/ /\ incoming' = buffer /\ freshlen' = Len(buffer)
           /\ pc'[Main] = "search" /\ call'.op = "expect"
           /\ call'.search \in Searches
    <3>1. PICK s \in Searches, t \in BOOLEAN :
        \/ UNCHANGED call
        \/ /\ call' = [op |-> "expect", search |-> s, timed |-> t, force |-> FALSE]
           /\ incoming' = buffer /\ freshlen' = Len(buffer)
           /\ pc' = [pc EXCEPT ![Main] = "search",
                               ![Drain] = IF drainpty /\ @ = "unborn" THEN "boot" ELSE @]
      BY <1>4 DEF Expect
    <3>2. DOMAIN pc = Threads
      BY <1>1 DEF TypeInv, Places
    <3> QED
      BY <3>1, <3>2, TwoThreads
  <2>2. CASE call' = call
    BY <1>2, <1>3, <2>2
  <2>3. CASE /\ incoming' = buffer /\ freshlen' = Len(buffer)
             /\ pc'[Main] = "search" /\ call'.op = "expect"
             /\ call'.search \in Searches
    <3>1. /\ call'.search.patterns \in Seq(Seq(STRING)) /\ Len(buffer) \in Nat
          /\ buffer \in Seq(Alphabet)
      BY <1>1, <2>3, ExpectAssumption, StringTypes
    <3> SUFFICES ASSUME NEW k \in Strings(call'.search.patterns),
                        NEW n \in Occurs(buffer, call'.search.patterns[k], 0)
                 PROVE  n >= Len(buffer) - Len(buffer) - Len(call'.search.patterns[k])
      BY <2>3 DEF NothingOld, Seen
    <3>2. Len(call'.search.patterns[k]) \in Nat
      BY <3>1 DEF Strings
    <3>3. n \in Nat
      BY <3>1, <3>2 DEF Occurs
    <3> QED
      BY <3>1, <3>2, <3>3
  <2> QED
    BY <2>1, <2>2, <2>3
<1>5. CASE IsAlive \/ Wait \/ Terminate \/ Close
  BY <1>3, <1>5 DEF IsAlive, Wait, Terminate, Close, Begin, CallOf
<1> QED
  BY <1>4, <1>5 DEF Program

LEMMA OldKept ==
  ASSUME SharedInv, Grown, NothingOld, [Next]_vars
  PROVE  NothingOld'
<1>1. TypeInv
  BY DEF SharedInv
<1>2. ASSUME NEW t \in Threads, AliveSteps(t) PROVE NothingOld'
  <2>1. call'.op = "expect" => UNCHANGED <<call, incoming, freshlen>>
    BY <1>2, AliveKeeps DEF UserKept
  <2>2. Others(t) /\ pc[t] \in InIsalive \cup {"waitpid"}
    BY <1>1, <1>2, AliveEffect DEF Answering, Inside
  <2>3. pc[Main] = "search" => pc'[Main] = "search"
    BY <2>2, TwoThreads DEF Others, InIsalive
  <2> QED
    BY <2>1, <2>3, NothingOldStays
<1>3. CASE Signal \/ Stop \/ CloseTerminal \/ Shut
  <2>1. call.op # "expect"
    BY <1>1, <1>3 DEF TypeInv, Places, MainAt, InIsalive, Signal, Stop, CloseTerminal, Shut
  <2>2. call' = call \/ call' = NoCall
    BY <1>1, <1>3, MainEffect
  <2>3. call'.op # "expect"
    BY <2>1, <2>2 DEF NoCall, CallOf
  <2> QED
    BY <2>3, NothingOldStays
<1>4. ASSUME UNCHANGED user, pc'[Main] = pc[Main] PROVE NothingOld'
  BY <1>4, NothingOldStays DEF user, loop
<1>5. CASE ThreadStarts \/ ThreadLoops \/ ThreadPuts \/ ThreadSeesEOF \/ ThreadEnds
  BY <1>1, <1>4, <1>5, ThreadEffect, TwoThreads DEF Others
<1>6. CASE Child
  BY <1>4, <1>6 DEF Child, Write, HangUp, Exit, control
<1>7. CASE UNCHANGED vars
  BY <1>4, <1>7 DEF vars, control
<1> QED
  BY <1>2, <1>3, <1>5, <1>6, <1>7, ReadOld, SearchDone, GetOld, ProgramOld, TwoThreads
  DEF Next, MainStep, ThreadStep

(* The fresh characters are enough: expect_exact, which searches only what *)
(* can be new, finds what a search of everything finds, for any patterns   *)
(* and however the output was cut by the reads, the queue and the calls    *)
(* (searcher_string.search, pexpect.py).                                   *)
THEOREM FreshIsEnough == Spec => []SearchersAgree
<1>1. TypeInv /\ NothingOld => SearchersAgree
  <2> SUFFICES ASSUME TypeInv, NothingOld, pc[Main] = "search",
                      call.search.window = NoWindow
               PROVE  search_string(call.search.patterns, incoming, freshlen, NoWindow)
                        = search_re(call.search.patterns, incoming, NoWindow)
    BY DEF SearchersAgree
  <2>1. call.op = "expect"
    BY DEF TypeInv, Places, MainAt, InIsalive
  <2> QED
    BY <2>1, StringSearch
<1>2. Init => NothingOld
  BY DEF Init, NothingOld, NoCall, CallOf
<1>3. FlowInv /\ NothingOld /\ [Next]_vars => NothingOld'
  BY OldKept DEF FlowInv
<1>4. FlowInv => TypeInv
  BY DEF FlowInv, SharedInv
<1> QED
  BY <1>1, <1>2, <1>3, <1>4, FlowAlways, PTL DEF Spec

-----------------------------------------------------------------------------
(* The stream.                                                             *)

(* Some elements of w, in order.                                           *)
PartOf(t, w) ==
  /\ Len(t) <= Len(w)
  /\ \E f \in [1 .. Len(t) -> 1 .. Len(w)] :
       /\ \A i, j \in 1 .. Len(t) : i < j => f[i] < f[j]
       /\ \A k \in 1 .. Len(t) : t[k] = w[f[k]]

LEMMA PartsIs ==
  ASSUME NEW T, NEW w \in Seq(T), NEW t \in Seq(T), PartOf(t, w)
  PROVE  t \in S!Parts(w)
<1>1. PICK f \in [1 .. Len(t) -> 1 .. Len(w)] :
        /\ \A i, j \in 1 .. Len(t) : i < j => f[i] < f[j]
        /\ \A k \in 1 .. Len(t) : t[k] = w[f[k]]
  BY DEF PartOf
<1>2. f \in S!Rising(Len(t), Len(w))
  BY <1>1 DEF S!Rising
<1>3. Len(t) \in 0 .. Len(w)
  BY DEF PartOf
<1> DEFINE u == [k \in 1 .. Len(t) |-> w[f[k]]]
<1>4. t = u
  <2>1. DOMAIN t = 1 .. Len(t)
    OBVIOUS
  <2>2. t = [k \in 1 .. Len(t) |-> t[k]]
    BY <2>1
  <2> QED
    BY <1>1, <2>2
<1> QED
  BY <1>2, <1>3, <1>4 DEF S!Parts

LEMMA PartDrop ==
  ASSUME NEW T, NEW w \in Seq(T), NEW x \in Seq(T), NEW y \in Seq(T), NEW z \in Seq(T),
         PartOf(Cat(Cat(x, y), z), w)
  PROVE  PartOf(Cat(x, z), w)
<1> DEFINE t == Cat(Cat(x, y), z)
           u == Cat(x, z)
<1>1. /\ Len(x) \in Nat /\ Len(y) \in Nat /\ Len(z) \in Nat /\ Len(w) \in Nat
      /\ Len(t) = Len(x) + Len(y) + Len(z) /\ Len(u) = Len(x) + Len(z)
  BY ConcatProperties DEF Cat
<1>2. /\ \A k \in 1 .. Len(x) : t[k] = x[k] /\ u[k] = x[k]
      /\ \A k \in 1 .. Len(z) : /\ t[Len(x) + Len(y) + k] = z[k]
                                /\ u[Len(x) + k] = z[k]
  <2>1. x \o y \in Seq(T) /\ Len(x \o y) = Len(x) + Len(y)
    BY ConcatProperties
  <2>2. ASSUME NEW k \in 1 .. Len(x) PROVE t[k] = x[k] /\ u[k] = x[k]
    <3>1. (x \o y)[k] = x[k] /\ u[k] = x[k]
      BY ConcatProperties DEF Cat
    <3>2. t[k] = (x \o y)[k]
      BY <1>1, <2>1, ConcatProperties DEF Cat
    <3> QED
      BY <3>1, <3>2
  <2>3. ASSUME NEW k \in 1 .. Len(z)
        PROVE  t[Len(x) + Len(y) + k] = z[k] /\ u[Len(x) + k] = z[k]
    BY <1>1, <2>1, ConcatProperties DEF Cat
  <2> QED
    BY <2>2, <2>3
<1> HIDE DEF t, u
<1>3. PICK f \in [1 .. Len(t) -> 1 .. Len(w)] :
        /\ \A i, j \in 1 .. Len(t) : i < j => f[i] < f[j]
        /\ \A k \in 1 .. Len(t) : t[k] = w[f[k]]
  BY DEF PartOf, t
<1> DEFINE at(k) == IF k <= Len(x) THEN k ELSE k + Len(y)
           g == [k \in 1 .. Len(u) |-> f[at(k)]]
<1>4. \A k \in 1 .. Len(u) : at(k) \in 1 .. Len(t) /\ u[k] = t[at(k)]
  <2> SUFFICES ASSUME NEW k \in 1 .. Len(u)
               PROVE  at(k) \in 1 .. Len(t) /\ u[k] = t[at(k)]
    OBVIOUS
  <2>1. CASE k <= Len(x)
    BY <1>1, <1>2, <2>1
  <2>2. CASE k > Len(x)
    <3> DEFINE j == k - Len(x)
    <3>1. /\ j \in 1 .. Len(z) /\ Len(x) + j = k
          /\ Len(x) + Len(y) + j = at(k) /\ at(k) \in 1 .. Len(t)
      BY <1>1, <2>2
    <3> HIDE DEF j, at
    <3>2. t[Len(x) + Len(y) + j] = z[j] /\ u[Len(x) + j] = z[j]
      BY <1>2, <3>1
    <3> QED
      BY <3>1, <3>2
  <2> QED
    BY <1>1, <2>1, <2>2
<1>5. \A i, j \in 1 .. Len(u) : i < j => at(i) < at(j)
  BY <1>1
<1> HIDE DEF at
<1>6. g \in [1 .. Len(u) -> 1 .. Len(w)]
  BY <1>3, <1>4
<1>7. \A i, j \in 1 .. Len(u) : i < j => g[i] < g[j]
  BY <1>3, <1>4, <1>5
<1>8. \A k \in 1 .. Len(u) : u[k] = w[g[k]]
  BY <1>3, <1>4
<1>9. Len(u) <= Len(w)
  BY <1>1 DEF PartOf, t
<1> HIDE DEF g
<1> QED
  BY <1>6, <1>7, <1>8, <1>9 DEF PartOf, u

LEMMA PartAppend ==
  ASSUME NEW T, NEW w \in Seq(T), NEW t \in Seq(T), NEW c \in T, PartOf(t, w)
  PROVE  PartOf(Append(t, c), Append(w, c))
<1> DEFINE u == Append(t, c)
           v == Append(w, c)
<1>1. /\ Len(t) \in Nat /\ Len(w) \in Nat /\ Len(t) <= Len(w)
      /\ Len(u) = Len(t) + 1 /\ Len(v) = Len(w) + 1
      /\ u[Len(u)] = c /\ v[Len(v)] = c
      /\ \A k \in 1 .. Len(t) : u[k] = t[k]
      /\ \A k \in 1 .. Len(w) : v[k] = w[k]
  BY AppendProperties DEF PartOf
<1>2. PICK f \in [1 .. Len(t) -> 1 .. Len(w)] :
        /\ \A i, j \in 1 .. Len(t) : i < j => f[i] < f[j]
        /\ \A k \in 1 .. Len(t) : t[k] = w[f[k]]
  BY DEF PartOf
<1> HIDE DEF u, v
<1> DEFINE g == [k \in 1 .. Len(u) |-> IF k = Len(u) THEN Len(v) ELSE f[k]]
<1>3. /\ g[Len(u)] = Len(v)
      /\ \A k \in 1 .. Len(t) : g[k] = f[k] /\ g[k] \in 1 .. Len(w)
  <2>1. Len(u) \in 1 .. Len(u)
    BY <1>1
  <2>2. \A k \in 1 .. Len(t) : k \in 1 .. Len(u) /\ k # Len(u) /\ f[k] \in 1 .. Len(w)
    BY <1>1, <1>2
  <2> QED
    BY <2>1, <2>2
<1>4. \A k \in 1 .. Len(u) : k = Len(u) \/ k \in 1 .. Len(t)
  BY <1>1
<1>5. g \in [1 .. Len(u) -> 1 .. Len(v)]
  BY <1>1, <1>2
<1> HIDE DEF g
<1>6. \A i, j \in 1 .. Len(u) : i < j => g[i] < g[j]
  BY <1>1, <1>2, <1>3, <1>4
<1>7. \A k \in 1 .. Len(u) : u[k] = v[g[k]]
  BY <1>1, <1>2, <1>3, <1>4
<1>8. PartOf(u, v)
  <2>1. Len(u) <= Len(v)
    BY <1>1
  <2>2. \E h \in [1 .. Len(u) -> 1 .. Len(v)] :
          /\ \A i, j \in 1 .. Len(u) : i < j => h[i] < h[j]
          /\ \A k \in 1 .. Len(u) : u[k] = v[h[k]]
    BY <1>5, <1>6, <1>7
  <2> QED
    BY <2>1, <2>2, Zenon DEF PartOf
<1> QED
  BY <1>8 DEF u, v

LEMMA PrefixIs ==
  ASSUME NEW T, NEW s \in Seq(T), NEW t \in Seq(T)
  PROVE  s \in S!Prefixes(Cat(s, t)) /\ S!IsPrefix(s, Cat(s, t))
<1>1. /\ Len(s) \in Nat /\ Len(t) \in Nat /\ Len(Cat(s, t)) = Len(s) + Len(t)
  BY ConcatProperties DEF Cat
<1>2. SubSeq(s, 1, Len(s)) = s
  BY SubSeqFull
<1>3. SubSeq(Cat(s, t), 1, Len(s)) = s
  <2>1. CASE s = <<>>
    BY <1>1, <2>1, SubSeqEmpty
  <2>2. CASE s # <<>>
    <3>1. 1 \in 1 .. Len(s) /\ Len(s) \in 1 .. Len(s)
      BY <1>1, <2>2
    <3> QED
      BY <1>2, <3>1, SubSeqOfConcat1 DEF Cat
  <2> QED
    BY <2>1, <2>2
<1>4. Len(s) \in 0 .. Len(Cat(s, t)) /\ Len(s) <= Len(Cat(s, t))
  BY <1>1
<1> QED
  BY <1>2, <1>3, <1>4 DEF S!Prefixes, S!IsPrefix

(* The program listens to the queue.                                       *)
Listens == drainpty \/ pc[Main] = "get"

(* What the program has or will be given: what the thread has read is lost *)
(* to it when it no longer listens to the queue.                           *)
Due(q) == IF Listens THEN q ELSE <<>>
OrderInv == PartOf(Cat(Cat(Mine, Due(Queued)), pty), written)

LEMMA ListensBefore ==
  ASSUME SharedInv, [Next]_vars, Listens'
  PROVE  Listens
<1>1. TypeInv /\ drainpty \in BOOLEAN
  BY DEF SharedInv, TypeInv, FlagsOK
<1>2. ASSUME drainpty' = drainpty, pc'[Main] = "get" => pc[Main] = "get"
      PROVE  Listens
  BY <1>2, Zenon DEF Listens
<1>3. ASSUME NEW t \in Threads, AliveSteps(t) PROVE Listens
  <2>1. drainpty' = drainpty
    BY <1>1, <1>3, AliveEffect
  <2>2. Others(t) /\ pc'[t] # "get"
    BY <1>1, <1>3, AliveEffect DEF Answering, Inside
  <2> QED
    BY <1>2, <2>1, <2>2, TwoThreads DEF Others
<1>4. ASSUME NEW t \in Threads, ReadSteps(t) PROVE Listens
  <2>1. drainpty' = drainpty /\ Others(t) /\ pc'[t] # "get"
    BY <1>1, <1>4, ReadEffect
  <2> QED
    BY <1>2, <2>1, TwoThreads DEF Others
<1>5. CASE SearchIncoming
  <2>1. drainpty' = drainpty
    BY <1>1, <1>5, MainEffect
  <2>2. CASE drainpty
    BY <2>2 DEF Listens
  <2>3. CASE ~drainpty
    <3>1. Finish("match") \/ Raise(Main, "TIMEOUT") \/ Goto(Main, "rnb")
      BY <1>5, <2>3, Zenon DEF SearchIncoming
    <3>2. pc'[Main] # "get"
      BY <1>1, <3>1, TwoThreads DEF Raise, Finish, Goto, TypeInv, Places, Threads
    <3> QED
      BY <1>2, <2>1, <3>2
  <2> QED
    BY <2>2, <2>3
<1>6. CASE Get \/ Signal \/ Stop \/ CloseTerminal \/ Shut
  <2>1. /\ drainpty' = drainpty
        /\ pc[Main] \in {"get", "signal", "stop", "osclose", "shut"}
    BY <1>1, <1>6, MainEffect DEF Get, Signal, Stop, CloseTerminal, Shut
  <2>2. pc[Main] # "get" => pc'[Main] # "get"
    <3> SUFFICES ASSUME pc[Main] # "get" PROVE pc'[Main] # "get"
      OBVIOUS
    <3>1. Goto(Main, "osclose") \/ (\E w : isalive(Main, w)) \/ (\E r : Finish(r))
      BY <1>6, TwoThreads DEF Get, Signal, Stop, CloseTerminal, Shut, Raise
    <3> QED
      BY <1>1, <3>1 DEF Goto, isalive, Finish, TypeInv, Places, Threads
  <2> QED
    BY <1>2, <2>1, <2>2
<1>7. CASE Program
  <2>1. drainpty' = drainpty /\ pc'[Main] # "get"
    BY <1>1, <1>7, ProgramEffect DEF flags
  <2> QED
    BY <1>2, <2>1
<1>8. CASE ThreadStarts \/ ThreadLoops \/ ThreadPuts \/ ThreadSeesEOF \/ ThreadEnds
  <2>1. pc'[Main] = pc[Main] /\ (drainpty' = FALSE \/ drainpty' = drainpty)
    BY <1>1, <1>8, ThreadEffect, TwoThreads DEF Others
  <2> QED
    BY <2>1, Zenon DEF Listens
<1>9. CASE Child \/ UNCHANGED vars
  <2>1. drainpty' = drainpty /\ pc' = pc
    BY <1>9 DEF Child, Write, HangUp, Exit, vars, flags, control
  <2> QED
    BY <1>2, <2>1
<1> QED
  BY <1>3, <1>4, <1>5, <1>6, <1>7, <1>8, <1>9, TwoThreads DEF Next, MainStep, ThreadStep

LEMMA OrderKept ==
  ASSUME SharedInv, SharedInv', Grown, OrderInv, [Next]_vars
  PROVE  OrderInv'
<1> DEFINE A == Mine
           B == Queued
           C == pty
           Z == IF Listens THEN Queued' ELSE <<>>
<1>1. TypeInv /\ TypeInv' /\ Solo
  BY DEF SharedInv, Shared
<1>2. /\ A \in Seq(Alphabet) /\ B \in Seq(Alphabet) /\ C \in Seq(Alphabet)
      /\ A' \in Seq(Alphabet) /\ B' \in Seq(Alphabet) /\ C' \in Seq(Alphabet)
      /\ written \in Seq(Alphabet) /\ written' \in Seq(Alphabet)
      /\ <<>> \in Seq(Alphabet) /\ Z \in Seq(Alphabet)
  BY <1>1, StringTypes, NextStringTypes DEF TypeInv, KernelOK
(* If the program goes on to listen or not,                                *)
<1>3. PartOf(Cat(Cat(A', Z), C'), written')
  <2>1. Flows
    BY StepFlows
  <2>2. CASE Still
    <3>1. Due(Queued) = Z /\ A' = A /\ C' = C /\ written' = written
      BY <2>2 DEF Still, Due
    <3> QED
      BY <3>1 DEF OrderInv
  <2>3. CASE Lost
    <3>1. PICK m \in Seq(Alphabet) : A = Cat(A', m)
      BY <2>3 DEF Lost
    <3>2. Due(Queued) = Z /\ C' = C /\ written' = written
      BY <2>3 DEF Lost, Due
    <3>3. PartOf(Cat(Cat(Cat(A', m), Z), C'), written')
      BY <3>1, <3>2 DEF OrderInv
    <3> HIDE DEF A, B, C, Z
    <3>4. Cat(A', m) \in Seq(Alphabet) /\ Cat(Z, C') \in Seq(Alphabet)
      BY <1>2, <3>1, CatType
    <3>5. Cat(Cat(Cat(A', m), Z), C') = Cat(Cat(A', m), Cat(Z, C'))
      BY <1>2, <3>4, Assoc
    <3>6. PartOf(Cat(A', Cat(Z, C')), written')
      BY <1>2, <3>1, <3>3, <3>4, <3>5, PartDrop
    <3>7. Cat(A', Cat(Z, C')) = Cat(Cat(A', Z), C')
      BY <1>2, Assoc
    <3> QED
      BY <3>6, <3>7
  <2>4. CASE MainReads
    <3>1. PICK s \in Seq(Alphabet) : C = Cat(s, C') /\ A' = Cat(A, s)
      BY <2>4 DEF MainReads
    <3>2. ~Listens /\ written' = written
      BY <1>1, <2>4 DEF MainReads, Solo, Reads, Listens
    <3>3. Z = <<>> /\ PartOf(Cat(Cat(A, <<>>), C), written')
      BY <3>2 DEF OrderInv, Due
    <3> HIDE DEF A, B, C, Z
    <3>4. Cat(A, <<>>) = A /\ Cat(A', Z) = A'
      BY <1>2, <3>3, CatNone
    <3>5. Cat(Cat(A', Z), C') = Cat(Cat(A, s), C')
      BY <3>1, <3>4
    <3>6. Cat(A, C) = Cat(A, Cat(s, C'))
      BY <3>1
    <3>7. Cat(Cat(A, s), C') = Cat(A, Cat(s, C'))
      BY <1>2, Assoc
    <3> QED
      BY <3>3, <3>4, <3>5, <3>6, <3>7
  <2>5. CASE DrainReads
    <3>1. PICK s \in Seq(Alphabet) : C = Cat(s, C') /\ B' = Cat(B, s)
      BY <2>5 DEF DrainReads
    <3>2. Listens /\ written' = written /\ A' = A
      BY <1>1, <2>5 DEF DrainReads, Solo, Listens
    <3>3. Z = B' /\ PartOf(Cat(Cat(A, B), C), written')
      BY <3>2 DEF OrderInv, Due
    <3> HIDE DEF A, B, C, Z
    <3>4. Cat(A, B) \in Seq(Alphabet)
      BY <1>2, CatType
    <3>5. Cat(Cat(A', Z), C') = Cat(Cat(A, Cat(B, s)), C')
      BY <3>1, <3>2, <3>3
    <3>6. Cat(A, Cat(B, s)) = Cat(Cat(A, B), s)
      BY <1>2, Assoc
    <3>7. Cat(Cat(Cat(A, B), s), C') = Cat(Cat(A, B), Cat(s, C'))
      BY <1>2, <3>4, Assoc
    <3> QED
      BY <3>1, <3>3, <3>5, <3>6, <3>7
  <2>6. CASE Gets
    <3>1. PICK s \in Seq(Alphabet) : B = Cat(s, B') /\ A' = Cat(A, s)
      BY <2>6 DEF Gets
    <3>2. Listens /\ written' = written /\ C' = C
      BY <2>6 DEF Gets, Listens
    <3>3. Z = B' /\ PartOf(Cat(Cat(A, B), C), written')
      BY <3>2 DEF OrderInv, Due
    <3> HIDE DEF A, B, C, Z
    <3>4. Cat(Cat(A', Z), C') = Cat(Cat(Cat(A, s), B'), C)
      BY <3>1, <3>2, <3>3
    <3>5. Cat(Cat(A, s), B') = Cat(A, Cat(s, B'))
      BY <1>2, Assoc
    <3> QED
      BY <3>1, <3>3, <3>4, <3>5
  <2>7. CASE Writes
    <3>1. PICK c \in Alphabet : written' = Append(written, c) /\ C' = Append(C, c)
      BY <2>7 DEF Writes
    <3>2. A' = A /\ Z = Due(Queued)
      BY <2>7 DEF Writes, Due
    <3>3. PartOf(Cat(Cat(A, Z), C), written)
      BY <3>2 DEF OrderInv
    <3> HIDE DEF A, B, C, Z
    <3> DEFINE d == <<c>>
               t == Cat(Cat(A, Z), C)
    <3>4. Cat(A, Z) \in Seq(Alphabet) /\ t \in Seq(Alphabet)
      BY <1>2, CatType
    <3>5. d \in Seq(Alphabet) /\ C' = Cat(C, d) /\ Append(t, c) = Cat(t, d)
      BY <1>2, <3>1, <3>4, AppendIsCat
    <3>6. PartOf(Append(t, c), written')
      BY <1>2, <3>1, <3>3, <3>4, PartAppend
    <3> HIDE DEF d
    <3>7. Cat(Cat(Cat(A, Z), C), d) = Cat(Cat(A, Z), Cat(C, d))
      BY <1>2, <3>4, <3>5, Assoc
    <3>8. Append(t, c) = Cat(Cat(A', Z), C')
      BY <3>2, <3>5, <3>7
    <3> QED
      BY <3>6, <3>8
  <2> QED
    BY <2>1, <2>2, <2>3, <2>4, <2>5, <2>6, <2>7 DEF Flows
(* what is left is still in order.                                         *)
<1>4. CASE Listens'
  <2>1. Listens
    BY <1>4, ListensBefore
  <2> QED
    BY <1>3, <1>4, <2>1 DEF OrderInv, Due
<1>5. CASE ~Listens'
  <2>1. Due(Queued)' = <<>>
    BY <1>5 DEF Due
  <2>2. OrderInv' <=> PartOf(Cat(Cat(A', <<>>), C'), written')
    BY <2>1 DEF OrderInv
  <2> HIDE DEF A, B, C, Z
  <2>3. PartOf(Cat(A', C'), written') /\ Cat(A', <<>>) = A'
    BY <1>2, <1>3, PartDrop, CatNone
  <2> QED
    BY <2>2, <2>3
<1> QED
  BY <1>4, <1>5

LEMMA OrderInit == Init => OrderInv
<1> SUFFICES ASSUME Init PROVE OrderInv
  OBVIOUS
<1>1. /\ given = <<>> /\ buffer = <<>> /\ readQueue = <<>> /\ chunk = <<>>
      /\ pty = <<>> /\ written = <<>> /\ call.op # "expect"
  BY DEF Init, NoCall, CallOf
<1>2. Cat(<<>>, <<>>) = <<>>
  <2>1. <<>> \in Seq(Alphabet)
    OBVIOUS
  <2> QED
    BY <2>1, CatNone
<1>3. Mine = <<>> /\ Queued = <<>>
  BY <1>1, <1>2, FlattenNone DEF Mine, Queued
<1>4. Due(Queued) = <<>>
  BY <1>3 DEF Due
<1>5. Cat(Cat(Mine, Due(Queued)), pty) = <<>>
  BY <1>1, <1>2, <1>3, <1>4
<1>6. PartOf(<<>>, <<>>)
  <2> DEFINE e == <<>>
             f == [i \in 1 .. Len(e) |-> i]
  <2>1. Len(e) <= Len(e) /\ 1 .. Len(e) = {}
    OBVIOUS
  <2> HIDE DEF e
  <2>2. f \in [1 .. Len(e) -> 1 .. Len(e)]
    OBVIOUS
  <2>3. PartOf(e, e)
    BY <2>1, <2>2 DEF PartOf
  <2> QED
    BY <2>3 DEF e
<1> QED
  BY <1>1, <1>5, <1>6 DEF OrderInv

LEMMA StreamStep ==
  ASSUME FlowInv, OrderInv, [Next]_vars
  PROVE  [S!Next]_(S!vars)
<1>1. SharedInv /\ Grown /\ TypeInv /\ Flows /\ NewGiven
  BY StepFlows DEF FlowInv, SharedInv, Flows
<1>2. /\ given \in Seq(Alphabet) /\ incoming \in Seq(Alphabet) /\ buffer \in Seq(Alphabet)
      /\ Mine \in Seq(Alphabet) /\ Queued \in Seq(Alphabet) /\ pty \in Seq(Alphabet)
      /\ written \in Seq(Alphabet) /\ <<>> \in Seq(Alphabet)
  BY <1>1, StringTypes
<1>3. CASE Writes
  <2>1. /\ given' = given /\ (Over' <=> Over)
        /\ \E c \in Alphabet : written' = Append(written, c)
    BY <1>3 DEF Writes
  <2>2. Over' = Over
    BY <2>1, Zenon DEF Over
  <2>3. S!Write
    BY <2>1, <2>2 DEF S!Write
  <2> QED
    BY <2>3 DEF S!Next
<1>4. CASE ~Writes
  <2>1. written' = written
    BY <1>1, <1>4 DEF Flows, Still, Lost, MainReads, DrainReads, Gets
  <2>2. PICK r \in Seq(Alphabet), q \in Seq(Alphabet) :
          given' = Cat(given, r) /\ Mine = Cat(given', q)
    <3>1. CASE given' = given
      <4>1. given' = Cat(given, <<>>)
        BY <1>2, <3>1, CatNone
      <4> QED
        BY <1>2, <3>1, <4>1 DEF Mine
    <3>2. CASE /\ call.op = "expect"
               /\ \E r, q \in Seq(Alphabet) : incoming = Cat(r, q) /\ given' = Cat(given, r)
      <4>1. PICK r \in Seq(Alphabet), q \in Seq(Alphabet) :
              incoming = Cat(r, q) /\ given' = Cat(given, r)
        BY <3>2
      <4>2. Mine = Cat(given, Cat(r, q))
        BY <3>2, <4>1 DEF Mine
      <4>3. Mine = Cat(given', q)
        BY <1>2, <4>1, <4>2, Assoc
      <4> QED
        BY <4>1, <4>3
    <3> QED
      BY <1>1, <3>1, <3>2 DEF NewGiven
  <2>3. given' \in Seq(Alphabet) /\ S!IsPrefix(given, given')
    BY <1>2, <2>2, CatType, PrefixIs
  (* Before the end: what the program has is where the output begins.     *)
  <2>4. CASE ~Over
    <3>1. written = Cat(Cat(Cat(given', q), Queued), pty)
      BY <2>2, <2>4 DEF FlowInv, Whole
    <3> DEFINE rest == Cat(Cat(q, Queued), pty)
    <3>2. rest \in Seq(Alphabet) /\ Cat(q, Queued) \in Seq(Alphabet)
      BY <1>2, CatType
    <3>3. Cat(Cat(given', q), Queued) = Cat(given', Cat(q, Queued))
      BY <1>2, <2>3, Assoc
    <3>4. Cat(Cat(given', Cat(q, Queued)), pty) = Cat(given', rest)
      BY <1>2, <2>3, <3>2, Assoc
    <3>5. given' \in S!Prefixes(written)
      <4>1. written = Cat(given', rest)
        BY <3>1, <3>3, <3>4
      <4> HIDE DEF rest
      <4> QED
        BY <2>3, <3>2, <4>1, PrefixIs
    <3>6. Over' \in BOOLEAN
      BY DEF Over
    <3>7. S!Give
      BY <2>1, <2>3, <2>4, <3>5, <3>6 DEF S!Give
    <3> QED
      BY <3>7 DEF S!Next
  (* After it: it is a part of the output, in order.                      *)
  <2>5. CASE Over
    <3>1. Over' = Over
      <4>1. Over'
        BY <1>1, <2>5, OverStays
      <4> QED
        BY <2>5, <4>1, Zenon DEF Over
    <3> DEFINE rest == Cat(Cat(q, Due(Queued)), pty)
    <3>2. Due(Queued) \in Seq(Alphabet)
      BY <1>2 DEF Due
    <3>3. rest \in Seq(Alphabet) /\ Cat(q, Due(Queued)) \in Seq(Alphabet)
      BY <1>2, <3>2, CatType
    <3>4. Cat(Cat(given', q), Due(Queued)) = Cat(given', Cat(q, Due(Queued)))
      BY <1>2, <2>3, <3>2, Assoc
    <3>5. Cat(Cat(given', Cat(q, Due(Queued))), pty) = Cat(given', rest)
      BY <1>2, <2>3, <3>3, Assoc
    <3>6. PartOf(Cat(given', rest), written)
      BY <2>2, <3>4, <3>5 DEF OrderInv
    <3> HIDE DEF rest
    <3>7. Cat(Cat(given', rest), <<>>) = Cat(given', rest) /\ Cat(given', <<>>) = given'
      BY <2>3, <3>3, CatType, CatNone
    <3>8. PartOf(given', written)
      <4> DEFINE e == <<>>
      <4>1. e \in Seq(Alphabet)
        OBVIOUS
      <4>2. PartOf(Cat(Cat(given', rest), e), written) /\ Cat(given', e) = given'
        BY <3>6, <3>7
      <4> HIDE DEF e
      <4>3. PartOf(Cat(given', e), written)
        BY <1>2, <2>3, <3>3, <4>1, <4>2, PartDrop
      <4> QED
        BY <4>2, <4>3
    <3>9. given' \in S!Parts(written)
      BY <1>2, <2>3, <3>8, PartsIs
    <3>10. S!GiveAfterEnd
      BY <2>1, <2>3, <2>5, <3>1, <3>9 DEF S!GiveAfterEnd
    <3> QED
      BY <3>10 DEF S!Next
  <2> QED
    BY <2>4, <2>5
<1> QED
  BY <1>3, <1>4

(* The spawn, its thread, its queue and its buffer together are a stream:  *)
(* what the expects of the program hand out is the output of the child, in *)
(* order and once, whole until the end of the terminal is seen or the      *)
(* program has closed it (expect_loop and Drainpty_Thread, pexpect.py).    *)
THEOREM StreamImplemented == Spec => InOrder
<1>1. Init => S!Init
  BY DEF Init, S!Init, Over
<1>2. FlowInv /\ OrderInv /\ [Next]_vars => [S!Next]_(S!vars)
  BY StreamStep
<1>3. FlowInv /\ FlowInv' /\ OrderInv /\ [Next]_vars => OrderInv'
  BY OrderKept DEF FlowInv
<1> QED
  BY <1>1, <1>2, <1>3, OrderInit, FlowAlways, PTL DEF Spec, InOrder, S!Spec
=============================================================================
