------------------------------- MODULE Stream -------------------------------
(***************************************************************************)
(* What a reader of a terminal is promised, whoever reads for it and       *)
(* however the output is buffered: it is given the characters in the order *)
(* they were written, none twice and none left out, until the end of the   *)
(* terminal has been seen.  From then on some may be left out, but what is *)
(* given still comes in order and once.                                    *)
(***************************************************************************)
EXTENDS Integers, SequencesExt

CONSTANT Alphabet

VARIABLES
  written,      (* by the writers of the terminal                          *)
  given,        (* to the reader, for good                                 *)
  over          (* the end of the terminal has been seen                   *)

vars == <<written, given, over>>

(* The sequences that leave out some elements of s: element k of one is    *)
(* element f[k] of s.                                                      *)
Rising(n, m) ==
  {f \in [1 .. n -> 1 .. m] : \A i, j \in 1 .. n : i < j => f[i] < f[j]}
Parts(s) ==
  UNION {{[k \in 1 .. n |-> s[f[k]]] : f \in Rising(n, Len(s))} :
           n \in 0 .. Len(s)}

Init == written = <<>> /\ given = <<>> /\ over = FALSE

Write ==
  /\ \E c \in Alphabet : written' = Append(written, c)
  /\ UNCHANGED <<given, over>>

Give ==
  /\ ~over
  /\ given' \in Prefixes(written)
  /\ IsPrefix(given, given')
  /\ over' \in BOOLEAN
  /\ UNCHANGED written

GiveAfterEnd ==
  /\ over
  /\ given' \in Parts(written)
  /\ IsPrefix(given, given')
  /\ UNCHANGED <<written, over>>

Next == Write \/ Give \/ GiveAfterEnd

Spec == Init /\ [][Next]_vars
=============================================================================
