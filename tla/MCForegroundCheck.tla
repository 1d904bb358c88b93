-------------------------- MODULE MCForegroundCheck --------------------------
(* ForegroundCheck for TLC: the children are interchangeable.              *)
EXTENDS ForegroundCheck, TLC

Symmetry == Permutations(Pids)
=============================================================================
