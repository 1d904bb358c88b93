---------------------------- MODULE MCJobControl ----------------------------
(***************************************************************************)
(* JobControl for TLC: the children are interchangeable, so states that    *)
(* differ only in their names are checked once.  The symmetry is used for  *)
(* safety properties only.                                                 *)
(***************************************************************************)
EXTENDS JobControl, TLC

Symmetry == Permutations(Pids)

=============================================================================
