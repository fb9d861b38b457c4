------------------------------ MODULE MCQsoLog ------------------------------
(***************************************************************************)
(* The session for TLC: the files are interchangeable.                     *)
(***************************************************************************)
EXTENDS QsoLog, TLC

Symmetry == Permutations(Files)
=============================================================================
