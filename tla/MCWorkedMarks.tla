--------------------------- MODULE MCWorkedMarks ---------------------------
(* The contests differ in nothing but their file, and the contacts of a     *)
(* kind in nothing.                                                         *)
EXTENDS WorkedMarks, TLC

MCSymmetry == Permutations(Contests) \cup Permutations(Typed) \cup Permutations(Automatic)
=============================================================================
