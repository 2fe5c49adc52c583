-------------------------------- MODULE MCQ1 ---------------------------------
(* Constants for checking Q1 with TLC.                                      *)
EXTENDS Q1, TLC

Symmetry == Permutations(Texts)
=============================================================================
