------------------------------ MODULE MCLkQueue ------------------------------
(* Constants for checking LkQueue with TLC.                                 *)
EXTENDS LkQueue, TLC

Symmetry ==
    Permutations(Pushers) \cup Permutations(Poppers) \cup Permutations(Strings)
=============================================================================
