----------------------------- MODULE MCLinkTime ------------------------------
(* Constants for checking LinkTime with TLC.                                *)
EXTENDS LinkTime, TLC

Symmetry == Permutations(Clients)
=============================================================================
