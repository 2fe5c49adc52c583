------------------------------ MODULE MCUsServer ------------------------------
(* Constants for checking UsServer with TLC.                                *)
EXTENDS UsServer
=============================================================================
