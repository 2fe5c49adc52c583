---------------------------- MODULE MCPipeSelect ----------------------------
(* Constants for checking PipeSelect with TLC. *)
EXTENDS PipeSelect

AnyStds == SUBSET (0..2)
=============================================================================
