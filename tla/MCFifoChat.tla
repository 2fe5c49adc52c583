------------------------------ MODULE MCFifoChat ------------------------------
(* Constants for checking FifoChat with TLC.                                *)
EXTENDS FifoChat
=============================================================================
