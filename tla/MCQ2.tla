--------------------------------- MODULE MCQ2 ---------------------------------
(* Constants for checking Q2 with TLC.                                      *)
EXTENDS Q2
=============================================================================
