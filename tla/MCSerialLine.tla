---------------------------- MODULE MCSerialLine ----------------------------
(* Constants for checking SerialLine with TLC: every two programs. *)
EXTENDS SerialLine

AllCasts == [Ends -> Programs]
=============================================================================
