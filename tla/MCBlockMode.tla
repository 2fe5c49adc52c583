----------------------------- MODULE MCBlockMode -----------------------------
(* BlockMode for TLC; its constants are numbers and need no definitions.    *)
EXTENDS BlockMode
=============================================================================
