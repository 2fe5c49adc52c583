----------------------------- MODULE MCSyncQueue -----------------------------
(* SyncQueue for TLC; its constants are model values and need no definitions. *)
EXTENDS SyncQueue
=============================================================================
