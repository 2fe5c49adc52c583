----------------------------- MODULE SerialBridge -----------------------------
(***************************************************************************)
(* What a process that passes datagrams on to a serial line promises its   *)
(* clients, with no threads, queues or buffers: it takes no more than it   *)
(* can hold, writes what it has taken in that order, and loses only what   *)
(* is left when the line breaks or the process ends. A broken line stays   *)
(* broken until then: nothing follows what was lost.                       *)
(***************************************************************************)
EXTENDS Naturals, Sequences

CONSTANTS Datagrams, Capacity

VARIABLES backlog,  \* what was taken and not yet written, oldest first
          line,     \* what was written
          broken    \* the line takes nothing any more

vars == <<backlog, line, broken>>

Init == backlog = <<>> /\ line = <<>> /\ broken = FALSE

Take(d) ==
    /\ Len(backlog) < Capacity
    /\ backlog' = Append(backlog, d)
    /\ UNCHANGED <<line, broken>>

Pass ==
    /\ backlog # <<>>
    /\ backlog' = Tail(backlog)
    /\ line' = IF broken THEN line ELSE Append(line, Head(backlog))
    /\ UNCHANGED broken

Break == broken' = TRUE /\ UNCHANGED <<backlog, line>>

\* The process ends; the next one begins with nothing.
End == backlog' = <<>> /\ line' = <<>> /\ broken' = FALSE

Next == (\E d \in Datagrams : Take(d)) \/ Pass \/ Break \/ End

\* The safety half of the promise, the part that is proved.
SafeSpec == Init /\ [][Next]_vars

\* Whatever was taken is passed on in the end.
Spec == SafeSpec /\ WF_vars(Pass)
=============================================================================
