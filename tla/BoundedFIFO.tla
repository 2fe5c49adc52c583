----------------------------- MODULE BoundedFIFO -----------------------------
(***************************************************************************)
(* What a blocking bounded queue promises its callers, with no ring, no    *)
(* lock and no condition variable: a producer asks, its value enters the   *)
(* queue once there is room; a consumer gets the oldest value and keeps it *)
(* unchanged until it is done with it. An impatient producer may give up   *)
(* before its value has entered the queue, and then it never does.         *)
(***************************************************************************)
EXTENDS Naturals, Sequences

CONSTANTS Producers, Consumers, Values, Capacity, NULL,
          Impatient  \* the producers that may give up

VARIABLES pending,   \* pending[p]: the value of p's call in progress, or NULL
          queue,     \* the queued values, oldest first
          delivered  \* delivered[c]: the value c is working on, or NULL

vars == <<pending, queue, delivered>>

Init ==
    /\ pending = [p \in Producers |-> NULL]
    /\ queue = <<>>
    /\ delivered = [c \in Consumers |-> NULL]

Ask(p, v) ==
    /\ pending[p] = NULL
    /\ pending' = [pending EXCEPT ![p] = v]
    /\ UNCHANGED <<queue, delivered>>

Put(p) ==
    /\ pending[p] # NULL
    /\ Len(queue) < Capacity
    /\ queue' = Append(queue, pending[p])
    /\ pending' = [pending EXCEPT ![p] = NULL]
    /\ UNCHANGED delivered

GiveUp(p) ==
    /\ p \in Impatient
    /\ pending[p] # NULL
    /\ pending' = [pending EXCEPT ![p] = NULL]
    /\ UNCHANGED <<queue, delivered>>

Get(c) ==
    /\ delivered[c] = NULL
    /\ queue # <<>>
    /\ delivered' = [delivered EXCEPT ![c] = Head(queue)]
    /\ queue' = Tail(queue)
    /\ UNCHANGED pending

Done(c) ==
    /\ delivered[c] # NULL
    /\ delivered' = [delivered EXCEPT ![c] = NULL]
    /\ UNCHANGED <<pending, queue>>

Next ==
    \/ \E p \in Producers : Put(p) \/ GiveUp(p) \/ \E v \in Values : Ask(p, v)
    \/ \E c \in Consumers : Get(c) \/ Done(c)

\* The safety half of the promise, the part that is proved.
SafeSpec == Init /\ [][Next]_vars

\* While there is room and somebody asks, somebody is let in; while there is
\* a value and a consumer is free, some value is handed out.
Spec ==
    /\ SafeSpec
    /\ WF_vars(\E p \in Producers : Put(p))
    /\ WF_vars(\E c \in Consumers : Get(c))
=============================================================================
