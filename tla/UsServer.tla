------------------------------- MODULE UsServer -------------------------------
(***************************************************************************)
(* src/dev/us.c: the main thread receives every datagram into one buffer   *)
(* and starts a detached thread with a pointer to it. The thread copies    *)
(* the buffer and pushes the copy on the queue of LkQueue, with a deadline *)
(* of five seconds. Nothing ever pops.                                     *)
(*                                                                         *)
(* The main thread and the threads share the buffer without a lock: what a *)
(* thread copies while recvfrom fills the buffer is a MIX of two           *)
(* datagrams. Thread m, one of the queue's Pushers, is the one started for *)
(* the m-th datagram, and what it pushes is known by that number.          *)
(***************************************************************************)
EXTENDS LkQueue

CONSTANTS MaxRecv,  \* bound on the datagrams received
          MIX

ASSUME UsServerAssumption ==
    /\ MaxRecv \in Nat
    /\ Pushers = 1..MaxRecv /\ Timed = Pushers /\ Poppers = {}
    /\ Strings = Pushers \cup {MIX} /\ MIX \notin Pushers

VARIABLES main,      \* "recv": in recvfrom; "filling": the kernel writes the
                     \* buffer; "spawn": recvfrom has returned; "gone"
          received,  \* the datagrams received so far
          buffer,    \* what the main thread's buffer holds, NULL at first
          thread,    \* thread[m]: "none", "started", "copied", "pushing"
          copy       \* copy[m]: thread m's own buffer, NULL at first

servervars == <<main, received, buffer, thread, copy>>
allvars == <<servervars, vars>>

\* A thread exits when queue_push has returned.
Ended(m) == thread[m] = "pushing" /\ pc[m] = "out"

ServerInit ==
    /\ main = "recv" /\ received = 0 /\ buffer = NULL
    /\ thread = [m \in Pushers |-> "none"]
    /\ copy = [m \in Pushers |-> NULL]
    /\ Init

\* A datagram has come and the kernel begins to copy it to the buffer.
Receive ==
    /\ main = "recv" /\ received < MaxRecv
    /\ main' = "filling" /\ received' = received + 1 /\ buffer' = MIX
    /\ UNCHANGED <<thread, copy, vars>>

Received ==
    /\ main = "filling"
    /\ main' = "spawn" /\ buffer' = received
    /\ UNCHANGED <<received, thread, copy, vars>>

\* recvfrom returns an error: only the main thread exits. Its stack, and the
\* buffer on it, stay as long as the process.
ReceiveFails ==
    /\ main = "recv"
    /\ main' = "gone"
    /\ UNCHANGED <<received, buffer, thread, copy, vars>>

Spawn ==
    /\ main = "spawn"
    /\ main' = "recv"
    /\ thread' = [thread EXCEPT ![received] = "started"]
    /\ UNCHANGED <<received, buffer, copy, vars>>

\* pthread_create fails: the datagram is forgotten.
SpawnFails ==
    /\ main = "spawn"
    /\ main' = "recv"
    /\ UNCHANGED <<received, buffer, thread, copy, vars>>

Copy(m) ==
    /\ thread[m] = "started"
    /\ thread' = [thread EXCEPT ![m] = "copied"]
    /\ copy' = [copy EXCEPT ![m] = buffer]
    /\ UNCHANGED <<main, received, buffer, vars>>

\* The deadline is set and queue_push is called.
CallPush(m) ==
    /\ thread[m] = "copied"
    /\ thread' = [thread EXCEPT ![m] = "pushing"]
    /\ PushCall(m, copy[m])
    /\ UNCHANGED <<main, received, buffer, copy>>

\* queue_push tests and waits, or stores and returns; it gives up.
InPush(m) == Push(m) /\ UNCHANGED servervars
GivesUp(m) == TimeOut(m) /\ UNCHANGED servervars

\* Faulty variant: queue_push is called without a deadline.
Deadline_None(m) == FALSE /\ Expire(m) /\ UNCHANGED servervars

\* The five seconds are over.
Deadline(m) == Expire(m) /\ UNCHANGED servervars

WokenForNothing(m) == SpuriousWakeup(m) /\ UNCHANGED servervars

ServerNext ==
    \/ Receive \/ Received \/ ReceiveFails \/ Spawn \/ SpawnFails
    \/ \E m \in Pushers : \/ Copy(m) \/ CallPush(m) \/ InPush(m)
                          \/ Deadline(m) \/ GivesUp(m) \/ WokenForNothing(m)

\* Threads that can run do, and a deadline passes however often the wait for
\* it is interrupted. Nobody is obliged to send.
ServerSpec ==
    /\ ServerInit /\ [][ServerNext]_allvars
    /\ WF_allvars(Received) /\ WF_allvars(Spawn \/ SpawnFails)
    /\ \A m \in Pushers :
          /\ WF_allvars(Copy(m)) /\ WF_allvars(CallPush(m)) /\ WF_allvars(InPush(m))
          /\ SF_allvars(Deadline(m)) /\ WF_allvars(GivesUp(m))
-----------------------------------------------------------------------------
\* A thread reports that it failed to push only when every slot is taken.
\* queue_push alone does not promise it: a push that timed out does not look
\* again. It holds because nothing pops here, so that a full ring stays full.
OnlyFullRefuses == \A m \in Pushers : result[m] = -1 => size = MAX_QUEUE_SIZE

\* Every thread that was started ends, although the queue is never emptied and
\* whether or not the main thread is still there: threads do not pile up.
ThreadsEnd == \A m \in Pushers : thread[m] # "none" ~> Ended(m)

\* What a thread pushes is the datagram it was started for.
OwnDatagram == \A m \in Pushers : pc[m] # "out" => str[m] = m
=============================================================================
