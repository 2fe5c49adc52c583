--------------------------------- MODULE Q1 ----------------------------------
(***************************************************************************)
(* src/dev/q1.c: a server on a Unix datagram socket in front of serial     *)
(* devices. The main thread receives "index,command" requests, answers     *)
(* those it can from a device's list of results, and queues the others     *)
(* for the device's thread, which exchanges each with the device, remembers*)
(* the result and answers the client.                                      *)
(*                                                                         *)
(* Device 0 is the only one init_devices opens; the others keep the zeros  *)
(* of a global: a descriptor 0, an empty queue, and a mutex and condition  *)
(* variable that zeros initialise. Only device 0 can have a thread, so its *)
(* list is the only one that fills. The thread holds queue_mutex through a *)
(* batch, serial exchanges of up to ten seconds included; what the main    *)
(* thread does in one hold of it is one step.                              *)
(***************************************************************************)
EXTENDS Integers, FiniteSets, Sequences, SequencesExt

CONSTANTS Devices,         \* 0 and some of the entries of devices[] after it
          Texts,           \* commands and results, "timeout" among them
          MAX_QUEUE_SIZE,
          MaxReq,          \* bound on the requests clients send
          NULL

VARIABLES tty,      \* tty[d]: tty_fd of device d: "open", "failed" (-1) or "zero"
          mpc,      \* where the main thread is
          req,      \* the request it handles, or NULL
          seen,     \* the list it read the head of
          queue,    \* queue[d]: the requests queued for device d
          wpc,      \* where device 0's thread is, "none" if it was not created
          i,        \* queue[0][i+1] is the request it handles next
          list,     \* device 0's list from the head: [id, data, old]
          outcome,  \* outcome[n]: what became of the n-th request
          answered  \* the requests whose clients were sent an answer

vars == <<tty, mpc, req, seen, queue, wpc, i, list, outcome, answered>>

\* What tty_fd is: open_serial's result, or the 0 of a global that nobody set.
Ports == {"open", "failed", "zero"}

Requests == [id : 1..MaxReq, device : Devices, command : Texts]

ASSUME Q1Assumption ==
    /\ 0 \in Devices /\ Devices \subseteq 0..9
    /\ MAX_QUEUE_SIZE \in Nat \ {0} /\ MaxReq \in Nat
    /\ NULL \notin Requests

Nodes == [id : 1..MaxReq, data : Texts, old : BOOLEAN]

\* "done": the device's thread is through with the request. "invalid", "dumped",
\* "hit" and "full" are answered by the main thread.
Outcomes ==
    {"unsent", "inhand", "queued", "done", "invalid", "dumped", "hit", "full"}

Sent == {n \in 1..MaxReq : outcome[n] # "unsent"}
QueueFree(d) == d = 0 => wpc # "batch"

\* init_devices: a device that does not open has no thread.
Init ==
    /\ tty \in {f \in [Devices -> Ports] :
                   \A d \in Devices : f[d] = "zero" <=> d # 0}
    /\ mpc = "receiving" /\ req = NULL /\ seen = <<>>
    /\ queue = [d \in Devices |-> <<>>]
    /\ wpc = IF tty[0] = "open" THEN "entering" ELSE "none"
    /\ i = 0
    /\ list = <<>>
    /\ outcome = [n \in 1..MaxReq |-> "unsent"]
    /\ answered = {}
-----------------------------------------------------------------------------
(* The main thread: handle_client, over and over.                          *)

\* A request that is no "index,command", or whose index is out of range or
\* that of a device that did not open.
Refuse ==
    /\ mpc = "receiving"
    /\ Cardinality(Sent) < MaxReq
    /\ LET n == Cardinality(Sent) + 1
       IN  /\ outcome' = [outcome EXCEPT ![n] = "invalid"]
           /\ answered' = answered \cup {n}
    /\ UNCHANGED <<tty, mpc, req, seen, queue, wpc, i, list>>

\* "dump": the list is read in one hold of its mutex, and the answer sent.
Dump ==
    /\ mpc = "receiving" /\ \E d \in Devices : tty[d] # "failed"
    /\ Cardinality(Sent) < MaxReq
    /\ LET n == Cardinality(Sent) + 1
       IN  /\ outcome' = [outcome EXCEPT ![n] = "dumped"]
           /\ answered' = answered \cup {n}
    /\ UNCHANGED <<tty, mpc, req, seen, queue, wpc, i, list>>

\* The request is for a device whose descriptor is not -1. device->head is
\* read before search_list takes the list's mutex.
Receive(d, t) ==
    /\ mpc = "receiving" /\ tty[d] # "failed"
    /\ Cardinality(Sent) < MaxReq
    /\ LET n == Cardinality(Sent) + 1
       IN  /\ req' = [id |-> n, device |-> d, command |-> t]
           /\ outcome' = [outcome EXCEPT ![n] = "inhand"]
    /\ seen' = IF d = 0 THEN list ELSE <<>>
    /\ mpc' = "searching"
    /\ UNCHANGED <<tty, queue, wpc, i, list, answered>>

\* handle_client returns, with this outcome for the request in hand.
Return(o) ==
    /\ outcome' = [outcome EXCEPT ![req.id] = o]
    /\ answered' = IF o \in {"hit", "full"} THEN answered \cup {req.id} ELSE answered
    /\ req' = NULL /\ mpc' = "receiving"

Search ==
    /\ mpc = "searching"
    /\ IF \E k \in DOMAIN seen : seen[k].data = req.command
       THEN Return("hit")
       ELSE mpc' = "entering" /\ UNCHANGED <<req, outcome, answered>>
    /\ seen' = <<>>
    /\ UNCHANGED <<tty, queue, wpc, i, list>>

\* Faulty variant: the test for room is off by one.
Insert_OneTooMany ==
    /\ mpc \in {"entering", "woken"} /\ QueueFree(req.device)
    /\ Len(queue[req.device]) <= MAX_QUEUE_SIZE
    /\ queue' = [queue EXCEPT ![req.device] = Append(@, req)]
    /\ Return("queued")
    /\ wpc' = IF req.device = 0 /\ wpc = "waiting" THEN "woken" ELSE wpc
    /\ UNCHANGED <<tty, seen, i, list>>

\* Faulty variant: the device's thread is signalled only for a full queue.
Insert_SignalWhenFull ==
    /\ mpc \in {"entering", "woken"} /\ QueueFree(req.device)
    /\ Len(queue[req.device]) < MAX_QUEUE_SIZE
    /\ queue' = [queue EXCEPT ![req.device] = Append(@, req)]
    /\ Return("queued")
    /\ wpc' = IF Len(queue'[0]) = MAX_QUEUE_SIZE /\ wpc = "waiting" THEN "woken" ELSE wpc
    /\ UNCHANGED <<tty, seen, i, list>>

Insert ==
    /\ mpc \in {"entering", "woken"} /\ QueueFree(req.device)
    /\ Len(queue[req.device]) < MAX_QUEUE_SIZE
    /\ queue' = [queue EXCEPT ![req.device] = Append(@, req)]
    /\ Return("queued")
    /\ wpc' = IF req.device = 0 /\ wpc = "waiting" THEN "woken" ELSE wpc
    /\ UNCHANGED <<tty, seen, i, list>>

WaitForRoom ==
    /\ mpc \in {"entering", "woken"} /\ QueueFree(req.device)
    /\ Len(queue[req.device]) >= MAX_QUEUE_SIZE
    /\ mpc' = "waiting"
    /\ UNCHANGED <<tty, req, seen, queue, wpc, i, list, outcome, answered>>

\* Faulty variant: the wait has no timeout.
TimeOut_Never ==
    /\ mpc = "waiting" /\ FALSE
    /\ UNCHANGED vars

\* The five seconds are over before a broadcast.
TimeOut ==
    /\ mpc = "waiting"
    /\ mpc' = "timedout"
    /\ UNCHANGED <<tty, req, seen, queue, wpc, i, list, outcome, answered>>

\* Faulty variant: the request is queued after all if there is room by then.
Full_Requeues ==
    /\ mpc = "timedout" /\ QueueFree(req.device)
    /\ Return("full")
    /\ queue' = [queue EXCEPT ![req.device] =
                    IF Len(@) < MAX_QUEUE_SIZE THEN Append(@, req) ELSE @]
    /\ UNCHANGED <<tty, seen, wpc, i, list>>

\* "full" is sent once queue_mutex is held again, whatever the queue is then.
Full ==
    /\ mpc = "timedout" /\ QueueFree(req.device)
    /\ Return("full")
    /\ UNCHANGED <<tty, seen, queue, wpc, i, list>>

-----------------------------------------------------------------------------
(* Device 0's thread: process_device.                                      *)

WaitForWork ==
    /\ wpc \in {"entering", "woken"} /\ queue[0] = <<>>
    /\ wpc' = "waiting"
    /\ UNCHANGED <<tty, mpc, req, seen, queue, i, list, outcome, answered>>

Begin ==
    /\ wpc \in {"entering", "woken"} /\ queue[0] # <<>>
    /\ wpc' = "batch" /\ i' = 0
    /\ UNCHANGED <<tty, mpc, req, seen, queue, list, outcome, answered>>

\* The list with a node for this result at its head.
insert_list(id, result) ==
    <<[id |-> id, data |-> result, old |-> FALSE]>> \o list

\* The command is written and the device answers with a text, or nothing
\* comes for ten seconds and the result is "timeout". A node is made for the
\* result in any case. The answer is sent with sendto on the serial
\* descriptor, which is no socket: the client gets nothing.
Exchange(result) ==
    /\ wpc = "batch" /\ i < Len(queue[0])
    /\ LET id == queue[0][i+1].id
       IN  /\ list' = insert_list(id, result)
           /\ outcome' = [outcome EXCEPT ![id] = "done"]
    /\ i' = i + 1
    /\ UNCHANGED <<tty, mpc, req, seen, queue, wpc, answered>>

\* Faulty variant: the thread also deletes the nodes that are too old.
Clear_WithAging ==
    /\ wpc = "batch" /\ i = Len(queue[0])
    /\ queue' = [queue EXCEPT ![0] = <<>>]
    /\ wpc' = "sleeping" /\ i' = 0
    /\ mpc' = IF mpc = "waiting" /\ req.device = 0 THEN "woken" ELSE mpc
    /\ list' = SelectSeq(list, LAMBDA node : ~node.old)
    /\ UNCHANGED <<tty, req, seen, outcome, answered>>

\* The batch ends: the queue is empty and the main thread is woken if it
\* waits for room in it.
Clear ==
    /\ wpc = "batch" /\ i = Len(queue[0])
    /\ queue' = [queue EXCEPT ![0] = <<>>]
    /\ wpc' = "sleeping" /\ i' = 0
    /\ mpc' = IF mpc = "waiting" /\ req.device = 0 THEN "woken" ELSE mpc
    /\ UNCHANGED <<tty, req, seen, list, outcome, answered>>

Awake ==
    /\ wpc = "sleeping"
    /\ wpc' = "entering"
    /\ UNCHANGED <<tty, mpc, req, seen, queue, i, list, outcome, answered>>

WorkerStep ==
    \/ WaitForWork \/ Begin \/ Clear \/ Awake
    \/ \E result \in Texts : Exchange(result)

\* Thirty seconds pass: every node is older than AGING_TIME. aging_list,
\* which would delete them, is called by nobody.
GrowOld ==
    /\ \E k \in DOMAIN list : ~list[k].old
    /\ list' = [k \in DOMAIN list |-> [list[k] EXCEPT !.old = TRUE]]
    /\ UNCHANGED <<tty, mpc, req, seen, queue, wpc, i, outcome, answered>>

\* A wait that ends for no reason.
SpuriousWakeup ==
    /\ \/ mpc = "waiting" /\ mpc' = "woken" /\ UNCHANGED wpc
       \/ wpc = "waiting" /\ wpc' = "woken" /\ UNCHANGED mpc
    /\ UNCHANGED <<tty, req, seen, queue, i, list, outcome, answered>>

Next ==
    \/ Refuse \/ Dump \/ \E d \in Devices, t \in Texts : Receive(d, t)
    \/ Search \/ Insert \/ WaitForRoom \/ TimeOut \/ Full
    \/ WaitForWork \/ Begin \/ Clear \/ Awake \/ \E result \in Texts : Exchange(result)
    \/ GrowOld \/ SpuriousWakeup

\* The threads run and time passes. The deadline of the timed wait does not
\* move: however often the wait ends for no reason, it ends by timeout at last.
Spec ==
    /\ Init /\ [][Next]_vars
    /\ WF_vars(Search) /\ WF_vars(Insert) /\ WF_vars(WaitForRoom)
    /\ SF_vars(TimeOut) /\ WF_vars(Full)
    /\ WF_vars(WorkerStep) /\ WF_vars(GrowOld)
-----------------------------------------------------------------------------
\* Every variable has its type: no device has more than MAX_QUEUE_SIZE requests
\* queued, and its thread's index stays within them.
TypeOK ==
    /\ tty \in [Devices -> Ports]
    /\ mpc \in {"receiving", "searching", "entering", "waiting", "woken", "timedout"}
    /\ req \in Requests \cup {NULL}
    /\ seen \in Seq(Nodes) /\ list \in Seq(Nodes)
    /\ queue \in [Devices -> Seq(Requests)]
    /\ \A d \in Devices : Len(queue[d]) <= MAX_QUEUE_SIZE
    /\ wpc \in {"none", "entering", "waiting", "woken", "batch", "sleeping"}
    /\ i \in 0..Len(queue[0])
    /\ outcome \in [1..MaxReq -> Outcomes]
    /\ answered \subseteq 1..MaxReq

\* The requests queued for device d that no thread has taken yet.
Pending(d) == IF d = 0 THEN SubSeq(queue[0], i + 1, Len(queue[0])) ELSE queue[d]

\* A request is in one place: in the main thread's hands, in one queue, in the
\* order of arrival, or settled. Above all a request answered with "full" is
\* not carried out as well.
Accounted ==
    /\ \A n \in 1..MaxReq : outcome[n] = "inhand" <=> (req # NULL /\ req.id = n)
    /\ UNION {{r.id : r \in ToSet(Pending(d))} : d \in Devices} =
          {n \in 1..MaxReq : outcome[n] = "queued"}
    /\ \A d \in Devices : \A j, k \in DOMAIN Pending(d) :
          j < k => Pending(d)[j].id < Pending(d)[k].id
    /\ \A d, e \in Devices : d # e =>
          {r.id : r \in ToSet(Pending(d))} \cap {r.id : r \in ToSet(Pending(e))} = {}

\* search_list is given a head read without the list's mutex. Every node it
\* walks is still in the list: none is ever freed behind its back.
SearchSafe ==
    \A k \in DOMAIN seen : \E j \in DOMAIN list : list[j].id = seen[k].id

\* One main thread serves every device. A full queue, even one that nobody
\* will ever empty, holds it up for a time and not for good.
ServerReturns == mpc # "receiving" ~> mpc = "receiving"

\* What is queued for a device that has a thread is carried out.
QueuedDone ==
    \A n \in 1..MaxReq :
        (\E k \in DOMAIN queue[0] : queue[0][k].id = n) ~> outcome[n] = "done"
=============================================================================
