------------------------------ MODULE LinkTime -------------------------------
(***************************************************************************)
(* src/dev/qlinktime.c: a server on a Unix datagram socket. The main       *)
(* thread receives requests: it answers at once those whose message is in  *)
(* a list of recent responses, and queues the others. A worker thread      *)
(* answers a whole batch of queued requests at a time and remembers the    *)
(* responses in the list. An aging thread deletes what has been in the     *)
(* list for too long.                                                      *)
(*                                                                         *)
(* queue_mutex protects the queue and list_mutex the list. The worker      *)
(* holds queue_mutex while it answers a batch, taking list_mutex for one   *)
(* list operation at a time: each of these is a step, and so is what the   *)
(* main thread does in one hold of queue_mutex.                            *)
(*                                                                         *)
(* A response is its request with one letter appended, so a message is how *)
(* many letters it has: 0..LongestMsg, the longest one filling the buffer. *)
(* sleep(1) and the five seconds of TIMEOUT may last any time: a step that *)
(* needs one to pass is never obliged to wait for it. Time counts only for *)
(* the ages of the list, in units of which the aging thread sleeps         *)
(* AGING_TIME \div 2.                                                      *)
(***************************************************************************)
EXTENDS Integers, FiniteSets, Sequences, SequencesExt

CONSTANTS Clients,         \* client addresses
          LongestMsg,
          MAX_QUEUE_SIZE,
          AGING_TIME,
          NULL

VARIABLES owed,    \* owed[c]: the message c awaits an answer to, or NULL
          mpc,     \* where the main thread is
          req,     \* the request the main thread handles, or NULL
          queue,   \* the requests queued
          wpc,     \* where the worker is
          i,       \* queue[i+1] is the request the worker answers next
          found,   \* what search_list told the worker
          list,    \* the nodes from the head: [data, age]
          agingIn  \* time to the aging thread's next round

vars == <<owed, mpc, req, queue, wpc, i, found, list, agingIn>>
mainvars == <<owed, mpc, req>>
workvars == <<wpc, i, found>>
listvars == <<list, agingIn>>

Msgs == 0..LongestMsg
Requests == [client : Clients, data : Msgs]

ASSUME LinkTimeAssumption ==
    /\ LongestMsg \in Nat /\ MAX_QUEUE_SIZE \in Nat \ {0}
    /\ AGING_TIME \in Nat /\ AGING_TIME >= 2
    /\ IsFiniteSet(Clients)
    /\ NULL \notin Msgs \cup Requests

\* The age of a node when the aging thread's rounds are on time, and one
\* more: there is no telling the ages beyond it apart.
MaxAge == AGING_TIME + AGING_TIME \div 2
Nodes == [data : Msgs, age : 0..MaxAge+1]
Older(age) == IF age > MaxAge THEN age ELSE age + 1

\* snprintf into response: a message that fills the buffer is cut, not longer.
Response(m) == IF m = LongestMsg THEN m ELSE m + 1

Listed(m) == \E k \in DOMAIN list : list[k].data = m

\* The worker holds queue_mutex from its wait's end to the batch's end.
QueueFree == wpc \in {"entering", "waiting", "woken", "sleeping"}

Init ==
    /\ owed = [c \in Clients |-> NULL]
    /\ mpc = "receiving" /\ req = NULL
    /\ queue = <<>>
    /\ wpc = "entering" /\ i = 0 /\ found = FALSE
    /\ list = <<>> /\ agingIn = AGING_TIME \div 2
-----------------------------------------------------------------------------
(* The main thread: handle_client, over and over. A "dump" request is left *)
(* out: it reads the list in one hold of list_mutex and is answered at     *)
(* once, so that it changes nothing here.                                  *)

\* recvfrom: a client that awaits nothing sends a message.
Receive(c, m) ==
    /\ mpc = "receiving" /\ owed[c] = NULL
    /\ owed' = [owed EXCEPT ![c] = m]
    /\ req' = [client |-> c, data |-> m]
    /\ mpc' = "searching"
    /\ UNCHANGED <<queue, workvars, listvars>>

\* The answer to the request in hand is sent: back to recvfrom.
MainAnswers ==
    /\ owed' = [owed EXCEPT ![req.client] = NULL]
    /\ req' = NULL
    /\ mpc' = "receiving"

Search ==
    /\ mpc = "searching"
    /\ \/ Listed(req.data) /\ MainAnswers
       \/ ~Listed(req.data) /\ mpc' = "entering" /\ UNCHANGED <<owed, req>>
    /\ UNCHANGED <<queue, workvars, listvars>>

\* Faulty variant: the signal for the worker is given only by the request
\* that fills the queue.
Insert_SignalWhenFull ==
    /\ mpc \in {"entering", "woken"} /\ QueueFree
    /\ Len(queue) < MAX_QUEUE_SIZE
    /\ queue' = Append(queue, req)
    /\ req' = NULL /\ mpc' = "receiving"
    /\ wpc' = IF wpc = "waiting" /\ Len(queue') = MAX_QUEUE_SIZE THEN "woken" ELSE wpc
    /\ UNCHANGED <<owed, i, found, listvars>>

\* Faulty variant: the test for room is off by one.
Insert_OneTooMany ==
    /\ mpc \in {"entering", "woken"} /\ QueueFree
    /\ Len(queue) <= MAX_QUEUE_SIZE
    /\ queue' = Append(queue, req)
    /\ req' = NULL /\ mpc' = "receiving"
    /\ wpc' = IF wpc = "waiting" THEN "woken" ELSE wpc
    /\ UNCHANGED <<owed, i, found, listvars>>

\* There is room: the request is queued and the condition variable signalled.
\* Only the worker can be waiting on it, for the main thread is here.
Insert ==
    /\ mpc \in {"entering", "woken"} /\ QueueFree
    /\ Len(queue) < MAX_QUEUE_SIZE
    /\ queue' = Append(queue, req)
    /\ req' = NULL /\ mpc' = "receiving"
    /\ wpc' = IF wpc = "waiting" THEN "woken" ELSE wpc
    /\ UNCHANGED <<owed, i, found, listvars>>

\* There is no room: pthread_cond_timedwait.
WaitForRoom ==
    /\ mpc \in {"entering", "woken"} /\ QueueFree
    /\ Len(queue) >= MAX_QUEUE_SIZE
    /\ mpc' = "waiting"
    /\ UNCHANGED <<owed, req, queue, workvars, listvars>>

\* The wait ends, by the timeout or for no reason; the worker's broadcast is
\* in Clear. The thread then needs queue_mutex to go on.
WaitEnds ==
    /\ mpc = "waiting"
    /\ mpc' \in {"woken", "timedout"}
    /\ UNCHANGED <<owed, req, queue, workvars, listvars>>

\* Faulty variant: after the timeout the request is queued if there is room
\* by then, and "timeout" is sent all the same.
TimeOut_Requeues ==
    /\ mpc = "timedout" /\ QueueFree
    /\ MainAnswers
    /\ queue' = IF Len(queue) < MAX_QUEUE_SIZE THEN Append(queue, req) ELSE queue
    /\ UNCHANGED <<workvars, listvars>>

\* ETIMEDOUT: "timeout" is sent, even if the queue has been emptied since.
TimeOut ==
    /\ mpc = "timedout" /\ QueueFree
    /\ MainAnswers
    /\ UNCHANGED <<queue, workvars, listvars>>

MainStep == Search \/ Insert \/ WaitForRoom \/ TimeOut
-----------------------------------------------------------------------------
(* The worker thread: process_queue.                                       *)

\* The queue is found empty.
WaitForWork ==
    /\ wpc \in {"entering", "woken"} /\ queue = <<>>
    /\ wpc' = "waiting"
    /\ UNCHANGED <<mainvars, queue, i, found, listvars>>

SpuriousWakeup ==
    /\ wpc = "waiting"
    /\ wpc' = "woken"
    /\ UNCHANGED <<mainvars, queue, i, found, listvars>>

\* The batch begins.
Begin ==
    /\ wpc \in {"entering", "woken"} /\ queue # <<>>
    /\ wpc' = "searching" /\ i' = 0
    /\ UNCHANGED <<mainvars, queue, found, listvars>>

SearchResponse ==
    /\ wpc = "searching" /\ i < Len(queue)
    /\ found' = Listed(Response(queue[i+1].data))
    /\ wpc' = "remembering"
    /\ UNCHANGED <<mainvars, queue, i, listvars>>

insert_list(m) == list' = <<[data |-> m, age |-> 0]>> \o list

\* Restarts the first node of the message and does nothing when there is none.
reset_aging_time(m) ==
    \/ ~Listed(m) /\ UNCHANGED list
    \/ \E k \in DOMAIN list :
          /\ list[k].data = m /\ \A n \in 1..k-1 : list[n].data # m
          /\ list' = [list EXCEPT ![k].age = 0]

\* Faulty variant: a response already listed is listed again.
Remember_AlwaysInsert == insert_list(Response(queue[i+1].data))

\* By what search_list said, which may not be so any more.
Remember ==
    LET m == Response(queue[i+1].data)
    IN  IF found THEN reset_aging_time(m) ELSE insert_list(m)

\* The response is remembered and sent to the client that asked.
Answer ==
    /\ wpc = "remembering"
    /\ Remember
    /\ owed' = [owed EXCEPT ![queue[i+1].client] = NULL]
    /\ i' = i + 1
    /\ wpc' = "searching"
    /\ UNCHANGED <<mpc, req, queue, found, agingIn>>

\* The batch ends: queue_size is 0 and the main thread is woken if it waits.
Clear ==
    /\ wpc = "searching" /\ i = Len(queue)
    /\ queue' = <<>> /\ i' = 0
    /\ wpc' = "sleeping"
    /\ mpc' = IF mpc = "waiting" THEN "woken" ELSE mpc
    /\ UNCHANGED <<owed, req, found, listvars>>

\* sleep(1) ends.
Awake ==
    /\ wpc = "sleeping"
    /\ wpc' = "entering"
    /\ UNCHANGED <<mainvars, queue, i, found, listvars>>

WorkerStep == WaitForWork \/ Begin \/ SearchResponse \/ Answer \/ Clear \/ Awake
-----------------------------------------------------------------------------
(* The aging thread and the clock.                                         *)

\* The places of the nodes that are not too old.
Kept == {k \in DOMAIN list : list[k].age <= AGING_TIME}

\* Faulty variant: the list is cut at the first node that is too old, as if
\* it were still in the order of insertion.
aging_list_CutsTail ==
    LET old == DOMAIN list \ Kept
    IN  list' = IF old = {} THEN list
                ELSE SubSeq(list, 1, (CHOOSE k \in old : \A n \in old : k <= n) - 1)

\* Leaves the nodes that are not too old, in the order in which they were.
aging_list ==
    \E place \in [1..Cardinality(Kept) -> Kept] :
        /\ \A j, k \in DOMAIN place : j < k => place[j] < place[k]
        /\ list' = [k \in DOMAIN place |-> list[place[k]]]

AgingRound ==
    /\ agingIn = 0
    /\ aging_list
    /\ agingIn' = AGING_TIME \div 2
    /\ UNCHANGED <<mainvars, queue, workvars>>

\* One second. The aging thread is on time.
Tick ==
    /\ agingIn > 0
    /\ agingIn' = agingIn - 1
    /\ list' = [k \in DOMAIN list |-> [list[k] EXCEPT !.age = Older(@)]]
    /\ UNCHANGED <<mainvars, queue, workvars>>

Next ==
    \/ \E c \in Clients, m \in Msgs : Receive(c, m)
    \/ Search \/ Insert \/ WaitForRoom \/ WaitEnds \/ TimeOut
    \/ WaitForWork \/ SpuriousWakeup \/ Begin \/ SearchResponse \/ Answer
    \/ Clear \/ Awake
    \/ AgingRound \/ Tick

\* The threads run and time passes. No client is obliged to send, no wait to
\* time out or to end for no reason.
Spec ==
    /\ Init /\ [][Next]_vars
    /\ WF_vars(MainStep) /\ WF_vars(WorkerStep)
    /\ WF_vars(AgingRound) /\ WF_vars(Tick)
-----------------------------------------------------------------------------
\* Every variable has its type: at most MAX_QUEUE_SIZE requests are queued and
\* the worker's index stays within them.
TypeOK ==
    /\ owed \in [Clients -> Msgs \cup {NULL}]
    /\ mpc \in {"receiving", "searching", "entering", "waiting", "woken", "timedout"}
    /\ req \in Requests \cup {NULL}
    /\ queue \in Seq(Requests) /\ Len(queue) <= MAX_QUEUE_SIZE
    /\ wpc \in {"entering", "waiting", "woken", "searching", "remembering", "sleeping"}
    /\ i \in 0..Len(queue) /\ found \in BOOLEAN
    /\ list \in Seq(Nodes)
    /\ agingIn \in 0..AGING_TIME \div 2

\* The requests not answered yet: those queued that the worker has not
\* reached and the one in the main thread's hands.
Unanswered ==
    SubSeq(queue, i + 1, Len(queue)) \o (IF req = NULL THEN <<>> ELSE <<req>>)

\* Every client that awaits an answer has its request, with the message it
\* sent, in exactly one place, and no request is left of a client that has
\* been answered: nobody is answered twice, after a "timeout" least of all,
\* and nobody is forgotten.
Accounted ==
    /\ ToSet(Unanswered) =
          {r \in Requests : owed[r.client] = r.data}
    /\ Len(Unanswered) = Cardinality({c \in Clients : owed[c] # NULL})

\* The list has one node for a message, although the search and the insertion
\* are separate holds of list_mutex: reset_aging_time, which stops at the
\* first, would leave the other to expire.
OneNodePerMessage ==
    \A j, k \in DOMAIN list : list[j].data = list[k].data => j = k

\* A node leaves the list only when it is older than AGING_TIME, although the
\* list is not in the order of the ages any more once one has been reset.
OnlyOldForgotten ==
    [][\A k \in DOMAIN list :
          list[k].age <= AGING_TIME =>
             \E j \in DOMAIN list' : list'[j].data = list[k].data]_list

\* Every request is answered.
EveryRequestAnswered ==
    \A c \in Clients : owed[c] # NULL ~> owed[c] = NULL

\* qlinktime.c:138 of the response the worker is about to send: "if the
\* message is in the list already, its aging time is reset; otherwise it is
\* inserted". Either way it is in the list then, with its time restarted.
ResponseRemembered ==
    [][wpc = "remembering" /\ wpc' = "searching" =>
          \E k \in DOMAIN list' :
             list'[k] = [data |-> Response(queue[i+1].data), age |-> 0]]_vars
=============================================================================
