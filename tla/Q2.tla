---------------------------------- MODULE Q2 ----------------------------------
(***************************************************************************)
(* src/dev/q2.c: a server on a Unix datagram socket in front of serial     *)
(* devices. The main thread looks a request up in the device's list and,   *)
(* when it is not there, starts a detached thread on enqueue. The device's *)
(* thread dequeues, exchanges the string with the device and adds the      *)
(* result to the list. The queue is a ring without a size: one of its      *)
(* slots is always free.                                                   *)
(*                                                                         *)
(* pthread_create passes enqueue its first parameter only. What the second *)
(* one, the string, happens to be is undefined: some text in memory or BAD,*)
(* an address strcpy cannot read.                                          *)
(*                                                                         *)
(* One device is modelled. The other shares with it only the main thread,  *)
(* which waits for neither; it is a device without a thread. Thread 0 is   *)
(* the device's and thread n the one started for the n-th request.         *)
(***************************************************************************)
EXTENDS Integers, Sequences

CONSTANTS MaxReq,          \* bound on the requests for the device
          Texts,           \* requests, answers and what lies about in memory
          TIMEOUT,         \* the text that stands for no answer
          MAX_QUEUE_SIZE,
          BAD, NULL

ASSUME Q2Assumption ==
    /\ MaxReq \in Nat /\ MAX_QUEUE_SIZE \in Nat /\ MAX_QUEUE_SIZE >= 2
    /\ TIMEOUT \in Texts /\ BAD \notin Texts /\ NULL \notin Texts \cup {BAD}

VARIABLES received,  \* how many requests have come
          want,      \* the request a thread is to be started for, or NULL
          data, front, rear,
          str,       \* str[n]: what thread n enqueues, NULL outside a call
          got,       \* got[0]: the string the device's thread works on, or NULL
          pc,        \* pc[t]: where thread t is
          list,      \* the nodes, each the set of the texts it contains
          crashed

vars == <<received, want, data, front, rear, str, got, pc, list, crashed>>
ring == <<data, front, rear>>
main == <<received, want>>

Pushers == 1..MaxReq
Threads == 0..MaxReq
Slots == 0..MAX_QUEUE_SIZE-1

\* As in SyncQueue; "none": not started.
PCs == {"none", "out", "entering", "waiting", "woken"}

\* Faulty variant: the rear is not wrapped before it is compared.
is_queue_full_NoWrap == rear + 1 = front

is_queue_full == (rear + 1) % MAX_QUEUE_SIZE = front
is_queue_empty == front = rear

Waiting(S) == {t \in S : pc[t] = "waiting"}

init_queue == data = [i \in Slots |-> NULL] /\ front = 0 /\ rear = 0

\* The thread of a device that main does not get to, or whose pthread_create
\* fails, is never there. A global queue of zeros is an empty queue.
Init ==
    /\ received = 0 /\ want = NULL
    /\ init_queue
    /\ str = [n \in Pushers |-> NULL] /\ got = [c \in {0} |-> NULL]
    /\ pc \in {f \in [Threads -> {"none", "out"}] : \A n \in Pushers : f[n] = "none"}
    /\ list = <<>> /\ crashed = FALSE
-----------------------------------------------------------------------------
(* The main thread: handle_client_request. Its answers go to a socket that *)
(* is not connected, and reach nobody. "dump" changes nothing.             *)

\* The list is searched in one hold of its mutex.
Request(t) ==
    /\ ~crashed /\ want = NULL /\ received < MaxReq
    /\ received' = received + 1
    /\ want' = IF \E k \in DOMAIN list : t \in list[k] THEN NULL ELSE t
    /\ UNCHANGED <<ring, str, got, pc, list, crashed>>

\* enqueue is started, with a second argument nobody has given.
StartEnqueue(s) ==
    /\ ~crashed /\ want # NULL
    /\ want' = NULL
    /\ str' = [str EXCEPT ![received] = s]
    /\ pc' = [pc EXCEPT ![received] = "entering"]
    /\ UNCHANGED <<received, ring, got, list, crashed>>

\* pthread_create fails, and pthread_detach is given a tid nobody has set.
StartFails ==
    /\ ~crashed /\ want # NULL
    /\ want' = NULL
    /\ crashed' \in BOOLEAN
    /\ UNCHANGED <<received, ring, str, got, pc, list>>
-----------------------------------------------------------------------------
(* The queue and the device's thread.                                      *)

ReturnAndSignal(t, S) ==
    IF Waiting(S) = {}
    THEN pc' = [pc EXCEPT ![t] = "out"]
    ELSE \E w \in Waiting(S) : pc' = [pc EXCEPT ![t] = "out", ![w] = "woken"]

Sleep(t) ==
    /\ pc' = [pc EXCEPT ![t] = "waiting"]
    /\ UNCHANGED <<main, ring, str, got, list, crashed>>

Store(n) ==
    /\ data' = [data EXCEPT ![rear] = str[n]]
    /\ rear' = (rear + 1) % MAX_QUEUE_SIZE
    /\ str' = [str EXCEPT ![n] = NULL]
    /\ ReturnAndSignal(n, {0})
    /\ UNCHANGED <<main, front, got, list, crashed>>

enqueue(n) ==
    /\ ~crashed /\ pc[n] \in {"entering", "woken"}
    /\ \/ is_queue_full /\ Sleep(n)
       \/ ~is_queue_full /\ str[n] # BAD /\ Store(n)
       \/ /\ ~is_queue_full /\ str[n] = BAD
          /\ crashed' = TRUE
          /\ UNCHANGED <<main, ring, str, got, pc, list>>

dequeueCall ==
    /\ ~crashed /\ pc[0] = "out" /\ got[0] = NULL
    /\ pc' = [pc EXCEPT ![0] = "entering"]
    /\ UNCHANGED <<main, ring, str, got, list, crashed>>

\* Faulty variant: not_full is signalled only when the queue was full.
Load_SignalWhenFull ==
    /\ got' = [got EXCEPT ![0] = data[front]]
    /\ front' = (front + 1) % MAX_QUEUE_SIZE
    /\ IF is_queue_full THEN ReturnAndSignal(0, Pushers)
       ELSE pc' = [pc EXCEPT ![0] = "out"]
    /\ UNCHANGED <<main, data, rear, str, list, crashed>>

Load ==
    /\ got' = [got EXCEPT ![0] = data[front]]
    /\ front' = (front + 1) % MAX_QUEUE_SIZE
    /\ ReturnAndSignal(0, Pushers)
    /\ UNCHANGED <<main, data, rear, str, list, crashed>>

dequeue ==
    /\ ~crashed /\ pc[0] \in {"entering", "woken"}
    /\ \/ is_queue_empty /\ Sleep(0)
       \/ ~is_queue_empty /\ Load

AddToList(texts) == list' = Append(list, texts)

\* The device is opened and the string written to it. A node is added for an
\* answer and for the lack of one in SERIAL_TIMEOUT, none when a call fails.
Exchange ==
    /\ ~crashed /\ pc[0] = "out" /\ got[0] # NULL
    /\ \/ UNCHANGED list
       \/ AddToList({TIMEOUT})
       \/ \E answer \in Texts : AddToList({got[0], answer})
    /\ got' = [got EXCEPT ![0] = NULL]
    /\ UNCHANGED <<main, ring, str, pc, crashed>>

\* A wait that ends for no reason.
SpuriousWakeup(t) ==
    /\ ~crashed /\ pc[t] = "waiting"
    /\ pc' = [pc EXCEPT ![t] = "woken"]
    /\ UNCHANGED <<main, ring, str, got, list, crashed>>

Next ==
    \/ \E t \in Texts : Request(t)
    \/ StartFails \/ \E s \in Texts \cup {BAD} : StartEnqueue(s)
    \/ \E n \in Pushers : enqueue(n)
    \/ dequeueCall \/ dequeue \/ Exchange
    \/ \E t \in Threads : SpuriousWakeup(t)

\* The threads run, and an exchange with a device ends by SERIAL_TIMEOUT at
\* the latest. Nobody is obliged to send.
Spec ==
    /\ Init /\ [][Next]_vars
    /\ \A n \in Pushers : WF_vars(enqueue(n))
    /\ WF_vars(dequeueCall \/ dequeue \/ Exchange)
-----------------------------------------------------------------------------
Contents ==
    [i \in 1..(rear - front) % MAX_QUEUE_SIZE |->
        data[(front + (i - 1)) % MAX_QUEUE_SIZE]]

FIFO == INSTANCE BoundedFIFO WITH
    Producers <- Pushers, Consumers <- {0}, Values <- Texts \cup {BAD},
    Capacity <- MAX_QUEUE_SIZE - 1, Impatient <- {},
    pending <- str, queue <- Contents, delivered <- got

\* The ring without a size is a first-in, first-out queue of one less than
\* MAX_QUEUE_SIZE: full and empty are never taken for one another.
ImplementsFIFO == FIFO!SafeSpec

\* A thread started on enqueue ends, unless it brings the process down, when
\* the device has a thread: of those that wait for room, each gets a signal.
EnqueueReturns ==
    \A n \in Pushers :
        pc[0] # "none" /\ pc[n] \in {"entering", "waiting", "woken"}
            ~> pc[n] = "out" \/ crashed
=============================================================================
