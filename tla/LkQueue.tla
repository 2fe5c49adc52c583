------------------------------- MODULE LkQueue -------------------------------
(***************************************************************************)
(* src/dev/lkq/lkq.c: a ring of MAX_QUEUE_SIZE strings with one mutex and  *)
(* two condition variables. queue_push waits for room, with a deadline if  *)
(* it is given one; queue_pop waits for a string; queue_search looks.      *)
(*                                                                         *)
(* A string is copied into the ring and out of it with the mutex held. As  *)
(* in SyncQueue, what a thread does from one acquisition of the mutex to   *)
(* the next release is one step. A deadline may pass at any time.          *)
(***************************************************************************)
EXTENDS Integers, FiniteSets, Sequences

CONSTANTS Pushers, Poppers,  \* the threads that call queue_push and queue_pop
          Timed,             \* the pushers that pass a deadline
          Strings,
          MAX_QUEUE_SIZE,
          NULL

ASSUME LkQueueAssumption ==
    /\ MAX_QUEUE_SIZE \in Nat \ {0}
    /\ IsFiniteSet(Pushers) /\ IsFiniteSet(Poppers)
    /\ Pushers \cap Poppers = {} /\ Timed \subseteq Pushers
    /\ NULL \notin Strings

VARIABLES data,   \* data[i]: the string in slot i
          front, rear, size,
          str,    \* str[p]: the string p pushes, NULL outside a call
          got,    \* got[c]: the string popped for c, NULL before
          result, \* result[p]: what the last call of queue_push returned to p
          pc      \* pc[t]: where thread t is

vars == <<data, front, rear, size, str, got, result, pc>>
ring == <<data, front, rear, size>>

Threads == Pushers \cup Poppers
Slots == 0..MAX_QUEUE_SIZE-1

\* As in SyncQueue; "expired": the deadline has passed, and the thread needs
\* the mutex to return. Until then a signal may still go to it: "spent".
PCs == {"out", "entering", "waiting", "woken", "expired", "spent"}

\* Faulty variant: a slot is kept free, as in rings that have no size.
queue_is_full_OneFree == size = MAX_QUEUE_SIZE - 1

queue_is_full == size = MAX_QUEUE_SIZE
queue_is_empty == size = 0

Waiting(S) == {t \in S : pc[t] = "waiting"}
Expired(S) == {t \in S : pc[t] = "expired"}
Gives(t, w, place) == pc' = [pc EXCEPT ![t] = "out", ![w] = place]

\* queue_init. The queue is a global: its strings start out empty.
Init ==
    /\ data = [i \in Slots |-> NULL]
    /\ front = 0 /\ rear = 0 /\ size = 0
    /\ str = [p \in Pushers |-> NULL]
    /\ got = [c \in Poppers |-> NULL]
    /\ result = [p \in Pushers |-> 0]
    /\ pc = [t \in Threads |-> "out"]

\* One waiter is woken, if there is one; or a thread whose wait has timed out
\* takes the signal, and returns all the same.
ReturnAndSignal(t, S) ==
    \/ Waiting(S) = {} /\ pc' = [pc EXCEPT ![t] = "out"]
    \/ \E w \in Waiting(S) : Gives(t, w, "woken")
    \/ \E w \in Expired(S) : Gives(t, w, "spent")

Sleep(t) ==
    /\ pc' = [pc EXCEPT ![t] = "waiting"]
    /\ UNCHANGED <<ring, str, got, result>>

PushCall(p, s) ==
    /\ pc[p] = "out"
    /\ pc' = [pc EXCEPT ![p] = "entering"]
    /\ str' = [str EXCEPT ![p] = s]
    /\ UNCHANGED <<ring, got, result>>

\* The string is copied into the ring and queue_push returns 0.
Store(p) ==
    /\ data' = [data EXCEPT ![rear] = str[p]]
    /\ rear' = (rear + 1) % MAX_QUEUE_SIZE
    /\ size' = size + 1
    /\ str' = [str EXCEPT ![p] = NULL]
    /\ result' = [result EXCEPT ![p] = 0]
    /\ ReturnAndSignal(p, Poppers)
    /\ UNCHANGED <<front, got>>

\* Faulty variant: the loop around the wait is an if.
Push_NoRecheck(p) ==
    /\ pc[p] \in {"entering", "woken"}
    /\ \/ queue_is_full /\ pc[p] = "entering" /\ Sleep(p)
       \/ (~queue_is_full \/ pc[p] = "woken") /\ Store(p)

Push(p) ==
    /\ pc[p] \in {"entering", "woken"}
    /\ \/ queue_is_full /\ Sleep(p)
       \/ ~queue_is_full /\ Store(p)

\* Faulty variant: a wait that ended is begun again with a new deadline, which
\* in the end never passes.
Expire_Anew(p) ==
    /\ p \in Timed /\ pc[p] = "waiting"
    /\ Sleep(p)

\* pthread_cond_timedwait stops waiting for a signal.
Expire(p) ==
    /\ p \in Timed /\ pc[p] = "waiting"
    /\ pc' = [pc EXCEPT ![p] = "expired"]
    /\ UNCHANGED <<ring, str, got, result>>

\* Faulty variant: the string is stored once there is room, and the caller is
\* told that it is not.
TimeOut_Stores(p) ==
    /\ pc[p] \in {"expired", "spent"}
    /\ IF queue_is_full
       THEN UNCHANGED ring
       ELSE /\ data' = [data EXCEPT ![rear] = str[p]]
            /\ rear' = (rear + 1) % MAX_QUEUE_SIZE
            /\ size' = size + 1
            /\ UNCHANGED front
    /\ str' = [str EXCEPT ![p] = NULL]
    /\ result' = [result EXCEPT ![p] = -1]
    /\ pc' = [pc EXCEPT ![p] = "out"]
    /\ UNCHANGED got

\* queue_push returns -1, with no look at whether there is room by now.
TimeOut(p) ==
    /\ pc[p] \in {"expired", "spent"}
    /\ str' = [str EXCEPT ![p] = NULL]
    /\ result' = [result EXCEPT ![p] = -1]
    /\ pc' = [pc EXCEPT ![p] = "out"]
    /\ UNCHANGED <<ring, got>>

PopCall(c) ==
    /\ pc[c] = "out" /\ got[c] = NULL
    /\ pc' = [pc EXCEPT ![c] = "entering"]
    /\ UNCHANGED <<ring, str, got, result>>

\* Faulty variant: not_full is signalled only when the queue was full.
Load_SignalWhenFull(c) ==
    /\ got' = [got EXCEPT ![c] = data[front]]
    /\ front' = (front + 1) % MAX_QUEUE_SIZE
    /\ size' = size - 1
    /\ IF queue_is_full THEN ReturnAndSignal(c, Pushers)
       ELSE pc' = [pc EXCEPT ![c] = "out"]
    /\ UNCHANGED <<data, rear, str, result>>

Load(c) ==
    /\ got' = [got EXCEPT ![c] = data[front]]
    /\ front' = (front + 1) % MAX_QUEUE_SIZE
    /\ size' = size - 1
    /\ ReturnAndSignal(c, Pushers)
    /\ UNCHANGED <<data, rear, str, result>>

Pop(c) ==
    /\ pc[c] \in {"entering", "woken"}
    /\ \/ queue_is_empty /\ Sleep(c)
       \/ ~queue_is_empty /\ Load(c)

\* The caller of queue_pop is done with its string.
Drop(c) ==
    /\ pc[c] = "out" /\ got[c] # NULL
    /\ got' = [got EXCEPT ![c] = NULL]
    /\ UNCHANGED <<ring, str, result, pc>>

SpuriousWakeup(t) ==
    /\ pc[t] = "waiting"
    /\ pc' = [pc EXCEPT ![t] = "woken"]
    /\ UNCHANGED <<ring, str, got, result>>

Next ==
    \/ \E p \in Pushers : \/ Push(p) \/ Expire(p) \/ TimeOut(p)
                          \/ \E s \in Strings : PushCall(p, s)
    \/ \E c \in Poppers : PopCall(c) \/ Pop(c) \/ Drop(c)
    \/ \E t \in Threads : SpuriousWakeup(t)

SafeSpec == Init /\ [][Next]_vars

\* Threads that can run do, and poppers loop for ever. A deadline does not
\* move: a wait that ends for no reason again and again still expires.
Spec ==
    /\ SafeSpec
    /\ \A p \in Pushers : WF_vars(Push(p)) /\ SF_vars(Expire(p)) /\ WF_vars(TimeOut(p))
    /\ \A c \in Poppers : WF_vars(PopCall(c) \/ Pop(c) \/ Drop(c))
-----------------------------------------------------------------------------
\* Every variable has its type: in particular no index leaves the ring and a
\* push that waited never makes the size exceed MAX_QUEUE_SIZE.
TypeOK ==
    /\ data \in [Slots -> Strings \cup {NULL}]
    /\ front \in Slots /\ rear \in Slots
    /\ size \in 0..MAX_QUEUE_SIZE
    /\ str \in [Pushers -> Strings \cup {NULL}]
    /\ got \in [Poppers -> Strings \cup {NULL}]
    /\ result \in [Pushers -> {0, -1}]
    /\ pc \in [Threads -> PCs]

\* The strings queued, oldest first; queue_search compares against these.
Contents == [i \in 1..size |-> data[(front + (i - 1)) % MAX_QUEUE_SIZE]]

FIFO == INSTANCE BoundedFIFO WITH
    Producers <- Pushers, Consumers <- Poppers, Values <- Strings,
    Capacity <- MAX_QUEUE_SIZE, Impatient <- Timed,
    pending <- str, queue <- Contents, delivered <- got

\* The ring implements the blocking bounded queue whose timed producers may
\* give up: in particular a push that returned -1 has stored nothing.
ImplementsFIFO == FIFO!Spec

\* A push with a deadline returns.
TimedPushReturns == \A p \in Timed : pc[p] # "out" ~> pc[p] = "out"

\* The result tells whether the string was stored: a call that returns -1
\* leaves the ring as it was, and one that returns 0 has put its string last.
ResultIsTrue ==
    [][\A p \in Pushers :
          pc[p] # "out" /\ pc'[p] = "out" =>
             \/ result'[p] = 0 /\ Contents' = Append(Contents, str[p])
             \/ result'[p] = -1 /\ Contents' = Contents]_vars
=============================================================================
