------------------------------ MODULE SyncQueue ------------------------------
(***************************************************************************)
(* src/src/block-mode/include/queue.c: a ring of QUEUE_SIZE elements that  *)
(* threads fill with enqueue and empty with dequeue, under one mutex and   *)
(* two condition variables.                                                *)
(*                                                                         *)
(* The ring's fields are touched only with the mutex held, and the mutex   *)
(* is released only by pthread_cond_wait or on return, so what a thread    *)
(* does from one acquisition to the next release is one step. An element   *)
(* is a pointer to a malloc'ed copy of the caller's bytes: heap gives the  *)
(* contents of an address. Nobody frees an array; the model hands out      *)
(* again an address to which no pointer is left.                           *)
(***************************************************************************)
EXTENDS Integers, FiniteSets, Sequences

CONSTANTS Producers,   \* threads that call enqueue
          Consumers,   \* threads that call dequeue
          Values,      \* what the bytes of an array can be
          Arrays,      \* addresses malloc can return
          QUEUE_SIZE,
          NULL

ASSUME QueueAssumption ==
    /\ QUEUE_SIZE \in Nat \ {0}
    /\ IsFiniteSet(Producers) /\ IsFiniteSet(Consumers)
    /\ Producers \cap Consumers = {}
    /\ NULL \notin Values \cup Arrays

VARIABLES elements,  \* elements[i]: the pointer in slot i
          head, tail, count,
          heap,      \* heap[a]: the bytes at address a
          arg,       \* arg[p]: the bytes p passed to enqueue, NULL outside a call
          got,       \* got[c]: the pointer dequeue returned to c, NULL before
          pc         \* pc[t]: where thread t is

vars == <<elements, head, tail, count, heap, arg, got, pc>>

Threads == Producers \cup Consumers
Slots == 0..QUEUE_SIZE-1

\* "out": not in the queue's code. "entering": before pthread_mutex_lock.
\* "waiting": asleep on a condition variable. "woken": to retake the mutex
\* inside pthread_cond_wait and test the loop condition again.
PCs == {"out", "entering", "waiting", "woken"}

\* Faulty variant: an index that is never wrapped.
Next1_NoWrap(i) == i + 1

Next1(i) == (i + 1) % QUEUE_SIZE

Waiting(S) == {t \in S : pc[t] = "waiting"}
Woken(S) == {t \in S : pc[t] = "woken"}

\* The slot of the i-th element from the head, and the slots in use.
Slot(i) == (head + i) % QUEUE_SIZE
Window == {Slot(i) : i \in 0..count-1}

InUse == {elements[i] : i \in Slots} \cup {got[c] : c \in Consumers}

\* init_queue. The queue is a global: its pointers start out NULL.
Init ==
    /\ elements = [i \in Slots |-> NULL]
    /\ head = 0 /\ tail = 0 /\ count = 0
    /\ heap \in [Arrays -> Values]
    /\ arg = [p \in Producers |-> NULL]
    /\ got = [c \in Consumers |-> NULL]
    /\ pc = [t \in Threads |-> "out"]

\* Thread t leaves the queue's code and signals the condition variable S's
\* threads wait on: one of them, if any waits there, is unblocked.
ReturnAndSignal(t, S) ==
    IF Waiting(S) = {}
    THEN pc' = [pc EXCEPT ![t] = "out"]
    ELSE \E w \in Waiting(S) : pc' = [pc EXCEPT ![t] = "out", ![w] = "woken"]

Sleep(t) ==
    /\ pc' = [pc EXCEPT ![t] = "waiting"]
    /\ UNCHANGED <<elements, head, tail, count, heap, arg, got>>

EnqueueCall(p, v) ==
    /\ pc[p] = "out"
    /\ pc' = [pc EXCEPT ![p] = "entering"]
    /\ arg' = [arg EXCEPT ![p] = v]
    /\ UNCHANGED <<elements, head, tail, count, heap, got>>

\* Faulty variant: the array a slot already has is filled again.
Insert_SlotArrayReused(p) ==
    /\ \E a \in Arrays \ InUse :
          LET b == IF elements[tail] = NULL THEN a ELSE elements[tail]
          IN  /\ heap' = [heap EXCEPT ![b] = arg[p]]
              /\ elements' = [elements EXCEPT ![tail] = b]
    /\ tail' = Next1(tail)
    /\ count' = count + 1
    /\ arg' = [arg EXCEPT ![p] = NULL]
    /\ ReturnAndSignal(p, Consumers)
    /\ UNCHANGED <<head, got>>

\* A fresh array is filled before its pointer is published in the tail slot.
Insert(p) ==
    /\ \E a \in Arrays \ InUse :
          /\ heap' = [heap EXCEPT ![a] = arg[p]]
          /\ elements' = [elements EXCEPT ![tail] = a]
    /\ tail' = Next1(tail)
    /\ count' = count + 1
    /\ arg' = [arg EXCEPT ![p] = NULL]
    /\ ReturnAndSignal(p, Consumers)
    /\ UNCHANGED <<head, got>>

\* Faulty variant: the loop around pthread_cond_wait is an if.
Enqueue_NoRecheck(p) ==
    /\ pc[p] \in {"entering", "woken"}
    /\ \/ count = QUEUE_SIZE /\ pc[p] = "entering" /\ Sleep(p)
       \/ (count # QUEUE_SIZE \/ pc[p] = "woken") /\ Insert(p)

Enqueue(p) ==
    /\ pc[p] \in {"entering", "woken"}
    /\ \/ count = QUEUE_SIZE /\ Sleep(p)
       \/ count # QUEUE_SIZE /\ Insert(p)

DequeueCall(c) ==
    /\ pc[c] = "out"
    /\ got[c] = NULL
    /\ pc' = [pc EXCEPT ![c] = "entering"]
    /\ UNCHANGED <<elements, head, tail, count, heap, arg, got>>

\* Faulty variant: not_full is signalled only when the queue was full.
Remove_SignalWhenFull(c) ==
    /\ got' = [got EXCEPT ![c] = elements[head]]
    /\ head' = Next1(head)
    /\ count' = count - 1
    /\ IF count = QUEUE_SIZE THEN ReturnAndSignal(c, Producers)
       ELSE pc' = [pc EXCEPT ![c] = "out"]
    /\ UNCHANGED <<elements, tail, heap, arg>>

\* The pointer is copied out; the slot keeps it until it is filled again.
Remove(c) ==
    /\ got' = [got EXCEPT ![c] = elements[head]]
    /\ head' = Next1(head)
    /\ count' = count - 1
    /\ ReturnAndSignal(c, Producers)
    /\ UNCHANGED <<elements, tail, heap, arg>>

Dequeue(c) ==
    /\ pc[c] \in {"entering", "woken"}
    /\ \/ count = 0 /\ Sleep(c)
       \/ count # 0 /\ Remove(c)

\* The caller has read the array it got, without the mutex, and forgets it.
Drop(c) ==
    /\ pc[c] = "out"
    /\ got[c] # NULL
    /\ got' = [got EXCEPT ![c] = NULL]
    /\ UNCHANGED <<elements, head, tail, count, heap, arg, pc>>

\* pthread_cond_wait may return without a signal.
SpuriousWakeup(t) ==
    /\ pc[t] = "waiting"
    /\ pc' = [pc EXCEPT ![t] = "woken"]
    /\ UNCHANGED <<elements, head, tail, count, heap, arg, got>>

Next ==
    \/ \E p \in Producers : Enqueue(p) \/ \E v \in Values : EnqueueCall(p, v)
    \/ \E c \in Consumers : DequeueCall(c) \/ Dequeue(c) \/ Drop(c)
    \/ \E t \in Threads : SpuriousWakeup(t)

SafeSpec == Init /\ [][Next]_vars

\* A thread that is runnable runs, and takes the mutex when it asks for it
\* (critical sections are short); consumers loop forever. Nothing obliges a
\* producer to call, nor a wakeup to be spurious.
Spec ==
    /\ SafeSpec
    /\ \A p \in Producers : WF_vars(Enqueue(p))
    /\ \A c \in Consumers : WF_vars(DequeueCall(c) \/ Dequeue(c) \/ Drop(c))
-----------------------------------------------------------------------------
\* Every variable has its type: head and tail stay in the ring and count does
\* not leave 0..QUEUE_SIZE.
TypeOK ==
    /\ elements \in [Slots -> Arrays \cup {NULL}]
    /\ head \in Slots /\ tail \in Slots
    /\ count \in 0..QUEUE_SIZE
    /\ heap \in [Arrays -> Values]
    /\ arg \in [Producers -> Values \cup {NULL}]
    /\ got \in [Consumers -> Arrays \cup {NULL}]
    /\ pc \in [Threads -> PCs]

\* The redundant indices agree, and the slots in use hold arrays.
RingShape ==
    /\ tail = Slot(count)
    /\ \A i \in Window : elements[i] # NULL

\* The bytes of a call in progress are there to be copied, and only then.
CallsShape ==
    /\ \A p \in Producers : arg[p] = NULL <=> pc[p] = "out"
    /\ \A c \in Consumers : got[c] # NULL => pc[c] = "out"

\* No two slots share an array, stale slots included, no two consumers hold
\* the same array, and an array a consumer is still reading (queue.c hands it
\* out and the caller reads it without the mutex) is not queued any more.
Ownership ==
    /\ \A i, j \in Slots : elements[i] = elements[j] /\ i # j => elements[i] = NULL
    /\ \A c, d \in Consumers : got[c] = got[d] /\ c # d => got[c] = NULL
    /\ \A c \in Consumers : \A i \in Window : elements[i] # got[c]

\* No wakeup is lost: while a producer sleeps on not_full, the free slots are
\* covered by producers already woken for them; while a consumer sleeps on
\* not_empty, so are the queued elements. (queue.c signals once per call and
\* never broadcasts.)
NoLostWakeup ==
    /\ Waiting(Producers) # {} =>
          count + Cardinality(Woken(Producers)) >= QUEUE_SIZE
    /\ Waiting(Consumers) # {} => Cardinality(Woken(Consumers)) >= count

\* The invariants together with the shapes they rest on: the least conjunction
\* found that every step of enqueue and dequeue preserves.
IInv == TypeOK /\ RingShape /\ CallsShape /\ Ownership /\ NoLostWakeup

\* The values queued, oldest first, and the value each consumer works on,
\* read from the array at the moment of looking: a consumer whose array
\* changed under it would not see what was passed to enqueue.
Contents == [i \in 1..count |-> heap[elements[Slot(i - 1)]]]
Delivered == [c \in Consumers |-> IF got[c] = NULL THEN NULL ELSE heap[got[c]]]

FIFO == INSTANCE BoundedFIFO WITH
    Capacity <- QUEUE_SIZE, Impatient <- {},
    pending <- arg, queue <- Contents, delivered <- Delivered

\* The ring with its mutex and condition variables implements the blocking
\* bounded queue: first in first out, nothing lost, duplicated or altered,
\* and nobody is left asleep who could be served.
ImplementsFIFO == FIFO!Spec
=============================================================================
