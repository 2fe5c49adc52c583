--------------------------- MODULE SyncQueueProofs ---------------------------
(***************************************************************************)
(* Proofs about SyncQueue, for every number of threads and queue size.     *)
(* IInv is inductive as it stands; its parts are proved to be preserved    *)
(* one at a time, each from the parts it needs, and the implementation of  *)
(* BoundedFIFO's safety follows from it.                                   *)
(***************************************************************************)
EXTENDS SyncQueue, TLAPS, FiniteSetTheorems, SequenceTheorems

-----------------------------------------------------------------------------
(* Indices modulo QUEUE_SIZE.                                              *)

LEMMA ModRing ==
    ASSUME NEW i \in Nat, NEW j \in Nat, i < QUEUE_SIZE, j <= QUEUE_SIZE
    PROVE  (i + j) % QUEUE_SIZE =
              IF i + j < QUEUE_SIZE THEN i + j ELSE i + j - QUEUE_SIZE
<1>. QUEUE_SIZE \in Nat \ {0}
  BY QueueAssumption
<1>. QED
  OBVIOUS

\* The slots a ring of count elements occupies, seen from either end.
LEMMA SlotFacts ==
    ASSUME TypeOK
    PROVE  /\ \A i \in 0..QUEUE_SIZE : Slot(i) \in Slots
           /\ Slot(0) = head
           /\ \A i, j \in 0..QUEUE_SIZE-1 : Slot(i) = Slot(j) => i = j
           /\ \A i \in 0..QUEUE_SIZE-1 : Next1(Slot(i)) = Slot(i + 1)
           /\ \A i \in 0..QUEUE_SIZE-1 : (Next1(head) + i) % QUEUE_SIZE = Slot(i + 1)
<1>. QUEUE_SIZE \in Nat \ {0} /\ head \in 0..QUEUE_SIZE-1
  BY QueueAssumption DEF TypeOK, Slots
<1>1. \A i \in 0..QUEUE_SIZE :
         Slot(i) = IF head + i < QUEUE_SIZE THEN head + i ELSE head + i - QUEUE_SIZE
  <2>. TAKE i \in 0..QUEUE_SIZE
  <2>1. head \in Nat /\ head < QUEUE_SIZE /\ i \in Nat /\ i <= QUEUE_SIZE
    OBVIOUS
  <2>. QED
    BY <2>1, ModRing DEF Slot
<1>2. \A i \in Slots : Next1(i) = IF i + 1 < QUEUE_SIZE THEN i + 1 ELSE 0
  <2>. TAKE i \in Slots
  <2>1. i \in Nat /\ i < QUEUE_SIZE /\ 1 \in Nat /\ 1 <= QUEUE_SIZE
    BY DEF Slots
  <2>2. (i + 1) % QUEUE_SIZE =
           IF i + 1 < QUEUE_SIZE THEN i + 1 ELSE i + 1 - QUEUE_SIZE
    BY <2>1, ModRing
  <2>. QED
    BY <2>1, <2>2 DEF Next1
<1>3. \A i \in 0..QUEUE_SIZE : Slot(i) \in Slots
  BY <1>1 DEF Slots
<1>4. Slot(0) = head
  BY <1>1
<1>5. \A i, j \in 0..QUEUE_SIZE-1 : Slot(i) = Slot(j) => i = j
  BY <1>1
<1>6. ASSUME NEW i \in 0..QUEUE_SIZE-1
      PROVE  Next1(Slot(i)) = Slot(i + 1)
  <2>1. Slot(i) = IF head + i < QUEUE_SIZE THEN head + i ELSE head + i - QUEUE_SIZE
    BY <1>1
  <2>2. Slot(i + 1) = IF head + i + 1 < QUEUE_SIZE THEN head + i + 1
                                                   ELSE head + i + 1 - QUEUE_SIZE
    BY <1>1
  <2>3. Next1(Slot(i)) = IF Slot(i) + 1 < QUEUE_SIZE THEN Slot(i) + 1 ELSE 0
    BY <1>2, <1>3
  <2>. QED
    BY <2>1, <2>2, <2>3
<1>7. ASSUME NEW i \in 0..QUEUE_SIZE-1
      PROVE  (Next1(head) + i) % QUEUE_SIZE = Slot(i + 1)
  <2>1. Next1(head) = IF head + 1 < QUEUE_SIZE THEN head + 1 ELSE 0
    BY <1>2 DEF Slots
  <2>2. (Next1(head) + i) % QUEUE_SIZE =
           IF Next1(head) + i < QUEUE_SIZE THEN Next1(head) + i
                                           ELSE Next1(head) + i - QUEUE_SIZE
    <3>1. Next1(head) \in Nat /\ Next1(head) < QUEUE_SIZE /\ i \in Nat /\ i <= QUEUE_SIZE
      BY <2>1
    <3>. QED
      BY <3>1, ModRing
  <2>3. Slot(i + 1) = IF head + i + 1 < QUEUE_SIZE THEN head + i + 1
                                                   ELSE head + i + 1 - QUEUE_SIZE
    BY <1>1
  <2>. QED
    BY <2>1, <2>2, <2>3
<1>. QED
  BY <1>3, <1>4, <1>5, <1>6, <1>7

\* Filling the tail slot extends the slots in use by that slot.
LEMMA WindowGrows ==
    ASSUME TypeOK, RingShape, count # QUEUE_SIZE, head' = head, count' = count + 1
    PROVE  Window' = Window \cup {tail} /\ tail \notin Window
<1>. QUEUE_SIZE \in Nat \ {0} /\ count \in 0..QUEUE_SIZE-1
  BY QueueAssumption DEF TypeOK
<1>1. Window' = {Slot(i) : i \in 0..count}
  BY DEF Window, Slot
<1>2. 0..count = (0..count-1) \cup {count}
  OBVIOUS
<1>3. tail = Slot(count)
  BY DEF RingShape
<1>4. \A i \in 0..count-1 : Slot(i) # Slot(count)
  <2>. TAKE i \in 0..count-1
  <2>1. i \in 0..QUEUE_SIZE-1 /\ i # count
    OBVIOUS
  <2>. QED
    BY <2>1, SlotFacts
<1>. QED
  BY <1>1, <1>2, <1>3, <1>4 DEF Window

\* Taking the head element gives up that slot and no other.
LEMMA WindowShrinks ==
    ASSUME TypeOK, count # 0, head' = Next1(head), count' = count - 1
    PROVE  Window' = Window \ {head} /\ head \in Window
<1>. QUEUE_SIZE \in Nat \ {0} /\ count \in 1..QUEUE_SIZE
  BY QueueAssumption DEF TypeOK
<1>1. Window' = {Slot(i + 1) : i \in 0..count-2}
  <2>1. Window' = {(Next1(head) + i) % QUEUE_SIZE : i \in 0..count-2}
    BY DEF Window, Slot
  <2>2. \A i \in 0..count-2 : i \in 0..QUEUE_SIZE-1
    OBVIOUS
  <2>. QED
    BY <2>1, <2>2, SlotFacts
<1>2. \A i \in 0..count-1 : i = 0 \/ (i - 1 \in 0..count-2 /\ i = (i - 1) + 1)
  OBVIOUS
<1>3. \A i \in 0..count-2 : i + 1 \in 0..count-1 /\ Slot(i + 1) # head
  <2>. TAKE i \in 0..count-2
  <2>1. i + 1 \in 0..QUEUE_SIZE-1 /\ 0 \in 0..QUEUE_SIZE-1 /\ i + 1 # 0
    OBVIOUS
  <2>. QED
    BY <2>1, SlotFacts
<1>4. head = Slot(0) /\ 0 \in 0..count-1
  BY SlotFacts
<1>5. Window' \subseteq Window \ {head}
  BY <1>1, <1>3 DEF Window
<1>6. Window \ {head} \subseteq Window'
  <2>. SUFFICES ASSUME NEW i \in 0..count-1, Slot(i) # head
                PROVE  Slot(i) \in Window'
    BY DEF Window
  <2>1. i - 1 \in 0..count-2 /\ i = (i - 1) + 1
    BY <1>2, <1>4
  <2>. QED
    BY <1>1, <2>1
<1>. QED
  BY <1>4, <1>5, <1>6 DEF Window

-----------------------------------------------------------------------------
(* Program counters.                                                       *)

\* A signal wakes one of the threads it is meant for, if any sleeps, and
\* nobody else; the thread that gave it leaves the queue.
LEMMA SignalEffect ==
    ASSUME TypeOK, NEW t \in Threads, NEW S \in SUBSET Threads, t \notin S,
           ReturnAndSignal(t, S)
    PROVE  /\ pc' \in [Threads -> PCs]
           /\ pc'[t] = "out"
           /\ \A u \in Threads \ {t} :
                 pc'[u] = pc[u] \/ (u \in S /\ pc[u] = "waiting" /\ pc'[u] = "woken")
           /\ Waiting(S) # {} =>
                 \E w \in Waiting(S) : /\ Waiting(S)' = Waiting(S) \ {w}
                                       /\ Woken(S)' = Woken(S) \cup {w}
           /\ Waiting(S) = {} => Waiting(S)' = {}
<1>. pc \in [Threads -> PCs]
  BY DEF TypeOK
<1>1. CASE Waiting(S) = {}
  <2>1. pc' = [pc EXCEPT ![t] = "out"]
    BY <1>1 DEF ReturnAndSignal
  <2>2. Waiting(S)' = {}
    BY <1>1, <2>1 DEF Waiting
  <2>. QED
    BY <1>1, <2>1, <2>2 DEF PCs
<1>2. CASE Waiting(S) # {}
  <2>1. PICK w \in Waiting(S) : pc' = [pc EXCEPT ![t] = "out", ![w] = "woken"]
    BY <1>2 DEF ReturnAndSignal
  <2>2. w \in S /\ w # t /\ w \in Threads /\ pc[w] = "waiting"
    BY DEF Waiting
  <2>3. Waiting(S)' = Waiting(S) \ {w}
    BY <2>1, <2>2 DEF Waiting
  <2>4. Woken(S)' = Woken(S) \cup {w}
    BY <2>1, <2>2 DEF Woken
  <2>5. pc' \in [Threads -> PCs]
    BY <2>1, <2>2 DEF PCs
  <2>. QED
    BY <1>2, <2>1, <2>2, <2>3, <2>4, <2>5
<1>. QED
  BY <1>1, <1>2

\* The other case of Enqueue and Dequeue: the thread sleeps.
LEMMA SleepEffect ==
    ASSUME TypeOK, NEW t \in Threads, pc[t] \in {"entering", "woken"}, Sleep(t)
    PROVE  /\ pc' \in [Threads -> PCs]
           /\ \A u \in Threads : pc'[u] = "out" <=> pc[u] = "out"
           /\ \A u \in Threads \ {t} : pc'[u] = pc[u]
           /\ UNCHANGED <<elements, head, tail, count, heap, arg, got>>
  BY DEF TypeOK, Sleep, PCs

-----------------------------------------------------------------------------
(* Type correctness. The bytes of a call in progress are needed with it: a *)
(* producer that fills an array has bytes to fill it with.                 *)

LEMMA TypeInit == Init => TypeOK /\ CallsShape
  BY QueueAssumption DEF Init, TypeOK, CallsShape, Slots, PCs, Threads

LEMMA TypeNext ==
    ASSUME TypeOK, CallsShape, [Next]_vars
    PROVE  TypeOK' /\ CallsShape'
<1>. /\ QUEUE_SIZE \in Nat \ {0}
     /\ Producers \cap Consumers = {}
     /\ NULL \notin Values \cup Arrays
     /\ Producers \in SUBSET Threads /\ Consumers \in SUBSET Threads
  BY QueueAssumption DEF Threads
<1>0. \A i \in Slots : Next1(i) \in Slots
  BY DEF Next1, Slots
<1>1. ASSUME NEW p \in Producers, NEW v \in Values, EnqueueCall(p, v)
      PROVE  TypeOK' /\ CallsShape'
  BY <1>1 DEF EnqueueCall, TypeOK, CallsShape, PCs
<1>2. ASSUME NEW t \in Threads, pc[t] \in {"entering", "woken"}, Sleep(t)
      PROVE  TypeOK' /\ CallsShape'
  BY <1>2, SleepEffect DEF TypeOK, CallsShape
<1>3. ASSUME NEW p \in Producers, pc[p] \in {"entering", "woken"},
             count # QUEUE_SIZE, Insert(p)
      PROVE  TypeOK' /\ CallsShape'
  <2>1. /\ pc' \in [Threads -> PCs] /\ pc'[p] = "out"
        /\ \A u \in Threads \ {p} : pc'[u] = "out" <=> pc[u] = "out"
    BY <1>3, SignalEffect DEF Insert
  <2>2. arg[p] \in Values
    BY <1>3 DEF TypeOK, CallsShape
  <2>3. elements' \in [Slots -> Arrays \cup {NULL}] /\ heap' \in [Arrays -> Values]
    BY <1>3, <2>2 DEF Insert, TypeOK
  <2>4. head' \in Slots /\ tail' \in Slots /\ count' \in 0..QUEUE_SIZE
    BY <1>0, <1>3 DEF Insert, TypeOK
  <2>5. /\ arg' \in [Producers -> Values \cup {NULL}]
        /\ got' \in [Consumers -> Arrays \cup {NULL}]
    BY <1>3 DEF Insert, TypeOK
  <2>6. CallsShape'
    BY <1>3, <2>1 DEF Insert, CallsShape, TypeOK
  <2>. QED
    BY <2>1, <2>3, <2>4, <2>5, <2>6 DEF TypeOK
<1>4. ASSUME NEW c \in Consumers, DequeueCall(c)
      PROVE  TypeOK' /\ CallsShape'
  BY <1>4 DEF DequeueCall, TypeOK, CallsShape, PCs
<1>5. ASSUME NEW c \in Consumers, pc[c] \in {"entering", "woken"},
             count # 0, Remove(c)
      PROVE  TypeOK' /\ CallsShape'
  <2>1. /\ pc' \in [Threads -> PCs] /\ pc'[c] = "out"
        /\ \A u \in Threads \ {c} : pc'[u] = "out" <=> pc[u] = "out"
    BY <1>5, SignalEffect DEF Remove
  <2>2. /\ head' \in Slots /\ tail' \in Slots /\ count' \in 0..QUEUE_SIZE
        /\ got' \in [Consumers -> Arrays \cup {NULL}]
    BY <1>0, <1>5 DEF Remove, TypeOK
  <2>3. CallsShape'
    BY <1>5, <2>1 DEF Remove, CallsShape, TypeOK
  <2>. QED
    BY <1>5, <2>1, <2>2, <2>3 DEF TypeOK, Remove
<1>6. ASSUME NEW c \in Consumers, Drop(c)
      PROVE  TypeOK' /\ CallsShape'
  BY <1>6 DEF Drop, TypeOK, CallsShape
<1>7. ASSUME NEW t \in Threads, SpuriousWakeup(t)
      PROVE  TypeOK' /\ CallsShape'
  BY <1>7 DEF SpuriousWakeup, TypeOK, CallsShape, PCs
<1>8. CASE UNCHANGED vars
  BY <1>8 DEF vars, TypeOK, CallsShape
<1>. QED
  BY <1>1, <1>2, <1>3, <1>4, <1>5, <1>6, <1>7, <1>8 DEF Next, Enqueue, Dequeue

-----------------------------------------------------------------------------
(* The ring and who owns which array. Only Insert, Remove and Drop touch   *)
(* the pointers; the lemma below covers every other step.                  *)

RingInv == TypeOK /\ CallsShape /\ RingShape /\ Ownership

LEMMA RingUnchanged ==
    ASSUME RingInv, UNCHANGED <<elements, head, tail, count, got>>
    PROVE  RingShape' /\ Ownership'
<1>1. Window' = Window
  BY DEF Window, Slot
<1>. QED
  BY <1>1 DEF RingInv, RingShape, Ownership, Slot

LEMMA RingInsert ==
    ASSUME RingInv, NEW p \in Producers, count # QUEUE_SIZE, Insert(p)
    PROVE  RingShape' /\ Ownership'
<1>. /\ QUEUE_SIZE \in Nat \ {0} /\ NULL \notin Values \cup Arrays
     /\ count \in 0..QUEUE_SIZE-1
     /\ TypeOK /\ RingShape /\ Ownership
  BY QueueAssumption DEF RingInv, TypeOK
<1>1. PICK a \in Arrays \ InUse : elements' = [elements EXCEPT ![tail] = a]
  BY DEF Insert
<1>2. /\ a # NULL
      /\ \A i \in Slots : elements[i] # a
      /\ \A c \in Consumers : got[c] # a
  BY DEF InUse
<1>3. Window' = Window \cup {tail} /\ tail \notin Window
  BY WindowGrows DEF Insert
<1>4. Window \subseteq Slots /\ tail \in Slots
  <2>1. \A i \in 0..count-1 : i \in 0..QUEUE_SIZE
    OBVIOUS
  <2>. QED
    BY <2>1, SlotFacts DEF Window, TypeOK
<1>5. /\ elements'[tail] = a
      /\ \A i \in Slots \ {tail} : elements'[i] = elements[i]
  BY <1>1, <1>4 DEF TypeOK
<1>6. RingShape'
  <2>1. tail = Slot(count) /\ count \in 0..QUEUE_SIZE-1
    BY DEF RingShape
  <2>2. tail' = Slot(count + 1)
    BY <2>1, SlotFacts DEF Insert
  <2>3. tail' = Slot(count)'
    BY <2>2 DEF Insert, Slot
  <2>4. \A i \in Window' : elements'[i] # NULL
    BY <1>2, <1>3, <1>4, <1>5 DEF RingShape
  <2>. QED
    BY <2>3, <2>4 DEF RingShape
<1>7. Ownership'
  <2>1. \A i, j \in Slots : elements'[i] = elements'[j] /\ i # j => elements'[i] = NULL
    BY <1>2, <1>5 DEF Ownership
  <2>2. got' = got
    BY DEF Insert
  <2>3. \A c \in Consumers : \A i \in Window' : elements'[i] # got'[c]
    BY <1>2, <1>3, <1>4, <1>5, <2>2 DEF Ownership
  <2>. QED
    BY <2>1, <2>2, <2>3 DEF Ownership
<1>. QED
  BY <1>6, <1>7

LEMMA RingRemove ==
    ASSUME RingInv, NEW c \in Consumers, count # 0, Remove(c)
    PROVE  RingShape' /\ Ownership'
<1>. /\ QUEUE_SIZE \in Nat \ {0}
     /\ count \in 1..QUEUE_SIZE
     /\ TypeOK /\ RingShape /\ Ownership
  BY QueueAssumption DEF RingInv, TypeOK
<1>1. Window' = Window \ {head} /\ head \in Window
  BY WindowShrinks DEF Remove
<1>2. Window \subseteq Slots
  <2>1. \A i \in 0..count-1 : i \in 0..QUEUE_SIZE
    OBVIOUS
  <2>. QED
    BY <2>1, SlotFacts DEF Window
<1>3. got' = [got EXCEPT ![c] = elements[head]] /\ elements' = elements
  BY DEF Remove
<1>4. RingShape'
  <2>1. tail = Slot(count) /\ count - 1 \in 0..QUEUE_SIZE-1
    BY DEF RingShape
  <2>2. Slot(count)' = (Next1(head) + (count - 1)) % QUEUE_SIZE
    BY DEF Slot, Remove
  <2>3. (Next1(head) + (count - 1)) % QUEUE_SIZE = Slot((count - 1) + 1)
    BY <2>1, SlotFacts
  <2>4. (count - 1) + 1 = count
    OBVIOUS
  <2>5. tail' = Slot(count)'
    BY <2>1, <2>2, <2>3, <2>4 DEF Remove
  <2>. QED
    BY <1>1, <1>3, <2>5 DEF RingShape
<1>5. Ownership'
  <2>1. elements[head] # NULL
    BY <1>1 DEF RingShape
  <2>2. \A i \in Window' : elements[i] # elements[head]
    BY <1>1, <1>2, <2>1 DEF Ownership
  <2>3. /\ got'[c] = elements[head]
        /\ \A d \in Consumers \ {c} : got'[d] = got[d] /\ got[d] # elements[head]
    BY <1>1, <1>3 DEF Ownership, TypeOK
  <2>4. \A d, e \in Consumers : got'[d] = got'[e] /\ d # e => got'[d] = NULL
    BY <2>3 DEF Ownership
  <2>5. \A d \in Consumers : \A i \in Window' : elements'[i] # got'[d]
    BY <1>1, <1>3, <2>2, <2>3 DEF Ownership
  <2>. QED
    BY <1>3, <2>4, <2>5 DEF Ownership
<1>. QED
  BY <1>4, <1>5

LEMMA RingInit == Init => RingInv
<1>. SUFFICES ASSUME Init PROVE RingInv
  OBVIOUS
<1>. QUEUE_SIZE \in Nat \ {0} /\ NULL \notin Values \cup Arrays /\ TypeOK
  BY QueueAssumption, TypeInit
<1>1. Window = {}
  BY DEF Init, Window
<1>2. tail = Slot(count)
  BY SlotFacts DEF Init
<1>. QED
  BY <1>1, <1>2, TypeInit DEF RingInv, RingShape, Ownership, Init

LEMMA RingNext ==
    ASSUME RingInv, [Next]_vars
    PROVE  RingInv'
<1>0. TypeOK' /\ CallsShape'
  BY TypeNext DEF RingInv
<1>1. ASSUME NEW c \in Consumers, Drop(c)
      PROVE  RingShape' /\ Ownership'
  <2>1. Window' = Window
    BY <1>1 DEF Window, Slot, Drop
  <2>2. \A i \in Window : elements[i] # NULL
    BY DEF RingInv, RingShape
  <2>3. \A d \in Consumers : got'[d] = got[d] \/ got'[d] = NULL
    BY <1>1 DEF Drop, RingInv, TypeOK
  <2>. QED
    BY <1>1, <2>1, <2>2, <2>3 DEF Drop, RingInv, RingShape, Ownership, Slot
<1>2. ASSUME UNCHANGED <<elements, head, tail, count, got>>
      PROVE  RingShape' /\ Ownership'
  BY <1>2, RingUnchanged
<1>3. \/ \E p \in Producers : count # QUEUE_SIZE /\ Insert(p)
      \/ \E c \in Consumers : count # 0 /\ Remove(c)
      \/ \E c \in Consumers : Drop(c)
      \/ UNCHANGED <<elements, head, tail, count, got>>
  BY DEF Next, Enqueue, Dequeue, EnqueueCall, DequeueCall, Sleep, SpuriousWakeup, vars
<1>. QED
  BY <1>0, <1>1, <1>2, <1>3, RingInsert, RingRemove DEF RingInv

-----------------------------------------------------------------------------
(* No wakeup is lost. Each half of NoLostWakeup counts the threads of one  *)
(* kind that are awake against the free slots, or the elements, they were  *)
(* woken for; the lemmas follow one kind of thread through each step.      *)

LEMMA WokenFinite ==
    ASSUME NEW S \in {Producers, Consumers}
    PROVE  /\ IsFiniteSet(Woken(S)) /\ Cardinality(Woken(S)) \in Nat
           /\ IsFiniteSet(Woken(S)') /\ Cardinality(Woken(S)') \in Nat
<1>1. IsFiniteSet(S) /\ Woken(S) \in SUBSET S /\ Woken(S)' \in SUBSET S
  BY QueueAssumption DEF Woken
<1>. QED
  BY <1>1, FS_Subset, FS_CardinalityType

\* A signal to S wakes one more of its threads, unless none sleeps.
LEMMA WokenBySignal ==
    ASSUME TypeOK, NEW S \in {Producers, Consumers}, NEW t \in Threads, t \notin S,
           ReturnAndSignal(t, S), Waiting(S)' # {}
    PROVE  /\ Waiting(S) # {}
           /\ Cardinality(Woken(S)') = Cardinality(Woken(S)) + 1
<1>. S \in SUBSET Threads
  BY DEF Threads
<1>1. Waiting(S) # {}
  BY SignalEffect
<1>2. PICK w \in Waiting(S) : Woken(S)' = Woken(S) \cup {w}
  BY <1>1, SignalEffect
<1>3. w \notin Woken(S)
  BY DEF Waiting, Woken
<1>. QED
  BY <1>1, <1>2, <1>3, WokenFinite, FS_AddElement

\* A thread of S that leaves the queue was awake: at most one fewer is.
LEMMA WokenByReturn ==
    ASSUME TypeOK, NEW S \in {Producers, Consumers}, NEW t \in S,
           pc[t] \in {"entering", "woken"}, pc'[t] = "out",
           \A u \in S \ {t} : pc'[u] = pc[u]
    PROVE  /\ Waiting(S)' = Waiting(S)
           /\ Cardinality(Woken(S)') >= Cardinality(Woken(S)) - 1
<1>1. Waiting(S)' = Waiting(S)
  BY DEF Waiting
<1>2. Woken(S)' = Woken(S) \ {t}
  BY DEF Woken
<1>3. Cardinality(Woken(S) \ {t}) =
         IF t \in Woken(S) THEN Cardinality(Woken(S)) - 1 ELSE Cardinality(Woken(S))
  BY WokenFinite, FS_RemoveElement
<1>. QED
  BY <1>1, <1>2, <1>3, WokenFinite

LEMMA WakeupInit == Init => NoLostWakeup
  BY DEF Init, NoLostWakeup, Waiting, Threads

LEMMA WakeupNext ==
    ASSUME TypeOK, NoLostWakeup, [Next]_vars
    PROVE  NoLostWakeup'
<1>. /\ QUEUE_SIZE \in Nat \ {0} /\ count \in 0..QUEUE_SIZE
     /\ Producers \cap Consumers = {}
     /\ Producers \subseteq Threads /\ Consumers \subseteq Threads
  BY QueueAssumption DEF TypeOK, Threads
<1>0. /\ Cardinality(Woken(Producers)) \in Nat /\ Cardinality(Woken(Producers)') \in Nat
      /\ Cardinality(Woken(Consumers)) \in Nat /\ Cardinality(Woken(Consumers)') \in Nat
  BY WokenFinite
<1>1. ASSUME NEW p \in Producers, pc[p] \in {"entering", "woken"},
             count # QUEUE_SIZE, Insert(p)
      PROVE  NoLostWakeup'
  <2>1. ReturnAndSignal(p, Consumers) /\ count' = count + 1
    BY <1>1 DEF Insert
  <2>2. pc'[p] = "out" /\ \A u \in Producers \ {p} : pc'[u] = pc[u]
    BY <2>1, SignalEffect
  <2>3. /\ Waiting(Producers)' = Waiting(Producers)
        /\ Cardinality(Woken(Producers)') >= Cardinality(Woken(Producers)) - 1
    BY <1>1, <2>2, WokenByReturn
  <2>4. Waiting(Consumers)' # {} =>
           /\ Waiting(Consumers) # {}
           /\ Cardinality(Woken(Consumers)') = Cardinality(Woken(Consumers)) + 1
    BY <2>1, WokenBySignal
  <2>. QED
    BY <1>0, <2>1, <2>3, <2>4 DEF NoLostWakeup
<1>2. ASSUME NEW c \in Consumers, pc[c] \in {"entering", "woken"},
             count # 0, Remove(c)
      PROVE  NoLostWakeup'
  <2>1. ReturnAndSignal(c, Producers) /\ count' = count - 1
    BY <1>2 DEF Remove
  <2>2. pc'[c] = "out" /\ \A u \in Consumers \ {c} : pc'[u] = pc[u]
    BY <2>1, SignalEffect
  <2>3. /\ Waiting(Consumers)' = Waiting(Consumers)
        /\ Cardinality(Woken(Consumers)') >= Cardinality(Woken(Consumers)) - 1
    BY <1>2, <2>2, WokenByReturn
  <2>4. Waiting(Producers)' # {} =>
           /\ Waiting(Producers) # {}
           /\ Cardinality(Woken(Producers)') = Cardinality(Woken(Producers)) + 1
    BY <2>1, WokenBySignal
  <2>. QED
    BY <1>0, <2>1, <2>3, <2>4 DEF NoLostWakeup
<1>3. ASSUME NEW p \in Producers, pc[p] \in {"entering", "woken"},
             count = QUEUE_SIZE, Sleep(p)
      PROVE  NoLostWakeup'
  <2>1. count' = count /\ \A c \in Consumers : pc'[c] = pc[c]
    BY <1>3, SleepEffect
  <2>2. Waiting(Consumers)' = Waiting(Consumers) /\ Woken(Consumers)' = Woken(Consumers)
    BY <2>1 DEF Waiting, Woken
  <2>. QED
    BY <1>0, <1>3, <2>1, <2>2 DEF NoLostWakeup
<1>4. ASSUME NEW c \in Consumers, pc[c] \in {"entering", "woken"},
             count = 0, Sleep(c)
      PROVE  NoLostWakeup'
  <2>1. count' = count /\ \A p \in Producers : pc'[p] = pc[p]
    BY <1>4, SleepEffect
  <2>2. Waiting(Producers)' = Waiting(Producers) /\ Woken(Producers)' = Woken(Producers)
    BY <2>1 DEF Waiting, Woken
  <2>. QED
    BY <1>0, <1>4, <2>1, <2>2 DEF NoLostWakeup
<1>5. ASSUME NEW t \in Threads, SpuriousWakeup(t)
      PROVE  NoLostWakeup'
  <2>1. ASSUME NEW S \in {Producers, Consumers}
        PROVE  /\ Waiting(S)' \subseteq Waiting(S)
               /\ Cardinality(Woken(S)') >= Cardinality(Woken(S))
    <3>1. Waiting(S)' \subseteq Waiting(S)
      BY <1>5 DEF SpuriousWakeup, Waiting, TypeOK
    <3>2. Woken(S) \in SUBSET (Woken(S)')
      BY <1>5 DEF SpuriousWakeup, Woken, TypeOK
    <3>. QED
      BY <3>1, <3>2, WokenFinite, FS_Subset
  <2>2. count' = count
    BY <1>5 DEF SpuriousWakeup
  <2>. QED
    BY <1>0, <2>1, <2>2 DEF NoLostWakeup
<1>6. ASSUME count' = count,
             \A t \in Threads : pc'[t] # pc[t] => pc[t] = "out" /\ pc'[t] = "entering"
      PROVE  NoLostWakeup'
  <2>1. ASSUME NEW S \in {Producers, Consumers}
        PROVE  Waiting(S)' = Waiting(S) /\ Woken(S)' = Woken(S)
    BY <1>6 DEF Waiting, Woken
  <2>. QED
    BY <1>6, <2>1 DEF NoLostWakeup
<1>7. ASSUME NEW t \in Threads, pc[t] = "out", pc' = [pc EXCEPT ![t] = "entering"]
      PROVE  \A u \in Threads : pc'[u] # pc[u] => pc[u] = "out" /\ pc'[u] = "entering"
  BY <1>7 DEF TypeOK
<1>8. ASSUME NEW p \in Producers, NEW v \in Values, EnqueueCall(p, v)
      PROVE  NoLostWakeup'
  BY <1>6, <1>7, <1>8 DEF EnqueueCall
<1>9. ASSUME NEW c \in Consumers, DequeueCall(c)
      PROVE  NoLostWakeup'
  BY <1>6, <1>7, <1>9 DEF DequeueCall
<1>10. ASSUME NEW c \in Consumers, Drop(c)
       PROVE  NoLostWakeup'
  BY <1>6, <1>10 DEF Drop
<1>11. CASE UNCHANGED vars
  BY <1>6, <1>11 DEF vars
<1>. QED
  BY <1>1, <1>2, <1>3, <1>4, <1>5, <1>8, <1>9, <1>10, <1>11 DEF Next, Enqueue, Dequeue

-----------------------------------------------------------------------------
(* The invariants.                                                         *)

\* Type, shapes, ownership and wakeups hold together of every reachable state,
\* for any number of threads and any size of the ring of queue.c.
THEOREM Inductive == SafeSpec => []IInv
<1>1. Init => IInv
  BY RingInit, WakeupInit DEF RingInv, IInv
<1>2. IInv /\ [Next]_vars => IInv'
  BY RingNext, WakeupNext DEF RingInv, IInv
<1>. QED
  BY <1>1, <1>2, PTL DEF SafeSpec

\* Every variable stays in its type; in particular count never leaves
\* 0..QUEUE_SIZE and neither index leaves the ring, whatever the threads do.
THEOREM TypeCorrect == SafeSpec => []TypeOK
<1>1. IInv => TypeOK
  BY DEF IInv
<1>. QED
  BY <1>1, Inductive, PTL

\* An array is in one slot, or in one consumer's hands, and never in both.
THEOREM OwnershipCorrect == SafeSpec => []Ownership
<1>1. IInv => Ownership
  BY DEF IInv
<1>. QED
  BY <1>1, Inductive, PTL

\* One pthread_cond_signal per call is enough: no thread sleeps through the
\* event it waits for.
THEOREM WakeupCorrect == SafeSpec => []NoLostWakeup
<1>1. IInv => NoLostWakeup
  BY DEF IInv
<1>. QED
  BY <1>1, Inductive, PTL

-----------------------------------------------------------------------------
(* SyncQueue implements the safety of BoundedFIFO: Insert is Put, Remove   *)
(* is Get, Drop is Done, EnqueueCall is Ask and every other step stutters. *)

\* What the mapping looks like from below.
LEMMA Mapped ==
    ASSUME IInv
    PROVE  /\ QUEUE_SIZE \in Nat \ {0} /\ count \in 0..QUEUE_SIZE
           /\ Contents \in Seq(Values) /\ Len(Contents) = count
           /\ \A i \in 0..count-1 :
                 Slot(i) \in Window /\ Slot(i) \in Slots /\ elements[Slot(i)] \in Arrays
           /\ \A c \in Consumers : Delivered[c] = NULL <=> got[c] = NULL
<1>1. QUEUE_SIZE \in Nat \ {0} /\ count \in 0..QUEUE_SIZE /\ NULL \notin Values
  BY QueueAssumption DEF IInv, TypeOK
<1>2. ASSUME NEW i \in 0..count-1
      PROVE  Slot(i) \in Window /\ Slot(i) \in Slots /\ elements[Slot(i)] \in Arrays
  <2>1. i \in 0..QUEUE_SIZE
    BY <1>1
  <2>2. Slot(i) \in Window /\ Slot(i) \in Slots
    BY <2>1, SlotFacts DEF Window, IInv
  <2>. QED
    BY <2>2 DEF IInv, RingShape, TypeOK
<1>3. \A i \in 1..count : i - 1 \in 0..count-1
  BY <1>1
<1>4. Contents \in [1..count -> Values]
  BY <1>2, <1>3 DEF Contents, IInv, TypeOK
<1>5. Contents \in Seq(Values) /\ Len(Contents) = count
  BY <1>1, <1>4
<1>6. \A c \in Consumers : Delivered[c] = NULL <=> got[c] = NULL
  BY <1>1 DEF Delivered, IInv, TypeOK
<1>. QED
  BY <1>1, <1>2, <1>5, <1>6

LEMMA InsertIsPut ==
    ASSUME IInv, IInv', NEW p \in Producers, pc[p] \in {"entering", "woken"},
           count # QUEUE_SIZE, Insert(p)
    PROVE  FIFO!Put(p)
<1>1. PICK a \in Arrays \ InUse : /\ heap' = [heap EXCEPT ![a] = arg[p]]
                                  /\ elements' = [elements EXCEPT ![tail] = a]
  BY DEF Insert
<1>2. /\ \A i \in Slots : elements[i] # a
      /\ \A c \in Consumers : got[c] # a
  BY DEF InUse
<1>3. arg[p] # NULL
  BY DEF IInv, CallsShape
<1>4. count \in 0..QUEUE_SIZE-1 /\ count \in Nat /\ tail = Slot(count)
  BY Mapped DEF IInv, RingShape
<1>5. ASSUME NEW i \in 0..count-1
      PROVE  heap'[elements'[Slot(i)]] = heap[elements[Slot(i)]]
  <2>1. Slot(i) \in Slots /\ elements[Slot(i)] \in Arrays /\ elements[Slot(i)] # a
    BY <1>2, Mapped
  <2>2. Slot(i) # tail
    <3>1. i \in 0..QUEUE_SIZE-1 /\ count \in 0..QUEUE_SIZE-1 /\ i # count
      BY <1>4, Mapped
    <3>. QED
      BY <1>4, <3>1, SlotFacts DEF IInv
  <2>. QED
    BY <1>1, <2>1, <2>2 DEF IInv, TypeOK
<1>6. heap'[elements'[Slot(count)]] = arg[p]
  BY <1>1, <1>4 DEF IInv, TypeOK
<1>7. Contents' = Append(Contents, arg[p])
  <2>1. count' = count + 1
    BY DEF Insert
  <2>2. Contents' = [i \in 1..count+1 |-> heap'[elements'[Slot(i - 1)]]]
    BY <2>1 DEF Contents, Slot, Insert
  <2>3. Append(Contents, arg[p]) =
           [i \in 1..count+1 |-> IF i = count + 1 THEN arg[p] ELSE Contents[i]]
    BY Mapped
  <2>4. ASSUME NEW i \in 1..count+1
        PROVE  heap'[elements'[Slot(i - 1)]] =
                  IF i = count + 1 THEN arg[p] ELSE Contents[i]
    <3>1. CASE i = count + 1
      <4>1. i - 1 = count
        BY <1>4, <3>1
      <4>. QED
        BY <1>6, <3>1, <4>1
    <3>2. CASE i # count + 1
      <4>1. i \in 1..count /\ i - 1 \in 0..count-1
        BY <1>4, <3>2
      <4>. QED
        BY <1>5, <3>2, <4>1 DEF Contents
    <3>. QED
      BY <3>1, <3>2
  <2>. QED
    BY <2>2, <2>3, <2>4
<1>8. Delivered' = Delivered
  <2>1. got' = got
    BY DEF Insert
  <2>2. \A c \in Consumers : got[c] # NULL => heap'[got[c]] = heap[got[c]]
    BY <1>1, <1>2 DEF IInv, TypeOK
  <2>. QED
    BY <2>1, <2>2 DEF Delivered
<1>9. Len(Contents) < QUEUE_SIZE
  BY <1>4, Mapped
<1>10. arg' = [arg EXCEPT ![p] = NULL]
  BY DEF Insert
<1>. QED
  BY <1>3, <1>7, <1>8, <1>9, <1>10 DEF FIFO!Put

LEMMA RemoveIsGet ==
    ASSUME IInv, IInv', NEW c \in Consumers, pc[c] \in {"entering", "woken"},
           count # 0, Remove(c)
    PROVE  FIFO!Get(c)
<1>1. /\ got' = [got EXCEPT ![c] = elements[head]]
      /\ head' = Next1(head) /\ count' = count - 1
      /\ UNCHANGED <<elements, heap, arg>>
  BY DEF Remove
<1>2. count \in 1..QUEUE_SIZE /\ count \in Nat /\ head = Slot(0)
  BY Mapped, SlotFacts DEF IInv
<1>3. elements[head] # NULL
  BY <1>2, Mapped, QueueAssumption
<1>4. got[c] = NULL
  BY DEF IInv, CallsShape
<1>5. Delivered[c] = NULL
  BY <1>4, Mapped
<1>6. Contents # <<>> /\ Head(Contents) = heap[elements[head]]
  <2>1. Contents \in Seq(Values) /\ Len(Contents) = count
    BY Mapped
  <2>2. Contents # <<>> /\ Head(Contents) = Contents[1]
    BY <1>2, <2>1
  <2>3. Contents[1] = heap[elements[Slot(1 - 1)]]
    BY <1>2 DEF Contents
  <2>. QED
    BY <1>2, <2>2, <2>3
<1>7. Delivered' = [Delivered EXCEPT ![c] = Head(Contents)]
  <2>1. Delivered' = [d \in Consumers |-> IF got'[d] = NULL THEN NULL ELSE heap[got'[d]]]
    BY <1>1 DEF Delivered
  <2>2. got'[c] = elements[head] /\ \A d \in Consumers \ {c} : got'[d] = got[d]
    BY <1>1 DEF IInv, TypeOK
  <2>. QED
    BY <1>3, <1>6, <2>1, <2>2 DEF Delivered
<1>8. Contents' = Tail(Contents)
  <2>1. Contents' = [i \in 1..count-1 |-> heap[elements[(Next1(head) + (i - 1)) % QUEUE_SIZE]]]
    BY <1>1 DEF Contents, Slot
  <2>2. Tail(Contents) = [i \in 1..count-1 |-> Contents[i + 1]]
    <3>1. Contents \in Seq(Values) /\ Len(Contents) = count
      BY Mapped
    <3>2. /\ Tail(Contents) \in [1..count-1 -> Values]
          /\ \A i \in 1..count-1 : Tail(Contents)[i] = Contents[i + 1]
      BY <1>2, <1>6, <3>1, HeadTailProperties, LenProperties
    <3>. QED
      BY <3>2
  <2>3. ASSUME NEW i \in 1..count-1
        PROVE  heap[elements[(Next1(head) + (i - 1)) % QUEUE_SIZE]] = Contents[i + 1]
    <3>1. i - 1 \in 0..QUEUE_SIZE-1 /\ (i - 1) + 1 = (i + 1) - 1 /\ i + 1 \in 1..count
      BY <1>2, Mapped
    <3>2. (Next1(head) + (i - 1)) % QUEUE_SIZE = Slot((i + 1) - 1)
      BY <3>1, SlotFacts DEF IInv
    <3>. QED
      BY <3>1, <3>2 DEF Contents
  <2>. QED
    BY <2>1, <2>2, <2>3
<1>. QED
  BY <1>1, <1>5, <1>6, <1>7, <1>8 DEF FIFO!Get

LEMMA DropIsDone ==
    ASSUME IInv, NEW c \in Consumers, Drop(c)
    PROVE  FIFO!Done(c)
<1>1. Contents' = Contents
  BY DEF Drop, Contents, Slot
<1>2. Delivered[c] # NULL
  BY Mapped DEF Drop
<1>3. Delivered' = [Delivered EXCEPT ![c] = NULL]
  BY DEF Drop, Delivered, IInv, TypeOK
<1>. QED
  BY <1>1, <1>2, <1>3 DEF Drop, FIFO!Done

LEMMA MappedInit == Init => FIFO!Init
<1>. SUFFICES ASSUME Init PROVE FIFO!Init
  OBVIOUS
<1>1. Contents = <<>>
  BY DEF Init, Contents
<1>2. Delivered = [c \in Consumers |-> NULL]
  BY DEF Init, Delivered
<1>. QED
  BY <1>1, <1>2 DEF Init, FIFO!Init

LEMMA MappedNext ==
    ASSUME IInv, IInv', [Next]_vars
    PROVE  [FIFO!Next]_(FIFO!vars)
<1>1. ASSUME UNCHANGED <<elements, head, count, heap, got, arg>>
      PROVE  UNCHANGED FIFO!vars
  BY <1>1 DEF FIFO!vars, Contents, Delivered, Slot
<1>2. ASSUME NEW p \in Producers, NEW v \in Values, EnqueueCall(p, v)
      PROVE  FIFO!Ask(p, v)
  <2>1. Contents' = Contents /\ Delivered' = Delivered
    BY <1>2 DEF EnqueueCall, Contents, Delivered, Slot
  <2>2. arg[p] = NULL
    BY <1>2 DEF EnqueueCall, IInv, CallsShape
  <2>. QED
    BY <1>2, <2>1, <2>2 DEF EnqueueCall, FIFO!Ask
<1>3. CASE UNCHANGED vars
  BY <1>1, <1>3 DEF vars
<1>4. CASE Next
  <2>1. \/ \E p \in Producers, v \in Values : EnqueueCall(p, v)
        \/ \E p \in Producers : pc[p] \in {"entering", "woken"} /\ count # QUEUE_SIZE /\ Insert(p)
        \/ \E c \in Consumers : pc[c] \in {"entering", "woken"} /\ count # 0 /\ Remove(c)
        \/ \E c \in Consumers : Drop(c)
        \/ UNCHANGED <<elements, head, count, heap, got, arg>>
    BY <1>4 DEF Next, Enqueue, Dequeue, DequeueCall, Sleep, SpuriousWakeup
  <2>. QED
    BY <1>1, <1>2, <2>1, InsertIsPut, RemoveIsGet, DropIsDone DEF FIFO!Next
<1>. QED
  BY <1>3, <1>4

\* First in first out, at most QUEUE_SIZE queued, and what a consumer works
\* on is exactly what was passed to enqueue, for any number of threads and
\* any queue size: queue.c keeps the safety half of BoundedFIFO.
THEOREM Implements == SafeSpec => FIFO!SafeSpec
<1>1. Init => FIFO!Init
  BY MappedInit
<1>2. IInv /\ IInv' /\ [Next]_vars => [FIFO!Next]_(FIFO!vars)
  BY MappedNext
<1>. QED
  BY <1>1, <1>2, Inductive, PTL DEF SafeSpec, FIFO!SafeSpec
=============================================================================
