------------------------------ MODULE Q2Proofs -------------------------------
(***************************************************************************)
(* Proofs about Q2, for every number of requests and queue size: the ring  *)
(* without a size is a bounded FIFO of one less than MAX_QUEUE_SIZE.       *)
(***************************************************************************)
EXTENDS Q2, TLAPS, SequenceTheorems

Values == Texts \cup {BAD}
Slot(i) == (front + i) % MAX_QUEUE_SIZE

\* What the two indices say the number of strings queued is.
Size == (rear - front) % MAX_QUEUE_SIZE

Types ==
    /\ received \in 0..MaxReq /\ want \in Texts \cup {NULL}
    /\ data \in [Slots -> Values \cup {NULL}]
    /\ front \in Slots /\ rear \in Slots
    /\ str \in [Pushers -> Values \cup {NULL}]
    /\ got \in [{0} -> Values \cup {NULL}]
    /\ pc \in [Threads -> PCs]

\* A thread has its string exactly while it is in enqueue, and the one to be
\* started next is new.
Calls ==
    /\ \A n \in Pushers : str[n] = NULL <=> pc[n] \in {"none", "out"}
    /\ \A n \in Pushers : n > received => pc[n] = "none"
    /\ want # NULL => received \in Pushers /\ pc[received] = "none"
    /\ got[0] # NULL => pc[0] = "out"

InUse == \A i \in 0..Size-1 : data[Slot(i)] \in Values

IInv == Types /\ Calls /\ InUse

-----------------------------------------------------------------------------
(* Two indices modulo MAX_QUEUE_SIZE.                                      *)

LEMMA ModRing ==
    ASSUME NEW i \in Nat, NEW j \in Nat, i < MAX_QUEUE_SIZE, j <= MAX_QUEUE_SIZE
    PROVE  (i + j) % MAX_QUEUE_SIZE =
              IF i + j < MAX_QUEUE_SIZE THEN i + j ELSE i + j - MAX_QUEUE_SIZE
<1>. MAX_QUEUE_SIZE \in Nat \ {0}
  BY Q2Assumption
<1>. QED
  OBVIOUS

LEMMA ModDistance ==
    ASSUME NEW i \in Slots, NEW j \in Slots
    PROVE  (i - j) % MAX_QUEUE_SIZE = IF j <= i THEN i - j ELSE i - j + MAX_QUEUE_SIZE
<1>. MAX_QUEUE_SIZE \in Nat \ {0} /\ i \in 0..MAX_QUEUE_SIZE-1 /\ j \in 0..MAX_QUEUE_SIZE-1
  BY Q2Assumption DEF Slots
<1>. QED
  OBVIOUS

\* Slots without %, and what the indices say of each other.
LEMMA SlotFacts ==
    ASSUME Types
    PROVE  /\ MAX_QUEUE_SIZE \in Nat \ {0} /\ Size \in 0..MAX_QUEUE_SIZE-1
           /\ front \in 0..MAX_QUEUE_SIZE-1
           /\ \A i \in 0..MAX_QUEUE_SIZE :
                 Slot(i) = IF front + i < MAX_QUEUE_SIZE THEN front + i
                                                        ELSE front + i - MAX_QUEUE_SIZE
           /\ \A i \in 0..MAX_QUEUE_SIZE : Slot(i) \in Slots
           /\ rear = Slot(Size)
           /\ Size = 0 <=> is_queue_empty
           /\ Size = MAX_QUEUE_SIZE - 1 <=> is_queue_full
<1>1. /\ MAX_QUEUE_SIZE \in Nat \ {0} /\ MAX_QUEUE_SIZE >= 2
      /\ front \in 0..MAX_QUEUE_SIZE-1 /\ rear \in 0..MAX_QUEUE_SIZE-1
  BY Q2Assumption DEF Types, Slots
<1>2. Size = IF front <= rear THEN rear - front ELSE rear - front + MAX_QUEUE_SIZE
  BY ModDistance DEF Types, Size
<1>3. Size \in 0..MAX_QUEUE_SIZE-1
  BY <1>1, <1>2
<1>4. \A i \in 0..MAX_QUEUE_SIZE :
         Slot(i) = IF front + i < MAX_QUEUE_SIZE THEN front + i
                                                 ELSE front + i - MAX_QUEUE_SIZE
  <2>. TAKE i \in 0..MAX_QUEUE_SIZE
  <2>1. front \in Nat /\ front < MAX_QUEUE_SIZE /\ i \in Nat /\ i <= MAX_QUEUE_SIZE
    BY <1>1
  <2>. QED
    BY <2>1, ModRing DEF Slot
<1>5. \A i \in 0..MAX_QUEUE_SIZE : Slot(i) \in Slots
  BY <1>1, <1>4 DEF Slots
<1>6. rear = Slot(Size)
  <2>1. Size \in 0..MAX_QUEUE_SIZE
    BY <1>1, <1>3
  <2>2. Slot(Size) = IF front + Size < MAX_QUEUE_SIZE THEN front + Size
                                                      ELSE front + Size - MAX_QUEUE_SIZE
    BY <1>4, <2>1
  <2>. QED
    BY <1>1, <1>2, <2>2
<1>7. Size = 0 <=> is_queue_empty
  BY <1>1, <1>2 DEF is_queue_empty
<1>8. (rear + 1) % MAX_QUEUE_SIZE = IF rear + 1 < MAX_QUEUE_SIZE THEN rear + 1 ELSE 0
  <2>1. rear \in Nat /\ rear < MAX_QUEUE_SIZE /\ 1 \in Nat /\ 1 <= MAX_QUEUE_SIZE
    BY <1>1
  <2>2. (rear + 1) % MAX_QUEUE_SIZE =
           IF rear + 1 < MAX_QUEUE_SIZE THEN rear + 1 ELSE rear + 1 - MAX_QUEUE_SIZE
    BY <2>1, ModRing
  <2>. QED
    BY <1>1, <2>2
<1>9. Size = MAX_QUEUE_SIZE - 1 <=> is_queue_full
  BY <1>1, <1>2, <1>8 DEF is_queue_full
<1>. QED
  BY <1>1, <1>3, <1>4, <1>5, <1>6, <1>7, <1>9

\* A string more at the rear.
LEMMA RearMoves ==
    ASSUME Types, ~is_queue_full, front' = front,
           rear' = (rear + 1) % MAX_QUEUE_SIZE
    PROVE  rear' \in Slots /\ Size' = Size + 1 /\ Size \in 0..MAX_QUEUE_SIZE-2
<1>1. /\ MAX_QUEUE_SIZE \in Nat \ {0} /\ MAX_QUEUE_SIZE >= 2
      /\ front \in 0..MAX_QUEUE_SIZE-1 /\ rear \in 0..MAX_QUEUE_SIZE-1
  BY Q2Assumption DEF Types, Slots
<1>2. rear' = IF rear + 1 < MAX_QUEUE_SIZE THEN rear + 1 ELSE 0
  <2>1. rear \in Nat /\ rear < MAX_QUEUE_SIZE /\ 1 \in Nat /\ 1 <= MAX_QUEUE_SIZE
    BY <1>1
  <2>2. (rear + 1) % MAX_QUEUE_SIZE =
           IF rear + 1 < MAX_QUEUE_SIZE THEN rear + 1 ELSE rear + 1 - MAX_QUEUE_SIZE
    BY <2>1, ModRing
  <2>. QED
    BY <1>1, <2>2
<1>3. rear' # front
  BY DEF is_queue_full
<1>4. rear' \in Slots /\ rear \in Slots /\ front \in Slots
  BY <1>1, <1>2 DEF Slots
<1>5. /\ Size = (IF front <= rear THEN rear - front ELSE rear - front + MAX_QUEUE_SIZE)
      /\ Size' = (IF front <= rear' THEN rear' - front ELSE rear' - front + MAX_QUEUE_SIZE)
  BY <1>4, ModDistance DEF Size
<1>6. Size' = Size + 1
  BY <1>1, <1>2, <1>3, <1>5
<1>7. Size \in 0..MAX_QUEUE_SIZE-2
  BY <1>1, SlotFacts
<1>. QED
  BY <1>4, <1>6, <1>7

\* A string less at the front.
LEMMA FrontMoves ==
    ASSUME Types, ~is_queue_empty, rear' = rear,
           front' = (front + 1) % MAX_QUEUE_SIZE
    PROVE  /\ front' \in Slots /\ Size' = Size - 1 /\ Size \in 1..MAX_QUEUE_SIZE-1
           /\ \A i \in 0..MAX_QUEUE_SIZE-1 : (front' + i) % MAX_QUEUE_SIZE = Slot(i + 1)
<1>1. /\ MAX_QUEUE_SIZE \in Nat \ {0} /\ MAX_QUEUE_SIZE >= 2
      /\ front \in 0..MAX_QUEUE_SIZE-1 /\ rear \in 0..MAX_QUEUE_SIZE-1
  BY Q2Assumption DEF Types, Slots
<1>2. front' = IF front + 1 < MAX_QUEUE_SIZE THEN front + 1 ELSE 0
  <2>1. front \in Nat /\ front < MAX_QUEUE_SIZE /\ 1 \in Nat /\ 1 <= MAX_QUEUE_SIZE
    BY <1>1
  <2>2. (front + 1) % MAX_QUEUE_SIZE =
           IF front + 1 < MAX_QUEUE_SIZE THEN front + 1 ELSE front + 1 - MAX_QUEUE_SIZE
    BY <2>1, ModRing
  <2>. QED
    BY <1>1, <2>2
<1>3. rear # front
  BY DEF is_queue_empty
<1>4. front' \in Slots /\ rear \in Slots /\ front \in Slots
  BY <1>1, <1>2 DEF Slots
<1>5. /\ Size = (IF front <= rear THEN rear - front ELSE rear - front + MAX_QUEUE_SIZE)
      /\ Size' = (IF front' <= rear THEN rear - front' ELSE rear - front' + MAX_QUEUE_SIZE)
  BY <1>4, ModDistance DEF Size
<1>6. Size' = Size - 1
  BY <1>1, <1>2, <1>3, <1>5
<1>7. Size \in 1..MAX_QUEUE_SIZE-1
  BY <1>1, SlotFacts
<1>8. ASSUME NEW i \in 0..MAX_QUEUE_SIZE-1
      PROVE  (front' + i) % MAX_QUEUE_SIZE = Slot(i + 1)
  <2>1. front' \in Nat /\ front' < MAX_QUEUE_SIZE /\ i \in Nat /\ i <= MAX_QUEUE_SIZE
    BY <1>1, <1>2
  <2>2. (front' + i) % MAX_QUEUE_SIZE =
           IF front' + i < MAX_QUEUE_SIZE THEN front' + i ELSE front' + i - MAX_QUEUE_SIZE
    BY <2>1, ModRing
  <2>3. Slot(i + 1) = IF front + i + 1 < MAX_QUEUE_SIZE
                      THEN front + i + 1 ELSE front + i + 1 - MAX_QUEUE_SIZE
    BY <1>1, SlotFacts
  <2>. QED
    BY <1>1, <1>2, <2>2, <2>3
<1>. QED
  BY <1>4, <1>6, <1>7, <1>8

-----------------------------------------------------------------------------
(* IInv is inductive.                                                      *)

LEMMA SignalEffect ==
    ASSUME Types, NEW t \in Threads, NEW S \in SUBSET Threads, t \notin S,
           ReturnAndSignal(t, S)
    PROVE  /\ pc' \in [Threads -> PCs]
           /\ pc'[t] = "out"
           /\ \A u \in Threads \ {t} :
                 pc'[u] = pc[u] \/ (pc[u] = "waiting" /\ pc'[u] = "woken")
<1>. pc \in [Threads -> PCs]
  BY DEF Types
<1>1. CASE pc' = [pc EXCEPT ![t] = "out"]
  BY <1>1 DEF PCs
<1>2. ASSUME NEW w \in Waiting(S), pc' = [pc EXCEPT ![t] = "out", ![w] = "woken"]
      PROVE  /\ pc' \in [Threads -> PCs]
             /\ pc'[t] = "out"
             /\ \A u \in Threads \ {t} :
                   pc'[u] = pc[u] \/ (pc[u] = "waiting" /\ pc'[u] = "woken")
  <2>1. w \in Threads /\ w # t /\ pc[w] = "waiting"
    BY DEF Waiting
  <2>. QED
    BY <1>2, <2>1 DEF PCs
<1>. QED
  BY <1>1, <1>2 DEF ReturnAndSignal

LEMMA ThreadFacts ==
    /\ MaxReq \in Nat /\ Pushers \in SUBSET Threads /\ 0 \in Threads /\ 0 \notin Pushers
    /\ Threads = {0} \cup Pushers /\ Pushers \subseteq Nat
    /\ NULL \notin Values /\ NULL \notin Texts /\ Texts \subseteq Values
  BY Q2Assumption DEF Pushers, Threads, Values

LEMMA InvInit == Init => IInv
<1>. SUFFICES ASSUME Init PROVE IInv
  OBVIOUS
<1>1. Types
  BY Q2Assumption, ThreadFacts DEF Init, init_queue, Types, Slots, PCs
<1>2. Calls
  BY ThreadFacts DEF Init, Calls
<1>3. Size = 0
  BY <1>1, SlotFacts DEF Init, init_queue, is_queue_empty
<1>. QED
  BY <1>1, <1>2, <1>3 DEF IInv, InUse

LEMMA InUseUnchanged ==
    ASSUME InUse, UNCHANGED ring
    PROVE  InUse'
  BY DEF InUse, ring, Slot, Size

\* The string goes to the slot behind those in use and to no other.
LEMMA StoreFills ==
    ASSUME IInv, NEW n \in Pushers, pc[n] \in {"entering", "woken"},
           ~is_queue_full, Store(n)
    PROVE  /\ Size \in 0..MAX_QUEUE_SIZE-2 /\ Size' = Size + 1 /\ str[n] \in Values
           /\ data' \in [Slots -> Values \cup {NULL}] /\ rear' \in Slots
           /\ data'[Slot(Size)] = str[n]
           /\ \A i \in 0..Size-1 : data'[Slot(i)] = data[Slot(i)]
<1>1. Size \in 0..MAX_QUEUE_SIZE-2 /\ Size' = Size + 1 /\ rear' \in Slots
  BY RearMoves DEF IInv, Store
<1>2. str[n] \in Values
  BY DEF IInv, Types, Calls
<1>3. rear = Slot(Size) /\ rear \in Slots /\ data' = [data EXCEPT ![rear] = str[n]]
  BY SlotFacts DEF IInv, Types, Store
<1>4. ASSUME NEW i \in 0..Size-1
      PROVE  Slot(i) # Slot(Size) /\ Slot(i) \in Slots
  <2>1. i \in 0..MAX_QUEUE_SIZE /\ Size \in 0..MAX_QUEUE_SIZE /\ i < Size
    BY <1>1, Q2Assumption
  <2>. QED
    BY <1>1, <2>1, SlotFacts DEF IInv
<1>5. data' \in [Slots -> Values \cup {NULL}]
  BY <1>2, <1>3 DEF IInv, Types
<1>. QED
  BY <1>1, <1>2, <1>3, <1>4, <1>5 DEF IInv, Types

LEMMA StoreInv ==
    ASSUME IInv, NEW n \in Pushers, pc[n] \in {"entering", "woken"},
           ~is_queue_full, Store(n)
    PROVE  IInv'
<1>. Types /\ Calls
  BY DEF IInv
<1>1. /\ pc' \in [Threads -> PCs] /\ pc'[n] = "out"
      /\ \A u \in Threads \ {n} :
            pc'[u] = pc[u] \/ (pc[u] = "waiting" /\ pc'[u] = "woken")
  BY SignalEffect, ThreadFacts DEF Store
<1>2. UNCHANGED <<received, want, front, got>> /\ str' = [str EXCEPT ![n] = NULL]
  BY DEF Store, main
<1>3. Types'
  BY <1>1, <1>2, StoreFills DEF Types
<1>4. Calls'
  <2>1. pc[n] \notin {"none", "waiting", "out"} /\ n \in Threads /\ n # 0
    BY ThreadFacts
  <2>2. \A m \in Pushers : str'[m] = NULL <=> pc'[m] \in {"none", "out"}
    BY <1>1, <1>2, ThreadFacts DEF Types, Calls
  <2>3. \A m \in Pushers : pc[m] = "none" => pc'[m] = "none"
    BY <1>1, <2>1, ThreadFacts
  <2>4. pc[0] = "out" => pc'[0] = "out"
    BY <1>1, <2>1, ThreadFacts
  <2>. QED
    BY <1>2, <2>2, <2>3, <2>4 DEF Calls
<1>5. InUse'
  <2>1. \A i \in 0..Size : data'[Slot(i)] \in Values
    <3>1. \A i \in 0..Size : i = Size \/ i \in 0..Size-1
      BY StoreFills
    <3>. QED
      BY <3>1, StoreFills DEF IInv, InUse
  <2>2. 0..Size'-1 = 0..Size
    BY StoreFills
  <2>. QED
    BY <1>2, <2>1, <2>2 DEF InUse, Slot
<1>. QED
  BY <1>3, <1>4, <1>5 DEF IInv

LEMMA LoadInv ==
    ASSUME IInv, pc[0] \in {"entering", "woken"}, ~is_queue_empty, Load
    PROVE  IInv'
<1>. Types /\ Calls
  BY DEF IInv
<1>1. /\ pc' \in [Threads -> PCs] /\ pc'[0] = "out"
      /\ \A u \in Threads \ {0} :
            pc'[u] = pc[u] \/ (pc[u] = "waiting" /\ pc'[u] = "woken")
  BY SignalEffect, ThreadFacts DEF Load
<1>2. UNCHANGED <<received, want, data, rear, str>>
  BY DEF Load, main
<1>3. /\ front' \in Slots /\ Size' = Size - 1 /\ Size \in 1..MAX_QUEUE_SIZE-1
      /\ \A i \in 0..MAX_QUEUE_SIZE-1 : (front' + i) % MAX_QUEUE_SIZE = Slot(i + 1)
  BY FrontMoves DEF Load
<1>4. Types'
  <2>1. got' \in [{0} -> Values \cup {NULL}]
    BY DEF Load, Types
  <2>. QED
    BY <1>1, <1>2, <1>3, <2>1 DEF Types
<1>5. Calls'
  BY <1>1, <1>2, ThreadFacts DEF Calls
<1>6. InUse'
  <2>. SUFFICES ASSUME NEW i \in 0..Size'-1
                PROVE  data'[(front' + i) % MAX_QUEUE_SIZE] \in Values
    BY DEF InUse, Slot
  <2>1. i + 1 \in 0..Size-1 /\ i \in 0..MAX_QUEUE_SIZE-1
    BY <1>3, Q2Assumption
  <2>. QED
    BY <1>2, <1>3, <2>1 DEF IInv, InUse
<1>. QED
  BY <1>4, <1>5, <1>6 DEF IInv

LEMMA InvNext ==
    ASSUME IInv, [Next]_vars
    PROVE  IInv'
<1>. Types /\ Calls /\ InUse
  BY DEF IInv
<1>1. ASSUME NEW t \in Texts, Request(t)
      PROVE  IInv'
  <2>1. received \in Nat /\ received + 1 \in 0..MaxReq /\ received + 1 \in Pushers
    BY <1>1, ThreadFacts DEF Types, Request, Pushers
  <2>2. Types'
    BY <1>1, <2>1 DEF Request, Types, ring
  <2>3. Calls'
    BY <1>1, <2>1, ThreadFacts DEF Request, Calls
  <2>. QED
    BY <1>1, <2>2, <2>3, InUseUnchanged DEF Request, IInv
<1>2. ASSUME NEW s \in Values, StartEnqueue(s)
      PROVE  IInv'
  <2>1. received \in Pushers /\ received \in Threads /\ received # 0
    BY <1>2, ThreadFacts DEF StartEnqueue, Calls
  <2>2. Types'
    BY <1>2, <2>1 DEF StartEnqueue, Types, ring, PCs
  <2>3. Calls'
    BY <1>2, <2>1, ThreadFacts DEF StartEnqueue, Calls, Types
  <2>. QED
    BY <1>2, <2>2, <2>3, InUseUnchanged DEF StartEnqueue, IInv
<1>3. CASE StartFails
  BY <1>3, InUseUnchanged DEF StartFails, IInv, Types, Calls, ring
<1>4. ASSUME NEW t \in Threads, NEW where \in {"entering", "waiting", "woken"},
             pc' = [pc EXCEPT ![t] = where],
             pc[t] \in {"entering", "waiting", "woken"} \/ (t = 0 /\ got[0] = NULL),
             UNCHANGED <<main, ring, str, got>>
      PROVE  IInv'
  <2>1. Types'
    BY <1>4 DEF main, ring, Types, PCs
  <2>2. Calls'
    BY <1>4, ThreadFacts DEF main, Calls, Types
  <2>. QED
    BY <1>4, <2>1, <2>2, InUseUnchanged DEF IInv
<1>5. ASSUME NEW n \in Pushers, enqueue(n)
      PROVE  IInv'
  <2>1. CASE Sleep(n)
    BY <1>4, <1>5, <2>1, ThreadFacts DEF enqueue, Sleep
  <2>2. CASE ~is_queue_full /\ Store(n)
    BY <1>5, <2>2, StoreInv DEF enqueue
  <2>3. CASE UNCHANGED <<main, ring, str, got, pc, list>>
    BY <2>3, InUseUnchanged DEF IInv, Types, Calls, main, ring
  <2>. QED
    BY <1>5, <2>1, <2>2, <2>3 DEF enqueue
<1>6. CASE dequeueCall
  BY <1>4, <1>6, ThreadFacts DEF dequeueCall
<1>7. CASE dequeue
  <2>1. CASE Sleep(0)
    BY <1>4, <1>7, <2>1, ThreadFacts DEF dequeue, Sleep
  <2>. QED
    BY <1>7, <2>1, LoadInv DEF dequeue
<1>8. CASE Exchange
  <2>1. got' = [got EXCEPT ![0] = NULL] /\ UNCHANGED <<main, ring, str, pc>>
    BY <1>8 DEF Exchange
  <2>. QED
    BY <2>1, InUseUnchanged DEF IInv, Types, Calls, main, ring
<1>9. ASSUME NEW t \in Threads, SpuriousWakeup(t)
      PROVE  IInv'
  BY <1>4, <1>9 DEF SpuriousWakeup
<1>10. CASE UNCHANGED vars
  BY <1>10, InUseUnchanged DEF vars, IInv, Types, Calls, ring
<1>. QED
  BY <1>1, <1>2, <1>3, <1>5, <1>6, <1>7, <1>8, <1>9, <1>10 DEF Next, Values

LEMMA Inductive == Spec => []IInv
  BY InvInit, InvNext, PTL DEF Spec

-----------------------------------------------------------------------------
(* What the two operations do to the strings queued.                       *)

LEMMA ContentsSeq ==
    ASSUME IInv
    PROVE  /\ Contents \in Seq(Values) /\ Len(Contents) = Size /\ Size \in Nat
           /\ \A i \in 1..Size : Contents[i] = data[Slot(i - 1)]
<1>1. Size \in Nat
  BY SlotFacts DEF IInv
<1>2. \A i \in 1..Size : i - 1 \in 0..Size-1
  BY <1>1
<1>3. Contents = [i \in 1..Size |-> data[Slot(i - 1)]]
  BY DEF Contents, Slot, Size
<1>4. Contents \in [1..Size -> Values]
  BY <1>2, <1>3 DEF IInv, InUse
<1>. QED
  BY <1>1, <1>3, <1>4

LEMMA StoreAppends ==
    ASSUME IInv, NEW n \in Pushers, pc[n] \in {"entering", "woken"},
           ~is_queue_full, Store(n)
    PROVE  Contents' = Append(Contents, str[n])
<1>1. Contents' = [i \in 1..Size+1 |-> data'[Slot(i - 1)]]
  <2>1. Contents' = [i \in 1..Size' |-> data'[(front' + (i - 1)) % MAX_QUEUE_SIZE]]
    BY DEF Contents, Size
  <2>2. front' = front /\ Size' = Size + 1
    BY StoreFills DEF Store
  <2>3. Contents' = [i \in 1..Size+1 |-> data'[(front + (i - 1)) % MAX_QUEUE_SIZE]]
    BY <2>1, <2>2
  <2>. QED
    BY <2>3 DEF Slot
<1>2. Append(Contents, str[n]) =
         [i \in 1..Size+1 |-> IF i = Size + 1 THEN str[n] ELSE Contents[i]]
  BY ContentsSeq
<1>3. ASSUME NEW i \in 1..Size+1
      PROVE  data'[Slot(i - 1)] = IF i = Size + 1 THEN str[n] ELSE Contents[i]
  <2>0. Size \in Nat
    BY ContentsSeq
  <2>1. CASE i = Size + 1
    <3>1. i - 1 = Size
      BY <2>0, <2>1
    <3>. QED
      BY <2>1, <3>1, StoreFills
  <2>2. CASE i # Size + 1
    <3>1. i \in 1..Size /\ i - 1 \in 0..Size-1
      BY <2>0, <2>2
    <3>. QED
      BY <2>2, <3>1, StoreFills, ContentsSeq
  <2>. QED
    BY <2>1, <2>2
<1>. QED
  BY <1>1, <1>2, <1>3

LEMMA LoadTakes ==
    ASSUME IInv, ~is_queue_empty, Load
    PROVE  /\ Contents # <<>> /\ data[front] = Head(Contents)
           /\ Contents' = Tail(Contents)
<1>1. /\ Size \in 1..MAX_QUEUE_SIZE-1 /\ MAX_QUEUE_SIZE \in Nat \ {0} /\ Size' = Size - 1
      /\ \A i \in 0..MAX_QUEUE_SIZE-1 : (front' + i) % MAX_QUEUE_SIZE = Slot(i + 1)
  BY FrontMoves, SlotFacts DEF IInv, Load
<1>2. Contents # <<>> /\ Head(Contents) = Contents[1]
  BY <1>1, ContentsSeq
<1>3. Contents[1] = data[front]
  <2>1. 1 \in 1..Size /\ 1 - 1 = 0 /\ 0 \in 0..MAX_QUEUE_SIZE
    BY <1>1
  <2>2. Slot(0) = front
    BY <2>1, SlotFacts DEF IInv
  <2>. QED
    BY <2>1, <2>2, ContentsSeq
<1>4. Contents' = [i \in 1..Size-1 |-> data[(front' + (i - 1)) % MAX_QUEUE_SIZE]]
  BY <1>1 DEF Contents, Size, Load
<1>5. Tail(Contents) = [i \in 1..Size-1 |-> Contents[i + 1]]
  <2>1. /\ Tail(Contents) \in [1..Size-1 -> Values]
        /\ \A i \in 1..Size-1 : Tail(Contents)[i] = Contents[i + 1]
    BY <1>1, <1>2, ContentsSeq, HeadTailProperties, LenProperties
  <2>. QED
    BY <2>1
<1>6. ASSUME NEW i \in 1..Size-1
      PROVE  data[(front' + (i - 1)) % MAX_QUEUE_SIZE] = Contents[i + 1]
  <2>1. i - 1 \in 0..MAX_QUEUE_SIZE-1 /\ (i - 1) + 1 = (i + 1) - 1 /\ i + 1 \in 1..Size
    BY <1>1
  <2>2. (front' + (i - 1)) % MAX_QUEUE_SIZE = Slot((i + 1) - 1)
    BY <1>1, <2>1
  <2>. QED
    BY <2>1, <2>2, ContentsSeq
<1>. QED
  BY <1>2, <1>3, <1>4, <1>5, <1>6

LEMMA ContentsUnchanged ==
    ASSUME UNCHANGED ring
    PROVE  Contents' = Contents
  BY DEF ring, Contents

-----------------------------------------------------------------------------
(* The result.                                                             *)

\* The ring without a size is a first-in, first-out queue of one less than
\* MAX_QUEUE_SIZE, for any number of threads and any size: Store is Put, Load
\* is Get, Exchange is Done, StartEnqueue is Ask and the rest stutters, the
\* crash included.
THEOREM Implements == Spec => ImplementsFIFO
<1>1. ASSUME Init
      PROVE  FIFO!Init
  <2>1. Size = 0
    BY <1>1, InvInit, SlotFacts DEF IInv, Init, init_queue, is_queue_empty
  <2>2. Contents = <<>>
    BY <2>1 DEF Contents, Size
  <2>. QED
    BY <1>1, <2>2 DEF Init, FIFO!Init
<1>2. ASSUME IInv, [Next]_vars
      PROVE  [FIFO!Next]_(FIFO!vars)
  <2>. Types /\ Calls
    BY <1>2 DEF IInv
  <2>1. ASSUME NEW s \in Values, StartEnqueue(s)
        PROVE  received \in Pushers /\ FIFO!Ask(received, s)
    BY <2>1, ContentsUnchanged DEF StartEnqueue, Calls, FIFO!Ask
  <2>2. ASSUME NEW n \in Pushers, pc[n] \in {"entering", "woken"},
               ~is_queue_full, Store(n)
        PROVE  FIFO!Put(n)
    <3>1. str[n] # NULL /\ UNCHANGED got /\ str' = [str EXCEPT ![n] = NULL]
      BY <2>2 DEF Calls, Store
    <3>2. Len(Contents) < MAX_QUEUE_SIZE - 1
      <4>1. Size \in 0..MAX_QUEUE_SIZE-2 /\ MAX_QUEUE_SIZE \in Nat
        BY <1>2, <2>2, StoreFills, Q2Assumption
      <4>2. Len(Contents) = Size
        BY <1>2, ContentsSeq
      <4>. QED
        BY <4>1, <4>2
    <3>. QED
      BY <1>2, <2>2, <3>1, <3>2, StoreAppends DEF FIFO!Put
  <2>3. ASSUME pc[0] \in {"entering", "woken"}, ~is_queue_empty, Load
        PROVE  FIFO!Get(0)
    <3>1. got[0] = NULL /\ UNCHANGED str /\ got' = [got EXCEPT ![0] = data[front]]
      BY <2>3 DEF Calls, Load
    <3>. QED
      BY <1>2, <2>3, <3>1, LoadTakes DEF FIFO!Get
  <2>4. ASSUME Exchange
        PROVE  FIFO!Done(0)
    BY <2>4, ContentsUnchanged DEF Exchange, FIFO!Done
  <2>5. ASSUME UNCHANGED <<ring, str, got>>
        PROVE  UNCHANGED FIFO!vars
    BY <2>5, ContentsUnchanged DEF FIFO!vars
  <2>6. \/ \E s \in Values : StartEnqueue(s)
        \/ \E n \in Pushers : pc[n] \in {"entering", "woken"} /\ ~is_queue_full /\ Store(n)
        \/ pc[0] \in {"entering", "woken"} /\ ~is_queue_empty /\ Load
        \/ Exchange
        \/ UNCHANGED <<ring, str, got>>
    BY <1>2 DEF Next, vars, ring, Values, Request, StartFails, enqueue, dequeueCall,
                dequeue, Sleep, SpuriousWakeup
  <2>7. \A s \in Values : s \in Texts \cup {BAD}
    BY DEF Values
  <2>. QED
    BY <2>1, <2>2, <2>3, <2>4, <2>5, <2>6, <2>7 DEF FIFO!Next
<1>. QED
  BY <1>1, <1>2, Inductive, PTL DEF Spec, FIFO!SafeSpec, ImplementsFIFO
=============================================================================
