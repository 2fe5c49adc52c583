---------------------------- MODULE LkQueueProofs ----------------------------
(***************************************************************************)
(* Proofs about LkQueue, for every number of threads, deadlines and queue  *)
(* size: the ring is a bounded FIFO whose timed producers may give up, and *)
(* the result of a push tells what became of its string. Then, about       *)
(* UsServer, what it makes of that queue; only this last part uses the     *)
(* assumption of UsServer.                                                 *)
(***************************************************************************)
EXTENDS UsServer, TLAPS, SequenceTheorems

Next1(i) == (i + 1) % MAX_QUEUE_SIZE
Slot(i) == (front + i) % MAX_QUEUE_SIZE

\* A string is there to be copied exactly during a call, a popper has its
\* string only after one, and only a deadline makes a thread give up.
Calls ==
    /\ \A p \in Pushers : str[p] = NULL <=> pc[p] = "out"
    /\ \A p \in Pushers : pc[p] \in {"expired", "spent"} => p \in Timed
    /\ \A c \in Poppers : pc[c] \notin {"expired", "spent"} /\ (got[c] # NULL => pc[c] = "out")

\* The redundant indices agree, and the slots in use hold strings.
Ring ==
    /\ rear = Slot(size)
    /\ \A i \in 0..size-1 : data[Slot(i)] \in Strings

IInv == TypeOK /\ Calls /\ Ring

-----------------------------------------------------------------------------
(* Indices modulo MAX_QUEUE_SIZE.                                          *)

LEMMA ModRing ==
    ASSUME NEW i \in Nat, NEW j \in Nat, i < MAX_QUEUE_SIZE, j <= MAX_QUEUE_SIZE
    PROVE  (i + j) % MAX_QUEUE_SIZE =
              IF i + j < MAX_QUEUE_SIZE THEN i + j ELSE i + j - MAX_QUEUE_SIZE
<1>. MAX_QUEUE_SIZE \in Nat \ {0}
  BY LkQueueAssumption
<1>. QED
  OBVIOUS

\* The slots of a ring, counted from the front: they are distinct, and both
\* the slot after one and the ring without its first slot shift the count.
LEMMA SlotFacts ==
    ASSUME TypeOK
    PROVE  /\ \A i \in 0..MAX_QUEUE_SIZE : Slot(i) \in Slots
           /\ Slot(0) = front
           /\ \A i, j \in 0..MAX_QUEUE_SIZE-1 : Slot(i) = Slot(j) => i = j
           /\ \A i \in 0..MAX_QUEUE_SIZE-1 : Next1(Slot(i)) = Slot(i + 1)
           /\ \A i \in 0..MAX_QUEUE_SIZE-1 :
                 (Next1(front) + i) % MAX_QUEUE_SIZE = Slot(i + 1)
<1>. MAX_QUEUE_SIZE \in Nat \ {0} /\ front \in 0..MAX_QUEUE_SIZE-1
  BY LkQueueAssumption DEF TypeOK, Slots
<1>1. \A i \in 0..MAX_QUEUE_SIZE :
         Slot(i) = IF front + i < MAX_QUEUE_SIZE THEN front + i
                                                 ELSE front + i - MAX_QUEUE_SIZE
  <2>. TAKE i \in 0..MAX_QUEUE_SIZE
  <2>1. front \in Nat /\ front < MAX_QUEUE_SIZE /\ i \in Nat /\ i <= MAX_QUEUE_SIZE
    OBVIOUS
  <2>. QED
    BY <2>1, ModRing DEF Slot
<1>2. \A i \in Slots : Next1(i) = IF i + 1 < MAX_QUEUE_SIZE THEN i + 1 ELSE 0
  <2>. TAKE i \in Slots
  <2>1. i \in Nat /\ i < MAX_QUEUE_SIZE /\ 1 \in Nat /\ 1 <= MAX_QUEUE_SIZE
    BY DEF Slots
  <2>2. (i + 1) % MAX_QUEUE_SIZE =
           IF i + 1 < MAX_QUEUE_SIZE THEN i + 1 ELSE i + 1 - MAX_QUEUE_SIZE
    BY <2>1, ModRing
  <2>. QED
    BY <2>1, <2>2 DEF Next1
<1>3. \A i \in 0..MAX_QUEUE_SIZE : Slot(i) \in Slots
  BY <1>1 DEF Slots
<1>4. ASSUME NEW i \in 0..MAX_QUEUE_SIZE-1
      PROVE  Next1(Slot(i)) = Slot(i + 1)
  <2>1. Slot(i) = IF front + i < MAX_QUEUE_SIZE THEN front + i
                                                ELSE front + i - MAX_QUEUE_SIZE
    BY <1>1
  <2>2. Slot(i + 1) = IF front + i + 1 < MAX_QUEUE_SIZE
                      THEN front + i + 1 ELSE front + i + 1 - MAX_QUEUE_SIZE
    BY <1>1
  <2>3. Next1(Slot(i)) = IF Slot(i) + 1 < MAX_QUEUE_SIZE THEN Slot(i) + 1 ELSE 0
    BY <1>2, <1>3
  <2>. QED
    BY <2>1, <2>2, <2>3
<1>5. ASSUME NEW i \in 0..MAX_QUEUE_SIZE-1
      PROVE  (Next1(front) + i) % MAX_QUEUE_SIZE = Slot(i + 1)
  <2>1. Next1(front) = IF front + 1 < MAX_QUEUE_SIZE THEN front + 1 ELSE 0
    BY <1>2 DEF Slots
  <2>2. (Next1(front) + i) % MAX_QUEUE_SIZE =
           IF Next1(front) + i < MAX_QUEUE_SIZE
           THEN Next1(front) + i ELSE Next1(front) + i - MAX_QUEUE_SIZE
    <3>1. /\ Next1(front) \in Nat /\ Next1(front) < MAX_QUEUE_SIZE
          /\ i \in Nat /\ i <= MAX_QUEUE_SIZE
      BY <2>1
    <3>. QED
      BY <3>1, ModRing
  <2>3. Slot(i + 1) = IF front + i + 1 < MAX_QUEUE_SIZE
                      THEN front + i + 1 ELSE front + i + 1 - MAX_QUEUE_SIZE
    BY <1>1
  <2>. QED
    BY <2>1, <2>2, <2>3
<1>. QED
  BY <1>1, <1>3, <1>4, <1>5

-----------------------------------------------------------------------------
(* Signals and sleep.                                                      *)

\* A signal goes to at most one of the threads it is meant for: it wakes a
\* sleeper or is lost on one that timed out. The thread that gave it returns.
LEMMA SignalEffect ==
    ASSUME TypeOK, NEW t \in Threads, NEW S \in SUBSET Threads, t \notin S,
           ReturnAndSignal(t, S)
    PROVE  /\ pc' \in [Threads -> PCs]
           /\ pc'[t] = "out"
           /\ \A u \in Threads \ {t} :
                 \/ pc'[u] = pc[u]
                 \/ pc[u] = "waiting" /\ pc'[u] = "woken"
                 \/ pc[u] = "expired" /\ pc'[u] = "spent"
<1>. pc \in [Threads -> PCs]
  BY DEF TypeOK
<1>1. CASE pc' = [pc EXCEPT ![t] = "out"]
  BY <1>1 DEF PCs
<1>2. ASSUME NEW w \in Waiting(S), Gives(t, w, "woken")
      PROVE  /\ pc' \in [Threads -> PCs]
             /\ pc'[t] = "out"
             /\ \A u \in Threads \ {t} :
                   pc'[u] = pc[u] \/ (pc[u] = "waiting" /\ pc'[u] = "woken")
  <2>1. w \in Threads /\ w # t /\ pc[w] = "waiting"
    BY DEF Waiting
  <2>. QED
    BY <1>2, <2>1 DEF PCs, Gives
<1>3. ASSUME NEW w \in Expired(S), Gives(t, w, "spent")
      PROVE  /\ pc' \in [Threads -> PCs]
             /\ pc'[t] = "out"
             /\ \A u \in Threads \ {t} :
                   pc'[u] = pc[u] \/ (pc[u] = "expired" /\ pc'[u] = "spent")
  <2>1. w \in Threads /\ w # t /\ pc[w] = "expired"
    BY DEF Expired
  <2>. QED
    BY <1>3, <2>1 DEF PCs, Gives
<1>. QED
  BY <1>1, <1>2, <1>3 DEF ReturnAndSignal

\* What Calls needs to know of a step's program counters.
SameOut(u) ==
    /\ pc'[u] = "out" <=> pc[u] = "out"
    /\ pc'[u] \in {"expired", "spent"} => pc[u] \in {"expired", "spent"}

-----------------------------------------------------------------------------
(* IInv is inductive.                                                      *)

LEMMA InvInit == Init => IInv
<1>. SUFFICES ASSUME Init PROVE IInv
  OBVIOUS
<1>. MAX_QUEUE_SIZE \in Nat \ {0}
  BY LkQueueAssumption
<1>1. TypeOK
  BY DEF Init, TypeOK, Slots, PCs, Threads
<1>2. Calls
  BY DEF Init, Calls, Threads
<1>3. Ring
  BY <1>1, SlotFacts DEF Init, Ring
<1>. QED
  BY <1>1, <1>2, <1>3 DEF IInv

\* A step that leaves the ring alone leaves it in shape.
LEMMA RingUnchanged ==
    ASSUME Ring, UNCHANGED ring
    PROVE  Ring'
  BY DEF Ring, ring, Slot

\* A push fills the slot behind the strings queued and no other.
LEMMA StoreFills ==
    ASSUME IInv, NEW p \in Pushers, pc[p] \in {"entering", "woken"},
           ~queue_is_full, Store(p)
    PROVE  /\ size \in 0..MAX_QUEUE_SIZE-1 /\ size' = size + 1 /\ str[p] \in Strings
           /\ data'[Slot(size)] = str[p]
           /\ \A i \in 0..size-1 : data'[Slot(i)] = data[Slot(i)]
<1>. MAX_QUEUE_SIZE \in Nat \ {0}
  BY LkQueueAssumption
<1>1. size \in 0..MAX_QUEUE_SIZE-1 /\ size' = size + 1
  BY DEF IInv, TypeOK, queue_is_full, Store
<1>2. str[p] \in Strings
  BY DEF IInv, TypeOK, Calls
<1>3. rear = Slot(size) /\ rear \in Slots /\ data' = [data EXCEPT ![rear] = str[p]]
  BY DEF IInv, TypeOK, Ring, Store
<1>4. ASSUME NEW i \in 0..size-1
      PROVE  Slot(i) # Slot(size) /\ Slot(i) \in Slots
  <2>1. i \in 0..MAX_QUEUE_SIZE-1 /\ i \in 0..MAX_QUEUE_SIZE /\ i # size
    BY <1>1
  <2>. QED
    BY <1>1, <2>1, SlotFacts DEF IInv
<1>. QED
  BY <1>1, <1>2, <1>3, <1>4 DEF IInv, TypeOK

LEMMA StoreInv ==
    ASSUME IInv, NEW p \in Pushers, pc[p] \in {"entering", "woken"},
           ~queue_is_full, Store(p)
    PROVE  IInv'
<1>. /\ MAX_QUEUE_SIZE \in Nat \ {0} /\ NULL \notin Strings
     /\ Pushers \cap Poppers = {}
     /\ Pushers \in SUBSET Threads /\ Poppers \in SUBSET Threads
  BY LkQueueAssumption DEF Threads
<1>1. /\ pc' \in [Threads -> PCs] /\ pc'[p] = "out"
      /\ \A u \in Threads \ {p} : SameOut(u)
  BY SignalEffect DEF Store, IInv, SameOut
<1>2. rear' = Slot(size + 1) /\ rear' \in Slots
  <2>1. rear' = Next1(Slot(size))
    BY DEF Store, IInv, Ring, Next1
  <2>2. size \in 0..MAX_QUEUE_SIZE-1 /\ size + 1 \in 0..MAX_QUEUE_SIZE
    BY StoreFills
  <2>. QED
    BY <2>1, <2>2, SlotFacts DEF IInv
<1>3. TypeOK'
  <2>1. data' \in [Slots -> Strings \cup {NULL}] /\ size' \in 0..MAX_QUEUE_SIZE
    <3>1. str[p] \in Strings /\ size \in 0..MAX_QUEUE_SIZE-1 /\ size' = size + 1
      BY StoreFills
    <3>2. data' \in [Slots -> Strings \cup {NULL}]
      BY <3>1 DEF Store, IInv, TypeOK
    <3>. QED
      BY <3>1, <3>2
  <2>2. /\ str' \in [Pushers -> Strings \cup {NULL}]
        /\ result' \in [Pushers -> {0, -1}]
    BY DEF Store, IInv, TypeOK
  <2>3. front' = front /\ got' = got
    BY DEF Store
  <2>. QED
    BY <1>1, <1>2, <2>1, <2>2, <2>3 DEF IInv, TypeOK
<1>4. Calls'
  <2>1. /\ str'[p] = NULL /\ \A q \in Pushers \ {p} : str'[q] = str[q]
        /\ got' = got
    BY DEF Store, IInv, TypeOK
  <2>. QED
    BY <1>1, <2>1 DEF IInv, Calls, SameOut
<1>5. Ring'
  <2>1. front' = front
    BY DEF Store
  <2>2. \A i \in 0..size : data'[Slot(i)] \in Strings
    <3>1. \A i \in 0..size : i = size \/ i \in 0..size-1
      BY StoreFills
    <3>. QED
      BY <3>1, StoreFills DEF IInv, Ring
  <2>3. 0..size'-1 = 0..size /\ size' = size + 1
    BY StoreFills
  <2>. QED
    BY <1>2, <2>1, <2>2, <2>3 DEF Ring, Slot
<1>. QED
  BY <1>3, <1>4, <1>5 DEF IInv

LEMMA LoadInv ==
    ASSUME IInv, NEW c \in Poppers, pc[c] \in {"entering", "woken"},
           ~queue_is_empty, Load(c)
    PROVE  IInv'
<1>. /\ MAX_QUEUE_SIZE \in Nat \ {0} /\ NULL \notin Strings
     /\ Pushers \cap Poppers = {}
     /\ Pushers \in SUBSET Threads /\ Poppers \in SUBSET Threads
     /\ size \in 1..MAX_QUEUE_SIZE /\ size' = size - 1
  BY LkQueueAssumption DEF Threads, IInv, TypeOK, queue_is_empty, Load
<1>1. /\ pc' \in [Threads -> PCs] /\ pc'[c] = "out"
      /\ \A u \in Threads \ {c} : SameOut(u)
  BY SignalEffect DEF Load, IInv, SameOut
<1>2. front' = Next1(front) /\ front' \in Slots /\ UNCHANGED <<data, rear, str, result>>
  <2>1. front' = Next1(front) /\ UNCHANGED <<data, rear, str, result>>
    BY DEF Load, Next1
  <2>2. front \in 0..MAX_QUEUE_SIZE-1
    BY DEF IInv, TypeOK, Slots
  <2>3. (front + 1) % MAX_QUEUE_SIZE \in 0..MAX_QUEUE_SIZE-1
    BY <2>2
  <2>. QED
    BY <2>1, <2>3 DEF Next1, Slots
<1>3. TypeOK'
  <2>1. got' \in [Poppers -> Strings \cup {NULL}]
    BY DEF Load, IInv, TypeOK
  <2>. QED
    BY <1>1, <1>2, <2>1 DEF IInv, TypeOK
<1>4. Calls'
  <2>1. \A d \in Poppers \ {c} : got'[d] = got[d]
    BY DEF Load, IInv, TypeOK
  <2>. QED
    BY <1>1, <1>2, <2>1 DEF IInv, Calls, SameOut
<1>5. \A i \in 0..size-1 : (front' + i) % MAX_QUEUE_SIZE = Slot(i + 1)
  BY <1>2, SlotFacts DEF IInv
<1>6. Ring'
  <2>1. rear' = (front' + (size - 1)) % MAX_QUEUE_SIZE
    <3>1. size - 1 \in 0..size-1 /\ (size - 1) + 1 = size
      OBVIOUS
    <3>2. (front' + (size - 1)) % MAX_QUEUE_SIZE = Slot(size)
      BY <1>5, <3>1
    <3>. QED
      BY <1>2, <3>2 DEF IInv, Ring
  <2>2. ASSUME NEW i \in 0..size'-1
        PROVE  data'[(front' + i) % MAX_QUEUE_SIZE] \in Strings
    <3>1. i \in 0..size-1 /\ i + 1 \in 0..size-1
      OBVIOUS
    <3>. QED
      BY <1>2, <1>5, <3>1 DEF IInv, Ring
  <2>3. rear' = (front' + size') % MAX_QUEUE_SIZE
    BY <2>1
  <2>. QED
    BY <2>2, <2>3 DEF Ring, Slot
<1>. QED
  BY <1>3, <1>4, <1>6 DEF IInv

LEMMA InvNext ==
    ASSUME IInv, [Next]_vars
    PROVE  IInv'
<1>. /\ NULL \notin Strings /\ Pushers \cap Poppers = {} /\ Timed \subseteq Pushers
     /\ Threads = Pushers \cup Poppers /\ TypeOK /\ Calls /\ Ring
  BY LkQueueAssumption DEF Threads, IInv
<1>1. ASSUME NEW p \in Pushers, NEW s \in Strings, PushCall(p, s)
      PROVE  IInv'
  BY <1>1, RingUnchanged DEF PushCall, IInv, TypeOK, Calls, PCs, ring
<1>2. ASSUME NEW t \in Threads, pc[t] \in {"entering", "woken"}, Sleep(t)
      PROVE  IInv'
  BY <1>2, RingUnchanged DEF Sleep, IInv, TypeOK, Calls, PCs, ring
<1>3. ASSUME NEW p \in Pushers, Expire(p)
      PROVE  IInv'
  BY <1>3, RingUnchanged DEF Expire, IInv, TypeOK, Calls, PCs, ring
<1>4. ASSUME NEW p \in Pushers, TimeOut(p)
      PROVE  IInv'
  BY <1>4, RingUnchanged DEF TimeOut, IInv, TypeOK, Calls, PCs, ring
<1>5. ASSUME NEW c \in Poppers, PopCall(c)
      PROVE  IInv'
  BY <1>5, RingUnchanged DEF PopCall, IInv, TypeOK, Calls, PCs, ring
<1>6. ASSUME NEW c \in Poppers, Drop(c)
      PROVE  IInv'
  BY <1>6, RingUnchanged DEF Drop, IInv, TypeOK, Calls, ring
<1>7. ASSUME NEW t \in Threads, SpuriousWakeup(t)
      PROVE  IInv'
  BY <1>7, RingUnchanged DEF SpuriousWakeup, IInv, TypeOK, Calls, PCs, ring
<1>8. CASE UNCHANGED vars
  BY <1>8, RingUnchanged DEF vars, IInv, TypeOK, Calls, ring
<1>. QED
  BY <1>1, <1>2, <1>3, <1>4, <1>5, <1>6, <1>7, <1>8, StoreInv, LoadInv
  DEF Next, Push, Pop

LEMMA Inductive == SafeSpec => []IInv
  BY InvInit, InvNext, PTL DEF SafeSpec

-----------------------------------------------------------------------------
(* What the two operations do to the strings queued.                       *)

LEMMA ContentsSeq ==
    ASSUME IInv
    PROVE  /\ Contents \in Seq(Strings) /\ Len(Contents) = size /\ size \in Nat
           /\ \A i \in 1..size : Contents[i] = data[Slot(i - 1)]
<1>1. size \in Nat
  BY LkQueueAssumption DEF IInv, TypeOK
<1>2. \A i \in 1..size : i - 1 \in 0..size-1
  BY <1>1
<1>3. Contents = [i \in 1..size |-> data[Slot(i - 1)]]
  BY DEF Contents, Slot
<1>4. Contents \in [1..size -> Strings]
  BY <1>2, <1>3 DEF IInv, Ring
<1>. QED
  BY <1>1, <1>3, <1>4

LEMMA StoreAppends ==
    ASSUME IInv, NEW p \in Pushers, pc[p] \in {"entering", "woken"},
           ~queue_is_full, Store(p)
    PROVE  Contents' = Append(Contents, str[p])
<1>1. Contents' = [i \in 1..size+1 |-> data'[Slot(i - 1)]]
  BY StoreFills DEF Contents, Slot, Store
<1>2. Append(Contents, str[p]) =
         [i \in 1..size+1 |-> IF i = size + 1 THEN str[p] ELSE Contents[i]]
  BY ContentsSeq
<1>3. ASSUME NEW i \in 1..size+1
      PROVE  data'[Slot(i - 1)] = IF i = size + 1 THEN str[p] ELSE Contents[i]
  <2>1. CASE i = size + 1
    <3>1. i - 1 = size
      BY <2>1, StoreFills
    <3>. QED
      BY <2>1, <3>1, StoreFills
  <2>2. CASE i # size + 1
    <3>1. i \in 1..size /\ i - 1 \in 0..size-1
      BY <2>2, StoreFills
    <3>. QED
      BY <2>2, <3>1, StoreFills, ContentsSeq
  <2>. QED
    BY <2>1, <2>2
<1>. QED
  BY <1>1, <1>2, <1>3

LEMMA LoadTakes ==
    ASSUME IInv, NEW c \in Poppers, ~queue_is_empty, Load(c)
    PROVE  /\ Contents # <<>> /\ data[front] = Head(Contents)
           /\ Contents' = Tail(Contents)
<1>1. size \in 1..MAX_QUEUE_SIZE /\ MAX_QUEUE_SIZE \in Nat \ {0}
  BY LkQueueAssumption DEF IInv, TypeOK, queue_is_empty
<1>2. Contents # <<>> /\ Head(Contents) = Contents[1]
  BY <1>1, ContentsSeq
<1>3. Contents[1] = data[front]
  <2>1. 1 \in 1..size /\ 1 - 1 = 0
    BY <1>1
  <2>. QED
    BY <2>1, ContentsSeq, SlotFacts DEF IInv
<1>4. Contents' = [i \in 1..size-1 |-> data[(Next1(front) + (i - 1)) % MAX_QUEUE_SIZE]]
  BY DEF Contents, Next1, Load
<1>5. Tail(Contents) = [i \in 1..size-1 |-> Contents[i + 1]]
  <2>1. /\ Tail(Contents) \in [1..size-1 -> Strings]
        /\ \A i \in 1..size-1 : Tail(Contents)[i] = Contents[i + 1]
    BY <1>1, <1>2, ContentsSeq, HeadTailProperties, LenProperties
  <2>. QED
    BY <2>1
<1>6. ASSUME NEW i \in 1..size-1
      PROVE  data[(Next1(front) + (i - 1)) % MAX_QUEUE_SIZE] = Contents[i + 1]
  <2>1. i - 1 \in 0..MAX_QUEUE_SIZE-1 /\ (i - 1) + 1 = (i + 1) - 1 /\ i + 1 \in 1..size
    BY <1>1
  <2>2. (Next1(front) + (i - 1)) % MAX_QUEUE_SIZE = Slot((i + 1) - 1)
    BY <2>1, SlotFacts DEF IInv
  <2>. QED
    BY <2>1, <2>2, ContentsSeq
<1>. QED
  BY <1>2, <1>3, <1>4, <1>5, <1>6

LEMMA ContentsUnchanged ==
    ASSUME UNCHANGED ring
    PROVE  Contents' = Contents
  BY DEF ring, Contents

-----------------------------------------------------------------------------
(* The results.                                                            *)

\* Every variable keeps its type; no index leaves the ring and no push that
\* waited makes the size exceed MAX_QUEUE_SIZE, whatever the threads do.
THEOREM TypeCorrect == SafeSpec => []TypeOK
<1>1. IInv => TypeOK
  BY DEF IInv
<1>. QED
  BY <1>1, Inductive, PTL

\* queue_push returns 0 exactly when its string was put last, and -1 when the
\* ring is as it was, for any threads, deadlines and size.
THEOREM ResultsTrue == SafeSpec => ResultIsTrue
<1>. DEFINE Told(p) == pc[p] # "out" /\ pc'[p] = "out" =>
                \/ result'[p] = 0 /\ Contents' = Append(Contents, str[p])
                \/ result'[p] = -1 /\ Contents' = Contents
<1>1. ASSUME IInv, [Next]_vars, NEW p \in Pushers
      PROVE  Told(p)
  <2>. /\ Pushers \cap Poppers = {} /\ Pushers \in SUBSET Threads
       /\ Poppers \in SUBSET Threads /\ TypeOK
    BY <1>1, LkQueueAssumption DEF Threads, IInv
  <2>1. ASSUME NEW q \in Pushers, pc[q] \in {"entering", "woken"},
               ~queue_is_full, Store(q)
        PROVE  Told(p)
    <3>1. CASE p = q
      <4>1. result'[p] = 0
        BY <2>1, <3>1 DEF Store, TypeOK
      <4>. QED
        BY <1>1, <2>1, <3>1, <4>1, StoreAppends
    <3>2. CASE p # q
      BY <2>1, <3>2, SignalEffect DEF Store
    <3>. QED
      BY <3>1, <3>2
  <2>2. ASSUME NEW c \in Poppers, Load(c)
        PROVE  Told(p)
    BY <2>2, SignalEffect DEF Load
  <2>3. ASSUME NEW q \in Pushers, TimeOut(q)
        PROVE  Told(p)
    <3>1. Contents' = Contents
      BY <2>3, ContentsUnchanged DEF TimeOut
    <3>. QED
      BY <2>3, <3>1 DEF TimeOut, TypeOK
  <2>4. ASSUME NEW t \in Threads, NEW where \in PCs \ {"out"},
               pc' = [pc EXCEPT ![t] = where]
        PROVE  Told(p)
    BY <2>4 DEF TypeOK
  <2>5. CASE pc' = pc
    BY <2>5
  <2>6. \/ \E q \in Pushers : pc[q] \in {"entering", "woken"} /\ ~queue_is_full /\ Store(q)
        \/ \E c \in Poppers : Load(c)
        \/ \E q \in Pushers : TimeOut(q)
        \/ \E t \in Threads : \E where \in PCs \ {"out"} : pc' = [pc EXCEPT ![t] = where]
        \/ pc' = pc
    BY <1>1 DEF Next, vars, Push, PushCall, Pop, PopCall, Sleep, Expire, Drop,
                SpuriousWakeup, PCs, Threads
  <2>. QED
    BY <2>1, <2>2, <2>3, <2>4, <2>5, <2>6
<1>2. IInv /\ [Next]_vars => [\A p \in Pushers : Told(p)]_vars
  BY <1>1
<1>. QED
  BY <1>2, Inductive, PTL DEF SafeSpec, ResultIsTrue

\* lkq.c keeps the safety half of BoundedFIFO: Store is Put, TimeOut is
\* GiveUp, Load is Get, Drop is Done, PushCall is Ask and the rest stutters.
THEOREM Implements == SafeSpec => FIFO!SafeSpec
<1>1. ASSUME Init
      PROVE  FIFO!Init
  BY <1>1 DEF Init, FIFO!Init, Contents
<1>2. ASSUME IInv, [Next]_vars
      PROVE  [FIFO!Next]_(FIFO!vars)
  <2>. /\ NULL \notin Strings /\ Pushers \in SUBSET Threads /\ TypeOK /\ Calls
       /\ MAX_QUEUE_SIZE \in Nat \ {0}
    BY <1>2, LkQueueAssumption DEF Threads, IInv
  <2>1. ASSUME NEW p \in Pushers, NEW s \in Strings, PushCall(p, s)
        PROVE  FIFO!Ask(p, s)
    BY <2>1, ContentsUnchanged DEF PushCall, Calls, FIFO!Ask
  <2>2. ASSUME NEW p \in Pushers, pc[p] \in {"entering", "woken"},
               ~queue_is_full, Store(p)
        PROVE  FIFO!Put(p)
    <3>1. str[p] # NULL /\ UNCHANGED got /\ str' = [str EXCEPT ![p] = NULL]
      BY <2>2 DEF Calls, Store
    <3>2. Len(Contents) < MAX_QUEUE_SIZE
      BY <1>2, <2>2, ContentsSeq DEF queue_is_full, TypeOK
    <3>. QED
      BY <1>2, <2>2, <3>1, <3>2, StoreAppends DEF FIFO!Put
  <2>3. ASSUME NEW p \in Pushers, TimeOut(p)
        PROVE  FIFO!GiveUp(p)
    BY <2>3, ContentsUnchanged DEF TimeOut, Calls, FIFO!GiveUp
  <2>4. ASSUME NEW c \in Poppers, pc[c] \in {"entering", "woken"},
               ~queue_is_empty, Load(c)
        PROVE  FIFO!Get(c)
    <3>1. got[c] = NULL /\ UNCHANGED str /\ got' = [got EXCEPT ![c] = data[front]]
      BY <2>4 DEF Calls, Load
    <3>. QED
      BY <1>2, <2>4, <3>1, LoadTakes DEF FIFO!Get
  <2>5. ASSUME NEW c \in Poppers, Drop(c)
        PROVE  FIFO!Done(c)
    BY <2>5, ContentsUnchanged DEF Drop, FIFO!Done
  <2>6. ASSUME UNCHANGED <<ring, str, got>>
        PROVE  UNCHANGED FIFO!vars
    BY <2>6, ContentsUnchanged DEF FIFO!vars
  <2>7. \/ \E p \in Pushers, s \in Strings : PushCall(p, s)
        \/ \E p \in Pushers : pc[p] \in {"entering", "woken"} /\ ~queue_is_full /\ Store(p)
        \/ \E p \in Pushers : TimeOut(p)
        \/ \E c \in Poppers : pc[c] \in {"entering", "woken"} /\ ~queue_is_empty /\ Load(c)
        \/ \E c \in Poppers : Drop(c)
        \/ UNCHANGED <<ring, str, got>>
    BY <1>2 DEF Next, vars, ring, Push, Pop, PopCall, Sleep, Expire, SpuriousWakeup
  <2>. QED
    BY <2>1, <2>2, <2>3, <2>4, <2>5, <2>6, <2>7 DEF FIFO!Next
<1>. QED
  BY <1>1, <1>2, Inductive, PTL DEF SafeSpec, FIFO!SafeSpec

-----------------------------------------------------------------------------
(* us.c on top of the queue.                                               *)

\* What a thread is about to push has been received.
Fed ==
    /\ received \in 0..MaxRecv
    /\ received > 0 => buffer \in Strings
    /\ main \in {"filling", "spawn"} => received > 0
    /\ thread \in [Pushers -> {"none", "started", "copied", "pushing"}]
    /\ copy \in [Pushers -> Strings \cup {NULL}]
    /\ \A m \in Pushers : /\ thread[m] # "none" => received > 0
                          /\ thread[m] = "copied" => copy[m] \in Strings

LEMMA FedInit == ServerInit => Fed
  BY UsServerAssumption DEF ServerInit, Fed

LEMMA FedNext ==
    ASSUME Fed, [ServerNext]_allvars
    PROVE  Fed'
<1>. MaxRecv \in Nat /\ Pushers = 1..MaxRecv /\ Strings = Pushers \cup {MIX}
  BY UsServerAssumption
<1>1. CASE Receive
  BY <1>1 DEF Receive, Fed
<1>2. CASE Received
  <2>1. received \in Pushers
    BY <1>2 DEF Received, Fed
  <2>. QED
    BY <1>2, <2>1 DEF Received, Fed
<1>3. CASE ReceiveFails
  BY <1>3 DEF ReceiveFails, Fed
<1>4. CASE Spawn \/ SpawnFails
  BY <1>4 DEF Spawn, SpawnFails, Fed
<1>5. ASSUME NEW m \in Pushers, Copy(m)
      PROVE  Fed'
  <2>1. buffer \in Strings
    BY <1>5 DEF Copy, Fed
  <2>. QED
    BY <1>5, <2>1 DEF Copy, Fed
<1>6. ASSUME NEW m \in Pushers, CallPush(m)
      PROVE  Fed'
  BY <1>6 DEF CallPush, Fed
<1>7. CASE UNCHANGED servervars
  BY <1>7 DEF servervars, Fed
<1>. QED
  BY <1>1, <1>2, <1>3, <1>4, <1>5, <1>6, <1>7
     DEF ServerNext, InPush, Deadline, GivesUp, WokenForNothing, allvars

\* The server uses its queue as queue_push is meant to be used, for any number
\* of datagrams and any size: what LkQueue promises holds of it.
THEOREM ServerUsesQueue == ServerSpec => SafeSpec
<1>1. ServerInit => Init
  BY DEF ServerInit
<1>2. ASSUME Fed, [ServerNext]_allvars
      PROVE  [Next]_vars
  <2>. Timed = Pushers /\ Pushers \subseteq Threads
    BY UsServerAssumption DEF Threads
  <2>1. ASSUME NEW m \in Pushers, CallPush(m)
        PROVE  Next
    BY <1>2, <2>1 DEF CallPush, Fed, Next
  <2>2. ASSUME NEW m \in Pushers,
               InPush(m) \/ Deadline(m) \/ GivesUp(m) \/ WokenForNothing(m)
        PROVE  Next
    BY <2>2 DEF InPush, Deadline, GivesUp, WokenForNothing, Next
  <2>3. \/ UNCHANGED vars
        \/ \E m \in Pushers : \/ CallPush(m) \/ InPush(m) \/ Deadline(m) \/ GivesUp(m)
                              \/ WokenForNothing(m)
    BY <1>2 DEF ServerNext, allvars, Receive, Received, ReceiveFails, Spawn, SpawnFails, Copy
  <2>. QED
    BY <2>1, <2>2, <2>3
<1>. QED
  BY <1>1, <1>2, FedInit, FedNext, PTL DEF ServerSpec, SafeSpec

\* Every datagram that is pushed goes through a bounded FIFO.
COROLLARY ServerFIFO == ServerSpec => FIFO!SafeSpec
  BY ServerUsesQueue, Implements

Full == size = MAX_QUEUE_SIZE

\* Who sleeps, or gave up, or was told to give up, was shown a full ring; a
\* ring that nobody pops from stays full.
StaysFull ==
    \A m \in Pushers :
       pc[m] \in {"waiting", "expired", "spent"} \/ result[m] = -1 => Full

\* Nobody pops, so that no push has anyone to signal.
LEMMA StoreReturns ==
    ASSUME NEW m \in Pushers, Store(m)
    PROVE  pc' = [pc EXCEPT ![m] = "out"] /\ result' = [result EXCEPT ![m] = 0]
  BY UsServerAssumption DEF Store, ReturnAndSignal, Waiting, Expired

LEMMA StaysFullNext ==
    ASSUME TypeOK, StaysFull, [Next]_vars
    PROVE  StaysFull'
<1>. /\ Poppers = {} /\ Threads = Pushers
     /\ pc \in [Pushers -> PCs] /\ result \in [Pushers -> {0, -1}]
  BY UsServerAssumption DEF Threads, TypeOK
<1>1. ASSUME NEW m \in Pushers, NEW s \in Strings, PushCall(m, s)
      PROVE  StaysFull'
  BY <1>1 DEF PushCall, ring, StaysFull, Full
<1>2. ASSUME NEW m \in Pushers, Push(m)
      PROVE  StaysFull'
  <2>1. CASE queue_is_full /\ Sleep(m)
    BY <2>1 DEF queue_is_full, Sleep, ring, StaysFull, Full
  <2>2. CASE ~queue_is_full /\ Store(m)
    <3>1. \A d \in Pushers : pc[d] \notin {"waiting", "expired", "spent"} /\ result[d] # -1
      BY <2>2 DEF queue_is_full, StaysFull, Full
    <3>. QED
      BY <2>2, <3>1, StoreReturns DEF StaysFull
  <2>. QED
    BY <1>2, <2>1, <2>2 DEF Push
<1>3. ASSUME NEW m \in Pushers, Expire(m) \/ TimeOut(m) \/ SpuriousWakeup(m)
      PROVE  StaysFull'
  BY <1>3 DEF Expire, TimeOut, SpuriousWakeup, ring, StaysFull, Full
<1>4. CASE UNCHANGED vars
  BY <1>4 DEF vars, StaysFull, Full
<1>. QED
  BY <1>1, <1>2, <1>3, <1>4 DEF Next

\* A thread of us.c says that it failed to push only while every slot is
\* taken, for any number of datagrams and any size of the queue.
THEOREM OnlyFullRefusesAlways == ServerSpec => []OnlyFullRefuses
<1>1. Init => StaysFull
  BY DEF Init, StaysFull, Threads
<1>2. StaysFull => OnlyFullRefuses
  BY DEF StaysFull, Full, OnlyFullRefuses
<1>. QED
  BY <1>1, <1>2, StaysFullNext, TypeCorrect, ServerUsesQueue, PTL DEF SafeSpec
=============================================================================
