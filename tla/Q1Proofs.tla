------------------------------ MODULE Q1Proofs -------------------------------
(***************************************************************************)
(* Proofs about Q1, for every number of requests, devices and queue size:  *)
(* every request is in one place, and the list the main thread walks       *)
(* without the mutex keeps its nodes.                                      *)
(***************************************************************************)
EXTENDS Q1, TLAPS, FiniteSetTheorems, SequenceTheorems

Count == Cardinality(Sent)

\* The places of device d's queue that hold a request no thread has taken.
Places(d) == (IF d = 0 THEN i ELSE 0)+1..Len(queue[d])

Shape ==
    /\ TypeOK
    /\ IF mpc = "receiving" THEN req = NULL ELSE req \in Requests
    /\ wpc # "batch" => i = 0

\* Requests are numbered as they come; the one in hand is the last.
Numbered ==
    /\ Sent = 1..Count
    /\ \A n \in 1..MaxReq :
          outcome[n] = "inhand" <=> mpc # "receiving" /\ req.id = n
    /\ mpc # "receiving" => req.id = Count

\* A request waits in one place of one queue, behind those before it.
Queued ==
    /\ \A n \in 1..MaxReq :
          outcome[n] = "queued" <=> \E d \in Devices : \E k \in Places(d) : queue[d][k].id = n
    /\ \A d \in Devices : \A j, k \in Places(d) :
          j < k => queue[d][j].id < queue[d][k].id
    /\ \A d, e \in Devices : \A j \in Places(d), k \in Places(e) :
          queue[d][j].id = queue[e][k].id => d = e

IInv == Shape /\ Numbered /\ Queued

-----------------------------------------------------------------------------
(* Counting the requests.                                                  *)

LEMMA CountType ==
    ASSUME TypeOK
    PROVE  Count \in Nat /\ Sent \subseteq 1..MaxReq
<1>1. MaxReq \in Nat /\ IsFiniteSet(1..MaxReq) /\ Sent \in SUBSET (1..MaxReq)
  BY Q1Assumption, FS_Interval DEF Sent
<1>. QED
  BY <1>1, FS_Subset, FS_CardinalityType DEF Count

\* A new request takes the next number.
LEMMA NextNumber ==
    ASSUME Shape, Numbered, Count < MaxReq,
           NEW o \in Outcomes \ {"unsent"}, outcome' = [outcome EXCEPT ![Count + 1] = o]
    PROVE  /\ Count + 1 \in 1..MaxReq /\ outcome[Count + 1] = "unsent"
           /\ Sent' = 1..Count+1 /\ Count' = Count + 1
<1>. MaxReq \in Nat /\ Count \in Nat
  BY Q1Assumption, CountType DEF Shape
<1>1. Count + 1 \in 1..MaxReq /\ Count + 1 \notin Sent
  BY DEF Numbered
<1>2. outcome[Count + 1] = "unsent"
  BY <1>1 DEF Sent
<1>3. Sent' = Sent \cup {Count + 1}
  BY <1>1 DEF Sent, Shape, TypeOK
<1>4. Sent' = 1..Count+1
  BY <1>3 DEF Numbered
<1>5. Count' = Count + 1
  BY <1>4, FS_Interval DEF Count
<1>. QED
  BY <1>1, <1>2, <1>4, <1>5

\* What becomes of a request that has been sent changes no number.
LEMMA SameNumbers ==
    ASSUME TypeOK, NEW n \in 1..MaxReq, outcome[n] # "unsent",
           NEW o \in Outcomes \ {"unsent"}, outcome' = [outcome EXCEPT ![n] = o]
    PROVE  Sent' = Sent /\ Count' = Count
<1>1. Sent' = Sent
  BY DEF Sent, TypeOK
<1>. QED
  BY <1>1 DEF Count

-----------------------------------------------------------------------------
(* Types, and what goes with them.                                         *)

LEMMA ShapeInit == Init => Shape
<1>. SUFFICES ASSUME Init PROVE Shape
  OBVIOUS
<1>. /\ 0 \in Devices /\ MAX_QUEUE_SIZE \in Nat \ {0}
     /\ <<>> \in Seq(Nodes) /\ <<>> \in Seq(Requests) /\ Len(<<>>) = 0
  BY Q1Assumption
<1>1. /\ tty \in [Devices -> Ports] /\ outcome \in [1..MaxReq -> Outcomes]
      /\ wpc \in {"none", "entering"} /\ answered \subseteq 1..MaxReq
  BY DEF Init, Outcomes
<1>2. /\ queue \in [Devices -> Seq(Requests)] /\ \A d \in Devices : Len(queue[d]) = 0
  BY DEF Init
<1>. QED
  BY <1>1, <1>2 DEF Init, Shape, TypeOK

\* The main thread is done with a request.
LEMMA ReturnShape ==
    ASSUME Shape, mpc # "receiving", NEW o \in Outcomes, Return(o)
    PROVE  /\ outcome' \in [1..MaxReq -> Outcomes] /\ answered' \subseteq 1..MaxReq
           /\ req.id \in 1..MaxReq /\ outcome' = [outcome EXCEPT ![req.id] = o]
           /\ mpc' = "receiving" /\ req' = NULL
<1>1. req.id \in 1..MaxReq
  BY DEF Shape, Requests
<1>. QED
  BY <1>1 DEF Return, Shape, TypeOK

LEMMA InsertShape ==
    ASSUME Shape, Insert
    PROVE  /\ Shape'
           /\ req.device \in Devices /\ req \in Requests
           /\ req.device = 0 => wpc # "batch"
           /\ queue' = [queue EXCEPT ![req.device] = Append(queue[req.device], req)]
<1>. /\ 0 \in Devices /\ MAX_QUEUE_SIZE \in Nat \ {0} /\ TypeOK
     /\ mpc # "receiving"
  BY Q1Assumption DEF Shape, Insert
<1>1. req \in Requests /\ req.device \in Devices /\ (req.device = 0 => wpc # "batch")
  BY DEF Shape, Requests, Insert, QueueFree
<1>2. queue' = [queue EXCEPT ![req.device] = Append(queue[req.device], req)]
  BY DEF Insert
<1>3. /\ outcome' \in [1..MaxReq -> Outcomes] /\ answered' \subseteq 1..MaxReq
      /\ mpc' = "receiving" /\ req' = NULL
  BY ReturnShape DEF Insert, Outcomes
<1>4. /\ queue[req.device] \in Seq(Requests)
      /\ Len(queue[req.device]) < MAX_QUEUE_SIZE
  BY <1>1 DEF TypeOK, Insert
<1>5. /\ Append(queue[req.device], req) \in Seq(Requests)
      /\ Len(Append(queue[req.device], req)) = Len(queue[req.device]) + 1
  BY <1>1, <1>4, AppendProperties
<1>6. /\ queue' \in [Devices -> Seq(Requests)]
      /\ \A d \in Devices : Len(queue'[d]) <= MAX_QUEUE_SIZE
      /\ Len(queue'[0]) >= Len(queue[0])
  <2>1. \A d \in Devices :
           queue'[d] = IF d = req.device THEN Append(queue[req.device], req) ELSE queue[d]
    BY <1>1, <1>2 DEF TypeOK
  <2>2. queue' \in [Devices -> Seq(Requests)]
    BY <1>2, <1>5 DEF TypeOK
  <2>3. \A d \in Devices : Len(queue[d]) \in Nat /\ Len(queue[d]) <= MAX_QUEUE_SIZE
    BY DEF TypeOK
  <2>4. \A d \in Devices : Len(queue'[d]) <= MAX_QUEUE_SIZE /\ Len(queue'[d]) >= Len(queue[d])
    <3>. TAKE d \in Devices
    <3>. DEFINE old == Len(queue[d])
                new == Len(queue'[d])
    <3>1. old \in Nat /\ old <= MAX_QUEUE_SIZE
      BY <2>3
    <3>2. CASE d = req.device
      <4>1. new = old + 1 /\ old < MAX_QUEUE_SIZE
        BY <1>4, <1>5, <2>1, <3>2
      <4>. HIDE DEF old, new
      <4>2. new <= MAX_QUEUE_SIZE /\ new >= old
        BY <3>1, <4>1
      <4>. QED
        BY <4>2 DEF old, new
    <3>3. CASE d # req.device
      <4>1. new = old
        BY <2>1, <3>3
      <4>. HIDE DEF old, new
      <4>2. new <= MAX_QUEUE_SIZE /\ new >= old
        BY <3>1, <4>1
      <4>. QED
        BY <4>2 DEF old, new
    <3>. QED
      BY <3>2, <3>3
  <2>. QED
    BY <2>2, <2>4
<1>7. i' = i /\ i \in 0..Len(queue'[0])
  BY <1>6 DEF Insert, TypeOK
<1>8. /\ wpc' \in {"none", "entering", "waiting", "woken", "batch", "sleeping"}
      /\ (wpc' = "batch" <=> wpc = "batch")
  BY DEF Insert, TypeOK
<1>9. UNCHANGED <<tty, seen, list>>
  BY DEF Insert
<1>10. TypeOK'
  BY <1>3, <1>6, <1>7, <1>8, <1>9 DEF TypeOK
<1>. QED
  BY <1>1, <1>2, <1>3, <1>7, <1>8, <1>10 DEF Shape

LEMMA ExchangeShape ==
    ASSUME Shape, NEW result \in Texts, Exchange(result)
    PROVE  /\ Shape'
           /\ i \in 0..Len(queue[0])-1 /\ queue[0][i+1] \in Requests
           /\ queue[0][i+1].id \in 1..MaxReq
           /\ Len(list') = Len(list) + 1 /\ Len(list) \in Nat
           /\ \A k \in DOMAIN list : k + 1 \in DOMAIN list' /\ list'[k + 1] = list[k]
<1>. /\ 0 \in Devices /\ TypeOK
  BY Q1Assumption DEF Shape
<1>. DEFINE id == queue[0][i+1].id
            node == [id |-> id, data |-> result, old |-> FALSE]
<1>1. queue[0] \in Seq(Requests) /\ i \in 0..Len(queue[0])-1 /\ i + 1 \in 1..Len(queue[0])
  BY DEF TypeOK, Exchange
<1>2. queue[0][i+1] \in Requests
  BY <1>1, ElementOfSeq
<1>3. id \in 1..MaxReq /\ node \in Nodes
  BY <1>2 DEF Requests, Nodes
<1>4. list' = <<node>> \o list /\ list \in Seq(Nodes)
  BY DEF Exchange, insert_list, TypeOK
<1>5. <<node>> \in Seq(Nodes) /\ Len(<<node>>) = 1
  BY <1>3
<1>6. /\ list' \in Seq(Nodes) /\ Len(list') = Len(list) + 1 /\ Len(list) \in Nat
      /\ \A k \in 1..Len(list) : list'[k + 1] = list[k]
  BY <1>4, <1>5, ConcatProperties
<1>7. outcome' \in [1..MaxReq -> Outcomes]
  BY <1>3 DEF Exchange, TypeOK, Outcomes
<1>8. i' \in 0..Len(queue[0]) /\ UNCHANGED <<tty, mpc, req, seen, queue, wpc, answered>>
  BY <1>1 DEF Exchange
<1>9. TypeOK'
  BY <1>6, <1>7, <1>8 DEF TypeOK
<1>10. \A k \in DOMAIN list : k + 1 \in DOMAIN list' /\ list'[k + 1] = list[k]
  BY <1>4, <1>6
<1>11. wpc' = "batch"
  BY <1>8 DEF Exchange
<1>. QED
  BY <1>1, <1>2, <1>3, <1>6, <1>8, <1>9, <1>10, <1>11 DEF Shape

\* A node that grows old stays where it is.
LEMMA GrowOldShape ==
    ASSUME Shape, GrowOld
    PROVE  /\ Shape'
           /\ DOMAIN list' = DOMAIN list
           /\ \A k \in DOMAIN list : list'[k].id = list[k].id
<1>1. list \in Seq(Nodes) /\ Len(list) \in Nat
  BY DEF Shape, TypeOK
<1>2. list' = [k \in 1..Len(list) |-> [list[k] EXCEPT !.old = TRUE]]
  BY <1>1 DEF GrowOld
<1>3. \A k \in 1..Len(list) :
         [list[k] EXCEPT !.old = TRUE] \in Nodes /\ [list[k] EXCEPT !.old = TRUE].id = list[k].id
  <2>. TAKE k \in 1..Len(list)
  <2>1. list[k] \in Nodes
    BY <1>1
  <2>. QED
    BY <2>1 DEF Nodes
<1>4. list' \in Seq(Nodes)
  BY <1>1, <1>2, <1>3, IsASeq
<1>5. UNCHANGED <<tty, mpc, req, seen, queue, wpc, i, outcome, answered>>
  BY DEF GrowOld
<1>. QED
  BY <1>1, <1>2, <1>3, <1>4, <1>5 DEF Shape, TypeOK

LEMMA ShapeNext ==
    ASSUME Shape, Numbered, [Next]_vars
    PROVE  Shape'
<1>. /\ 0 \in Devices /\ MAX_QUEUE_SIZE \in Nat \ {0} /\ MaxReq \in Nat
     /\ TypeOK /\ <<>> \in Seq(Nodes) /\ Count = Cardinality(Sent)
  BY Q1Assumption DEF Shape, Count
<1>1. ASSUME NEW o \in {"invalid", "dumped"}, Count < MaxReq,
             outcome' = [outcome EXCEPT ![Count + 1] = o],
             answered' = answered \cup {Count + 1},
             UNCHANGED <<tty, mpc, req, seen, queue, wpc, i, list>>
      PROVE  Shape'
  <2>1. Count + 1 \in 1..MaxReq
    BY <1>1, NextNumber DEF Outcomes
  <2>. QED
    BY <1>1, <2>1 DEF Shape, TypeOK, Outcomes
<1>2. ASSUME Refuse \/ Dump
      PROVE  Shape'
  BY <1>1, <1>2 DEF Refuse, Dump
<1>3. ASSUME NEW d \in Devices, NEW t \in Texts, Receive(d, t)
      PROVE  Shape'
  <2>1. /\ outcome' = [outcome EXCEPT ![Count + 1] = "inhand"]
        /\ req' = [id |-> Count + 1, device |-> d, command |-> t]
        /\ Count < MaxReq
    BY <1>3 DEF Receive
  <2>2. Count + 1 \in 1..MaxReq
    BY <2>1, NextNumber DEF Outcomes
  <2>3. req' \in Requests
    BY <2>1, <2>2 DEF Requests
  <2>4. outcome' \in [1..MaxReq -> Outcomes]
    BY <2>1 DEF TypeOK, Outcomes
  <2>5. seen' \in Seq(Nodes)
    BY <1>3 DEF Receive, TypeOK
  <2>. QED
    BY <1>3, <2>3, <2>4, <2>5 DEF Receive, Shape, TypeOK
<1>4. CASE Search
  <2>1. CASE Return("hit")
    BY <1>4, <2>1, ReturnShape DEF Search, Shape, TypeOK, Outcomes
  <2>2. CASE mpc' = "entering" /\ UNCHANGED <<req, outcome, answered>>
    BY <1>4, <2>2 DEF Search, Shape, TypeOK
  <2>. QED
    BY <1>4, <2>1, <2>2 DEF Search
<1>5. CASE Insert
  BY <1>5, InsertShape
<1>6. CASE Full
  <2>1. "full" \in Outcomes
    BY DEF Outcomes
  <2>. QED
    BY <1>6, <2>1, ReturnShape DEF Full, Shape, TypeOK
<1>7. CASE WaitForRoom \/ TimeOut \/ SpuriousWakeup
  BY <1>7 DEF WaitForRoom, TimeOut, SpuriousWakeup, Shape, TypeOK
<1>8. CASE WaitForWork \/ Begin \/ Awake
  BY <1>8 DEF WaitForWork, Begin, Awake, Shape, TypeOK
<1>9. CASE Clear
  <2>1. /\ queue' \in [Devices -> Seq(Requests)] /\ queue'[0] = <<>>
        /\ \A d \in Devices : Len(queue'[d]) <= MAX_QUEUE_SIZE
    BY <1>9 DEF Clear, TypeOK
  <2>. QED
    BY <1>9, <2>1 DEF Clear, Shape, TypeOK
<1>10. ASSUME NEW result \in Texts, Exchange(result)
       PROVE  Shape'
  BY <1>10, ExchangeShape
<1>11. CASE GrowOld
  BY <1>11, GrowOldShape
<1>12. CASE UNCHANGED vars
  BY <1>12 DEF vars, Shape, TypeOK
<1>. QED
  BY <1>2, <1>3, <1>4, <1>5, <1>6, <1>7, <1>8, <1>9, <1>10, <1>11, <1>12 DEF Next

-----------------------------------------------------------------------------
(* Where the requests are.                                                 *)

LEMMA BooksInit == Init => Numbered /\ Queued
<1>. SUFFICES ASSUME Init PROVE Numbered /\ Queued
  OBVIOUS
<1>. MaxReq \in Nat
  BY Q1Assumption
<1>1. Sent = {}
  BY DEF Init, Sent
<1>2. Count = 0
  BY <1>1, FS_EmptySet DEF Count
<1>3. 1..Count = {}
  BY <1>2
<1>4. \A d \in Devices : Places(d) = {}
  BY DEF Init, Places
<1>. QED
  BY <1>1, <1>3, <1>4 DEF Init, Numbered, Queued

\* Places are positions of a queue, and what stands there has a number.
LEMMA PlacesFacts ==
    ASSUME Shape
    PROVE  \A d \in Devices : \A k \in Places(d) :
              /\ k \in 1..Len(queue[d]) /\ Len(queue[d]) \in Nat
              /\ queue[d][k] \in Requests /\ queue[d][k].id \in 1..MaxReq
<1>. SUFFICES ASSUME NEW d \in Devices, NEW k \in Places(d)
              PROVE  /\ k \in 1..Len(queue[d]) /\ Len(queue[d]) \in Nat
                     /\ queue[d][k] \in Requests /\ queue[d][k].id \in 1..MaxReq
  OBVIOUS
<1>1. queue[d] \in Seq(Requests) /\ Len(queue[d]) \in Nat
  BY DEF Shape, TypeOK
<1>2. i \in Nat
  BY Q1Assumption DEF Shape, TypeOK
<1>3. k \in 1..Len(queue[d])
  BY <1>1, <1>2 DEF Places
<1>4. queue[d][k] \in Requests
  BY <1>1, <1>3, ElementOfSeq
<1>. QED
  BY <1>1, <1>3, <1>4 DEF Requests

\* A step that leaves the queues alone and makes no request "queued" or stop
\* being so.
LEMMA QueuedSame ==
    ASSUME Queued, UNCHANGED <<queue, i>>,
           \A n \in 1..MaxReq : outcome'[n] = "queued" <=> outcome[n] = "queued"
    PROVE  Queued'
  BY DEF Queued, Places

\* A new request.
LEMMA ArriveBooks ==
    ASSUME IInv, mpc = "receiving", Count < MaxReq, UNCHANGED <<queue, i>>,
           NEW o \in {"invalid", "dumped", "inhand"},
           outcome' = [outcome EXCEPT ![Count + 1] = o],
           IF o = "inhand" THEN mpc' # "receiving" /\ req'.id = Count + 1
                           ELSE mpc' = "receiving"
    PROVE  Numbered' /\ Queued'
<1>1. /\ Count + 1 \in 1..MaxReq /\ outcome[Count + 1] = "unsent"
      /\ Sent' = 1..Count+1 /\ Count' = Count + 1
  BY NextNumber DEF IInv, Outcomes
<1>2. \A n \in 1..MaxReq : outcome'[n] = IF n = Count + 1 THEN o ELSE outcome[n]
  BY DEF IInv, Shape, TypeOK
<1>3. \A n \in 1..MaxReq : outcome[n] # "inhand"
  BY DEF IInv, Numbered
<1>4. Numbered'
  BY <1>1, <1>2, <1>3 DEF Numbered
<1>5. Queued'
  BY <1>1, <1>2, QueuedSame DEF IInv
<1>. QED
  BY <1>4, <1>5

\* The main thread is through with the request in its hands.
LEMMA ReturnBooks ==
    ASSUME IInv, mpc # "receiving", NEW o \in {"hit", "full", "queued"}, Return(o)
    PROVE  /\ Numbered' /\ req.id \in 1..MaxReq /\ outcome[req.id] = "inhand"
           /\ outcome' = [outcome EXCEPT ![req.id] = o]
<1>1. /\ req.id \in 1..MaxReq /\ outcome' = [outcome EXCEPT ![req.id] = o]
      /\ mpc' = "receiving"
  BY ReturnShape DEF IInv, Outcomes
<1>2. outcome[req.id] = "inhand"
  BY <1>1 DEF IInv, Numbered
<1>3. Sent' = Sent /\ Count' = Count
  BY <1>1, <1>2, SameNumbers DEF IInv, Shape, Outcomes
<1>4. \A n \in 1..MaxReq : outcome'[n] # "inhand"
  BY <1>1 DEF IInv, Numbered, Shape, TypeOK
<1>5. Numbered'
  BY <1>1, <1>3, <1>4 DEF IInv, Numbered
<1>. QED
  BY <1>1, <1>2, <1>5

LEMMA SettleBooks ==
    ASSUME IInv, mpc # "receiving", NEW o \in {"hit", "full"}, Return(o),
           UNCHANGED <<queue, i>>
    PROVE  Numbered' /\ Queued'
<1>1. \A n \in 1..MaxReq : outcome'[n] = "queued" <=> outcome[n] = "queued"
  BY ReturnBooks DEF IInv, Shape, TypeOK
<1>. QED
  BY <1>1, ReturnBooks, QueuedSame DEF IInv

\* The request in hand goes behind those of its device, which came before it.
LEMMA InsertBooks ==
    ASSUME IInv, Insert
    PROVE  Numbered' /\ Queued'
<1>0. 0 \in Devices /\ Shape /\ Queued /\ TypeOK /\ mpc # "receiving" /\ i' = i
  BY Q1Assumption DEF IInv, Shape, Insert
<1>. PICK d0 \in Devices : d0 = req.device
  BY <1>0, InsertShape
<1>. PICK end \in Nat : end = Len(queue[d0]) + 1
  BY <1>0 DEF TypeOK
<1>1. /\ Numbered' /\ req.id \in 1..MaxReq /\ outcome[req.id] = "inhand"
      /\ outcome' = [outcome EXCEPT ![req.id] = "queued"]
  BY <1>0, ReturnBooks DEF Insert
<1>2. /\ d0 \in Devices /\ req \in Requests /\ (d0 = 0 => i = 0)
      /\ queue' = [queue EXCEPT ![d0] = Append(queue[d0], req)]
  BY <1>0, InsertShape DEF Shape
<1>3. /\ Len(queue'[d0]) = end /\ end \in Nat /\ queue'[d0][end] = req
      /\ \A k \in 1..Len(queue[d0]) : queue'[d0][k] = queue[d0][k]
      /\ \A d \in Devices \ {d0} : queue'[d] = queue[d]
  <2>1. queue[d0] \in Seq(Requests) /\ queue'[d0] = Append(queue[d0], req)
    BY <1>0, <1>2 DEF TypeOK
  <2>. QED
    BY <1>0, <1>2, <2>1, AppendProperties DEF TypeOK
<1>4. /\ Places(d0)' = Places(d0) \cup {end} /\ end \notin Places(d0)
      /\ \A k \in Places(d0) : k < end
      /\ \A d \in Devices \ {d0} : Places(d)' = Places(d)
  <2>1. Places(d0) = 1..Len(queue[d0]) /\ Places(d0)' = 1..end
    <3>1. (IF d0 = 0 THEN i ELSE 0) = 0 /\ (IF d0 = 0 THEN i' ELSE 0) = 0
      BY <1>0, <1>2
    <3>. QED
      BY <1>3, <3>1 DEF Places
  <2>2. Len(queue[d0]) \in Nat
    BY <1>0, <1>2 DEF TypeOK
  <2>3. \A d \in Devices \ {d0} : Places(d)' = Places(d)
    BY <1>0, <1>3 DEF Places
  <2>. QED
    BY <2>1, <2>2, <2>3
<1>5. \A d \in Devices : \A k \in Places(d) : queue'[d][k] = queue[d][k]
  BY <1>0, <1>3, PlacesFacts
<1>6. \A d \in Devices : \A k \in Places(d) :
         queue[d][k].id \in 1..Count /\ queue[d][k].id # req.id
  <2>. TAKE d \in Devices
  <2>. TAKE k \in Places(d)
  <2>1. queue[d][k].id \in 1..MaxReq
    BY <1>0, PlacesFacts
  <2>2. outcome[queue[d][k].id] = "queued"
    BY <1>0, <2>1 DEF Queued
  <2>3. queue[d][k].id \in Sent
    BY <2>1, <2>2 DEF Sent
  <2>. QED
    BY <1>1, <2>2, <2>3 DEF IInv, Numbered
<1>7. \A d \in Devices : \A k \in Places(d) : queue[d][k].id < req.id
  <2>1. req.id = Count /\ Count \in Nat
    BY <1>0, CountType DEF IInv, Numbered
  <2>. QED
    BY <1>6, <2>1
<1>8. \A n \in 1..MaxReq :
         outcome'[n] = "queued" <=>
            \E d \in Devices : \E k \in Places(d)' : queue'[d][k].id = n
  <2>. TAKE n \in 1..MaxReq
  <2>1. outcome'[n] = "queued" <=> n = req.id \/ outcome[n] = "queued"
    BY <1>0, <1>1 DEF TypeOK
  <2>2. (\E d \in Devices : \E k \in Places(d)' : queue'[d][k].id = n)
           <=> n = req.id \/ \E d \in Devices : \E k \in Places(d) : queue[d][k].id = n
    <3>1. ASSUME NEW d \in Devices, NEW k \in Places(d)', queue'[d][k].id = n
          PROVE  n = req.id \/ \E e \in Devices : \E j \in Places(e) : queue[e][j].id = n
      <4>1. k \in Places(d) \/ (d = d0 /\ k = end)
        BY <1>4
      <4>. QED
        BY <1>3, <1>5, <3>1, <4>1
    <3>2. end \in Places(d0)' /\ queue'[d0][end].id = req.id
      BY <1>3, <1>4
    <3>3. ASSUME NEW d \in Devices, NEW k \in Places(d), queue[d][k].id = n
          PROVE  k \in Places(d)' /\ queue'[d][k].id = n
      BY <1>4, <1>5, <3>3
    <3>. QED
      BY <3>1, <3>2, <3>3
  <2>. QED
    BY <1>0, <2>1, <2>2 DEF Queued
<1>9. ASSUME NEW d \in Devices, NEW j \in Places(d)', NEW k \in Places(d)', j < k
      PROVE  queue'[d][j].id < queue'[d][k].id
  <2>1. CASE j \in Places(d) /\ k \in Places(d)
    BY <1>0, <1>5, <1>9, <2>1 DEF Queued
  <2>2. CASE d = d0 /\ k = end /\ j \in Places(d)
    BY <1>3, <1>5, <1>7, <2>2
  <2>3. CASE d = d0 /\ j = end
    <3>1. k = end \/ k < end
      BY <1>4, <2>3
    <3>. QED
      BY <1>3, <1>9, <2>3, <3>1, <1>4
  <2>. QED
    BY <1>4, <2>1, <2>2, <2>3
<1>10. ASSUME NEW d \in Devices, NEW e \in Devices,
              NEW j \in Places(d)', NEW k \in Places(e)',
              queue'[d][j].id = queue'[e][k].id
       PROVE  d = e
  <2>1. CASE j \in Places(d) /\ k \in Places(e)
    BY <1>0, <1>5, <1>10, <2>1 DEF Queued
  <2>2. CASE d = d0 /\ j = end /\ e # d0
    BY <1>3, <1>4, <1>5, <1>6, <1>10, <2>2
  <2>3. CASE e = d0 /\ k = end /\ d # d0
    BY <1>3, <1>4, <1>5, <1>6, <1>10, <2>3
  <2>. QED
    BY <1>4, <2>1, <2>2, <2>3
<1>. QED
  BY <1>1, <1>8, <1>9, <1>10 DEF Queued

\* The request the device's thread is through with was the first in its queue.
LEMMA ExchangeBooks ==
    ASSUME IInv, NEW result \in Texts, Exchange(result)
    PROVE  Numbered' /\ Queued'
<1>. DEFINE id == queue[0][i+1].id
<1>0. 0 \in Devices /\ Shape /\ Queued /\ TypeOK /\ UNCHANGED <<queue, mpc, req>>
  BY Q1Assumption DEF IInv, Shape, Exchange
<1>1. /\ i \in 0..Len(queue[0])-1 /\ id \in 1..MaxReq /\ i' = i + 1
      /\ outcome' = [outcome EXCEPT ![id] = "done"]
  BY <1>0, ExchangeShape DEF Exchange
<1>2. /\ Places(0) = Places(0)' \cup {i + 1} /\ i + 1 \notin Places(0)'
      /\ \A k \in Places(0)' : i + 1 < k
      /\ \A d \in Devices \ {0} : Places(d)' = Places(d)
  <2>1. Len(queue[0]) \in Nat
    BY <1>0 DEF TypeOK
  <2>2. Places(0) = i+1..Len(queue[0]) /\ Places(0)' = i+2..Len(queue[0])
    BY <1>0, <1>1, <2>1 DEF Places
  <2>3. \A d \in Devices \ {0} : Places(d)' = Places(d)
    BY <1>0 DEF Places
  <2>. QED
    BY <1>1, <2>1, <2>2, <2>3
<1>3. outcome[id] = "queued"
  BY <1>0, <1>1, <1>2 DEF Queued
<1>4. Sent' = Sent /\ Count' = Count
  BY <1>0, <1>1, <1>3, SameNumbers DEF Outcomes
<1>5. \A n \in 1..MaxReq : outcome'[n] = IF n = id THEN "done" ELSE outcome[n]
  BY <1>0, <1>1 DEF TypeOK
<1>6. Numbered'
  BY <1>0, <1>3, <1>4, <1>5 DEF IInv, Numbered
<1>7. \A d \in Devices : \A k \in Places(d)' : k \in Places(d) /\ queue[d][k].id # id
  <2>. TAKE d \in Devices
  <2>. TAKE k \in Places(d)'
  <2>1. k \in Places(d)
    BY <1>2
  <2>2. CASE d = 0
    <3>1. i + 1 \in Places(0) /\ k \in Places(0) /\ i + 1 < k
      BY <1>2, <2>1, <2>2
    <3>2. id < queue[0][k].id /\ queue[0][k].id \in 1..MaxReq
      BY <1>0, <3>1, PlacesFacts DEF Queued
    <3>. QED
      BY <1>1, <2>1, <2>2, <3>2
  <2>3. CASE d # 0
    BY <1>0, <1>2, <2>1, <2>3 DEF Queued
  <2>. QED
    BY <2>2, <2>3
<1>8. \A n \in 1..MaxReq :
         outcome'[n] = "queued" <=>
            \E d \in Devices : \E k \in Places(d)' : queue'[d][k].id = n
  <2>. TAKE n \in 1..MaxReq
  <2>1. CASE n = id
    BY <1>0, <1>5, <1>7, <2>1
  <2>2. CASE n # id
    <3>1. (\E d \in Devices : \E k \in Places(d)' : queue'[d][k].id = n)
             <=> \E d \in Devices : \E k \in Places(d) : queue[d][k].id = n
      BY <1>0, <1>2, <2>2
    <3>. QED
      BY <1>0, <1>5, <2>2, <3>1 DEF Queued
  <2>. QED
    BY <2>1, <2>2
<1>9. Queued'
  BY <1>0, <1>7, <1>8 DEF Queued
<1>. QED
  BY <1>6, <1>9

\* The batch ends when every place of device 0's queue has been passed.
LEMMA ClearBooks ==
    ASSUME IInv, Clear
    PROVE  Numbered' /\ Queued'
<1>0. 0 \in Devices /\ TypeOK /\ Queued /\ UNCHANGED <<req, outcome>>
  BY Q1Assumption DEF IInv, Shape, Clear
<1>1. queue' = [queue EXCEPT ![0] = <<>>] /\ i' = 0 /\ i = Len(queue[0])
  BY DEF Clear
<1>2. Places(0) = {} /\ Places(0)' = {}
  <2>1. Len(queue[0]) \in Nat /\ queue'[0] = <<>>
    BY <1>0, <1>1 DEF TypeOK
  <2>. QED
    BY <1>1, <2>1 DEF Places
<1>3. \A d \in Devices \ {0} : queue'[d] = queue[d] /\ Places(d)' = Places(d)
  BY <1>0, <1>1 DEF TypeOK, Places
<1>4. Queued'
  BY <1>0, <1>2, <1>3 DEF Queued
<1>5. mpc' = "receiving" <=> mpc = "receiving"
  BY DEF Clear
<1>6. Sent' = Sent /\ Count' = Count
  BY <1>0 DEF Sent, Count
<1>. QED
  BY <1>0, <1>4, <1>5, <1>6 DEF IInv, Numbered

LEMMA BooksNext ==
    ASSUME IInv, [Next]_vars
    PROVE  Numbered' /\ Queued'
<1>. Count = Cardinality(Sent) /\ Shape
  BY DEF Count, IInv
<1>1. CASE Refuse \/ Dump
  BY <1>1, ArriveBooks DEF Refuse, Dump
<1>2. ASSUME NEW d \in Devices, NEW t \in Texts, Receive(d, t)
      PROVE  Numbered' /\ Queued'
  BY <1>2, ArriveBooks DEF Receive
<1>3. ASSUME UNCHANGED <<queue, outcome, req>>, mpc' = "receiving" <=> mpc = "receiving",
             i' = i \/ (wpc # "batch" /\ i' = 0)
      PROVE  Numbered' /\ Queued'
  <2>1. i' = i
    BY <1>3 DEF Shape
  <2>2. Sent' = Sent /\ Count' = Count
    BY <1>3 DEF Sent, Count
  <2>. QED
    BY <1>3, <2>1, <2>2, QueuedSame DEF IInv, Numbered
<1>4. CASE Search
  <2>1. CASE Return("hit")
    BY <1>4, <2>1, SettleBooks DEF Search
  <2>2. CASE mpc' = "entering" /\ UNCHANGED <<req, outcome, answered>>
    BY <1>3, <1>4, <2>2 DEF Search
  <2>. QED
    BY <1>4, <2>1, <2>2 DEF Search
<1>5. CASE Full
  BY <1>5, SettleBooks DEF Full
<1>6. CASE WaitForRoom \/ TimeOut \/ SpuriousWakeup \/ WaitForWork \/ Begin \/ Awake \/ GrowOld
  BY <1>3, <1>6 DEF WaitForRoom, TimeOut, SpuriousWakeup, WaitForWork, Begin, Awake, GrowOld
<1>7. CASE UNCHANGED vars
  BY <1>3, <1>7 DEF vars
<1>. QED
  BY <1>1, <1>2, <1>4, <1>5, <1>6, <1>7, InsertBooks, ExchangeBooks, ClearBooks DEF Next

-----------------------------------------------------------------------------
(* The results.                                                            *)

LEMMA Inductive == Spec => []IInv
<1>1. Init => IInv
  BY ShapeInit, BooksInit DEF IInv
<1>2. IInv /\ [Next]_vars => IInv'
  BY ShapeNext, BooksNext DEF IInv
<1>. QED
  BY <1>1, <1>2, PTL DEF Spec

\* Every variable keeps its type: no device has more than MAX_QUEUE_SIZE
\* requests queued, and its thread does not read beyond them.
THEOREM TypeCorrect == Spec => []TypeOK
<1>1. IInv => TypeOK
  BY DEF IInv, Shape
<1>. QED
  BY <1>1, Inductive, PTL

\* The places of a queue hold what Pending says, in its order.
LEMMA PendingIsPlaces ==
    ASSUME Shape, NEW d \in Devices
    PROVE  /\ {r.id : r \in ToSet(Pending(d))} = {queue[d][k].id : k \in Places(d)}
           /\ \A j \in DOMAIN Pending(d) : \E p \in Places(d) :
                 Pending(d)[j] = queue[d][p] /\ p = j + (IF d = 0 THEN i ELSE 0)
<1>. DEFINE b == IF d = 0 THEN i ELSE 0
            s == Pending(d)
<1>. 0 \in Devices
  BY Q1Assumption
<1>1. queue[d] \in Seq(Requests) /\ Len(queue[d]) \in Nat /\ b \in 0..Len(queue[d])
  BY DEF Shape, TypeOK
<1>2. s = SubSeq(queue[d], b + 1, Len(queue[d]))
  <2>1. CASE d = 0
    BY <2>1 DEF Pending
  <2>2. CASE d # 0
    BY <1>1, <2>2, SubSeqFull DEF Pending
  <2>. QED
    BY <2>1, <2>2
<1>3. Places(d) = b+1..Len(queue[d])
  BY DEF Places
<1>. HIDE DEF b, s
<1>4. /\ DOMAIN s = 1..Len(queue[d])-b
      /\ \A j \in 1..Len(queue[d])-b : s[j] = queue[d][j + b]
  <2>1. \A k \in b+1..Len(queue[d]) : queue[d][k] \in Requests
    BY <1>1, ElementOfSeq
  <2>2. b + 1 \in Int /\ Len(queue[d]) \in Int
    BY <1>1
  <2>3. /\ s \in Seq(Requests)
        /\ Len(s) = IF b + 1 <= Len(queue[d]) THEN Len(queue[d]) - (b + 1) + 1 ELSE 0
        /\ \A j \in 1..Len(queue[d])-(b + 1)+1 : s[j] = queue[d][(b + 1) + j - 1]
    BY <1>2, <2>1, <2>2, SubSeqProperties
  <2>4. Len(s) = Len(queue[d]) - b
    BY <1>1, <2>3
  <2>5. DOMAIN s = 1..Len(queue[d])-b
    BY <2>3, <2>4
  <2>6. Len(queue[d]) - (b + 1) + 1 = Len(queue[d]) - b
    BY <1>1
  <2>7. \A j \in 1..Len(queue[d])-b : (b + 1) + j - 1 = j + b
    BY <1>1
  <2>. QED
    BY <2>3, <2>5, <2>6, <2>7
<1>5. \A j \in DOMAIN s : j + b \in Places(d)
  BY <1>1, <1>3, <1>4
<1>6. \A k \in Places(d) : k - b \in DOMAIN s /\ s[k - b] = queue[d][k]
  <2>. TAKE k \in Places(d)
  <2>1. k - b \in 1..Len(queue[d])-b /\ (k - b) + b = k
    BY <1>1, <1>3
  <2>. QED
    BY <1>4, <2>1
<1>7. {r.id : r \in ToSet(s)} = {queue[d][k].id : k \in Places(d)}
  BY <1>4, <1>5, <1>6 DEF ToSet
<1>8. \A j \in DOMAIN s : \E p \in Places(d) : s[j] = queue[d][p] /\ p = j + b
  BY <1>4, <1>5
<1>. QED
  BY <1>7, <1>8 DEF b, s

\* A request is in one place: in hand, in one queue in the order of arrival,
\* or settled, so that one answered with "full" is not carried out as well,
\* for any number of requests and devices and any size of the queues.
THEOREM AccountedAlways == Spec => []Accounted
<1>1. ASSUME IInv
      PROVE  Accounted
  <2>. DEFINE ids(d) == {r.id : r \in ToSet(Pending(d))}
  <2>0. Shape /\ Queued /\ MaxReq \in Nat /\ NULL \notin Requests
    BY <1>1, Q1Assumption DEF IInv
  <2>1. \A d \in Devices : ids(d) = {queue[d][k].id : k \in Places(d)}
    BY <2>0, PendingIsPlaces
  <2>2. \A n \in 1..MaxReq : outcome[n] = "inhand" <=> (req # NULL /\ req.id = n)
    BY <1>1, <2>0 DEF IInv, Numbered, Shape
  <2>3. UNION {ids(d) : d \in Devices} = {n \in 1..MaxReq : outcome[n] = "queued"}
    <3>1. \A d \in Devices : \A k \in Places(d) : queue[d][k].id \in 1..MaxReq
      BY <2>0, PlacesFacts
    <3>2. \A n : n \in UNION {ids(d) : d \in Devices}
                    <=> \E d \in Devices : \E k \in Places(d) : queue[d][k].id = n
      BY <2>1
    <3>3. \A n : n \in {m \in 1..MaxReq : outcome[m] = "queued"}
                    <=> \E d \in Devices : \E k \in Places(d) : queue[d][k].id = n
      BY <2>0, <3>1 DEF Queued
    <3>. HIDE DEF ids
    <3>. QED
      BY <3>2, <3>3
  <2>4. ASSUME NEW d \in Devices, NEW j \in DOMAIN Pending(d), NEW k \in DOMAIN Pending(d),
               j < k
        PROVE  Pending(d)[j].id < Pending(d)[k].id
    <3>. DEFINE b == IF d = 0 THEN i ELSE 0
    <3>1. PICK p \in Places(d) : Pending(d)[j] = queue[d][p] /\ p = j + b
      BY <2>0, PendingIsPlaces
    <3>2. PICK q \in Places(d) : Pending(d)[k] = queue[d][q] /\ q = k + b
      BY <2>0, PendingIsPlaces
    <3>3. b \in Int /\ j \in Int /\ k \in Int
      <4>1. Pending(d) \in Seq(Requests)
        <5>1. queue[d] \in Seq(Requests) /\ queue[0] \in Seq(Requests) /\ i \in Nat
          BY <2>0, Q1Assumption DEF Shape, TypeOK
        <5>2. \A m \in i+1..Len(queue[0]) : queue[0][m] \in Requests
          BY <5>1, ElementOfSeq
        <5>3. i + 1 \in Int /\ Len(queue[0]) \in Int
          BY <5>1
        <5>4. SubSeq(queue[0], i + 1, Len(queue[0])) \in Seq(Requests)
          BY <5>2, <5>3, SubSeqProperties
        <5>. QED
          BY <5>1, <5>4 DEF Pending
      <4>2. i \in Int
        BY <2>0, Q1Assumption DEF Shape, TypeOK
      <4>3. DOMAIN Pending(d) \subseteq Int
        BY <4>1
      <4>. QED
        BY <4>2, <4>3
    <3>4. p < q
      BY <2>4, <3>1, <3>2, <3>3
    <3>. QED
      BY <2>0, <3>1, <3>2, <3>4 DEF Queued
  <2>5. \A d, e \in Devices : d # e => ids(d) \cap ids(e) = {}
    <3>. SUFFICES ASSUME NEW d \in Devices, NEW e \in Devices,
                         NEW n \in ids(d), n \in ids(e)
                  PROVE  d = e
      OBVIOUS
    <3>. HIDE DEF ids
    <3>1. PICK j \in Places(d) : queue[d][j].id = n
      BY <2>1
    <3>2. PICK k \in Places(e) : queue[e][k].id = n
      BY <2>1
    <3>. QED
      BY <2>0, <3>1, <3>2 DEF Queued
  <2>. QED
    BY <2>2, <2>3, <2>4, <2>5 DEF Accounted
<1>. QED
  BY <1>1, Inductive, PTL

\* The nodes search_list walks without having read the head under the mutex
\* are all in the list still, however many results were added meanwhile.
THEOREM SearchSafeAlways == Spec => []SearchSafe
<1>1. ASSUME Init
      PROVE  SearchSafe
  BY <1>1 DEF Init, SearchSafe
<1>2. ASSUME IInv, SearchSafe, [Next]_vars
      PROVE  SearchSafe'
  <2>. Shape
    BY <1>2 DEF IInv
  <2>1. ASSUME NEW result \in Texts, Exchange(result)
        PROVE  SearchSafe'
    <3>1. seen' = seen
      BY <2>1 DEF Exchange
    <3>. QED
      BY <1>2, <2>1, <3>1, ExchangeShape DEF SearchSafe
  <2>2. CASE GrowOld
    <3>1. seen' = seen
      BY <2>2 DEF GrowOld
    <3>. QED
      BY <1>2, <2>2, <3>1, GrowOldShape DEF SearchSafe
  <2>3. ASSUME list' = list, seen' \in {seen, list, <<>>}
        PROVE  SearchSafe'
    BY <1>2, <2>3 DEF SearchSafe
  <2>4. CASE UNCHANGED vars
    BY <2>3, <2>4 DEF vars
  <2>5. ASSUME NEW d \in Devices, NEW t \in Texts, Receive(d, t)
        PROVE  SearchSafe'
    BY <2>3, <2>5 DEF Receive
  <2>6. CASE Refuse \/ Dump \/ Search \/ Insert \/ WaitForRoom \/ TimeOut \/ Full
    BY <2>3, <2>6 DEF Refuse, Dump, Search, Insert, WaitForRoom, TimeOut, Full
  <2>7. CASE WaitForWork \/ Begin \/ Clear \/ Awake \/ SpuriousWakeup
    BY <2>3, <2>7 DEF WaitForWork, Begin, Clear, Awake, SpuriousWakeup
  <2>. QED
    BY <1>2, <2>1, <2>2, <2>4, <2>5, <2>6, <2>7 DEF Next
<1>. QED
  BY <1>1, <1>2, Inductive, PTL DEF Spec
=============================================================================
