--------------------------- MODULE LinkTimeProofs ---------------------------
(***************************************************************************)
(* Proofs about LinkTime, for any clients, messages, queue size and aging  *)
(* time: every request is in one place until it is answered, once, and the *)
(* list of responses neither doubles a message nor forgets a young one.    *)
(***************************************************************************)
EXTENDS LinkTime, TLAPS, FiniteSetTheorems, SequenceTheorems

Owed == {c \in Clients : owed[c] # NULL}

\* The places of the requests that the worker has not answered yet.
Places == i+1..Len(queue)

\* A request is in the main thread's hands from recvfrom on, and the worker's
\* index is back at 0 whenever queue_mutex is free.
Shape ==
    /\ TypeOK
    /\ mpc = "receiving" <=> req = NULL
    /\ QueueFree => i = 0
    /\ wpc = "remembering" => i < Len(queue)

\* What each client awaits is what its request asks for.
Asked ==
    /\ \A k \in Places : owed[queue[k].client] = queue[k].data
    /\ req # NULL => owed[req.client] = req.data

\* No client has two requests.
OneEach ==
    /\ \A j, k \in Places : queue[j].client = queue[k].client => j = k
    /\ req # NULL => \A k \in Places : queue[k].client # req.client

\* Every client that awaits an answer has a request.
Present ==
    \A c \in Owed : \/ \E k \in Places : queue[k].client = c
                    \/ req # NULL /\ req.client = c

Counted == Cardinality(Owed) = Len(queue) - i + IF req = NULL THEN 0 ELSE 1

Requested == Asked /\ OneEach /\ Present /\ Counted

\* What the worker has not found is not listed while it decides: only the
\* worker inserts, and the batch is its own.
NotFound ==
    wpc = "remembering" /\ ~found => ~Listed(Response(queue[i+1].data))

IInv == Shape /\ Requested /\ OneNodePerMessage /\ NotFound

-----------------------------------------------------------------------------
(* The operations on the list.                                             *)

\* The aging thread keeps every node that is not too old, once.
LEMMA AgingKeeps ==
    ASSUME list \in Seq(Nodes), aging_list
    PROVE  /\ list' \in Seq(Nodes)
           /\ \E place \in [DOMAIN list' -> DOMAIN list] :
                 /\ \A k \in DOMAIN list' : list'[k] = list[place[k]]
                 /\ \A j, k \in DOMAIN list' : place[j] = place[k] => j = k
                 /\ \A n \in Kept : \E k \in DOMAIN list' : place[k] = n
<1>. DEFINE size == Cardinality(Kept)
<1>1. DOMAIN list = 1..Len(list) /\ Len(list) \in Nat /\ Kept \subseteq DOMAIN list
  BY DEF Kept
<1>2. IsFiniteSet(Kept) /\ size \in Nat
  <2>1. IsFiniteSet(1..Len(list))
    BY <1>1, FS_Interval
  <2>. QED
    BY <1>1, <2>1, FS_Subset, FS_CardinalityType
<1>3. PICK place \in [1..size -> Kept] :
         /\ \A j, k \in DOMAIN place : j < k => place[j] < place[k]
         /\ list' = [k \in DOMAIN place |-> list[place[k]]]
  BY DEF aging_list
<1>. HIDE DEF size
<1>4. \A j, k \in 1..size : place[j] = place[k] => j = k
  <2>. TAKE j, k \in 1..size
  <2>1. place[j] \in Int /\ place[k] \in Int
    BY <1>1
  <2>2. j < k => place[j] < place[k]
    BY <1>3
  <2>3. k < j => place[k] < place[j]
    BY <1>3
  <2>. QED
    BY <1>2, <2>1, <2>2, <2>3
<1>5. \A n \in Kept : \E k \in 1..size : place[k] = n
  <2>1. place \in Injection(1..size, Kept)
    BY <1>4 DEF Injection, IsInjective
  <2>2. Cardinality(1..size) = size
    BY <1>2, FS_Interval
  <2>3. place \in Surjection(1..size, Kept)
    BY <1>2, <2>1, <2>2, FS_Injection DEF size
  <2>. QED
    BY <2>3 DEF Surjection
<1>6. DOMAIN list' = 1..size /\ \A k \in 1..size : list'[k] = list[place[k]]
  BY <1>3
<1>7. \A k \in 1..size : list[place[k]] \in Nodes
  BY <1>1
<1>8. list' \in Seq(Nodes)
  BY <1>2, <1>3, <1>7
<1>9. place \in [DOMAIN list' -> DOMAIN list]
  BY <1>1, <1>6
<1>10. /\ \A k \in DOMAIN list' : list'[k] = list[place[k]]
       /\ \A j, k \in DOMAIN list' : place[j] = place[k] => j = k
       /\ \A n \in Kept : \E k \in DOMAIN list' : place[k] = n
  BY <1>4, <1>5, <1>6
<1>. QED
  BY <1>8, <1>9, <1>10, Zenon

\* The list holds no message that it did not hold, and none twice.
NoneNew ==
    /\ list' \in Seq(Nodes)
    /\ \A m \in Msgs : Listed(m)' => Listed(m)
    /\ OneNodePerMessage => OneNodePerMessage'

LEMMA AgingNoneNew ==
    ASSUME list \in Seq(Nodes), aging_list
    PROVE  NoneNew
<1>1. PICK place \in [DOMAIN list' -> DOMAIN list] :
         /\ \A k \in DOMAIN list' : list'[k] = list[place[k]]
         /\ \A j, k \in DOMAIN list' : place[j] = place[k] => j = k
  BY AgingKeeps
<1>2. \A m \in Msgs : Listed(m)' => Listed(m)
  BY <1>1 DEF Listed
<1>3. OneNodePerMessage => OneNodePerMessage'
  BY <1>1 DEF OneNodePerMessage
<1>. QED
  BY <1>2, <1>3, AgingKeeps DEF NoneNew

\* The clock and a reset change ages alone.
LEMMA AgesNoneNew ==
    ASSUME list' \in Seq(Nodes), DOMAIN list' = DOMAIN list,
           \A k \in DOMAIN list : list'[k].data = list[k].data
    PROVE  NoneNew
  BY DEF NoneNew, Listed, OneNodePerMessage

LEMMA Redated ==
    ASSUME NEW node \in Nodes, NEW age \in 0..MaxAge+1
    PROVE  /\ [node EXCEPT !.age = age] \in Nodes
           /\ [node EXCEPT !.age = age].data = node.data
  BY DEF Nodes

LEMMA TickAges ==
    ASSUME list \in Seq(Nodes), Tick
    PROVE  /\ list' \in Seq(Nodes) /\ DOMAIN list' = DOMAIN list
           /\ \A k \in DOMAIN list : list'[k].data = list[k].data
<1>. AGING_TIME \in Nat /\ MaxAge \in Nat
  BY LinkTimeAssumption DEF MaxAge
<1>1. \A k \in DOMAIN list :
         /\ list'[k] = [list[k] EXCEPT !.age = Older(@)]
         /\ list[k] \in Nodes
  BY DEF Tick
<1>2. \A age \in 0..MaxAge+1 : Older(age) \in 0..MaxAge+1
  BY DEF Older
<1>3. \A k \in DOMAIN list : list'[k] \in Nodes /\ list'[k].data = list[k].data
  <2>. TAKE k \in DOMAIN list
  <2>1. list[k] \in Nodes /\ list[k].age \in 0..MaxAge+1
    BY <1>1 DEF Nodes
  <2>2. list'[k] = [list[k] EXCEPT !.age = Older(list[k].age)]
    BY <1>1
  <2>3. Older(list[k].age) \in 0..MaxAge+1
    BY <1>2, <2>1
  <2>. HIDE DEF Nodes, Older
  <2>. QED
    BY <2>1, <2>2, <2>3, Redated
<1>4. DOMAIN list' = DOMAIN list /\ DOMAIN list = 1..Len(list) /\ Len(list) \in Nat
  BY DEF Tick
<1>. QED
  BY <1>3, <1>4 DEF Tick

LEMMA ResetAges ==
    ASSUME list \in Seq(Nodes), NEW m \in Msgs, reset_aging_time(m)
    PROVE  /\ list' \in Seq(Nodes) /\ DOMAIN list' = DOMAIN list
           /\ \A k \in DOMAIN list : list'[k].data = list[k].data
<1>1. CASE UNCHANGED list
  BY <1>1
<1>2. ASSUME NEW k \in DOMAIN list, list' = [list EXCEPT ![k].age = 0]
      PROVE  /\ list' \in Seq(Nodes) /\ DOMAIN list' = DOMAIN list
             /\ \A n \in DOMAIN list : list'[n].data = list[n].data
  <2>. AGING_TIME \in Nat /\ MaxAge \in Nat
    BY LinkTimeAssumption DEF MaxAge
  <2>. DEFINE node == [list[k] EXCEPT !.age = 0]
  <2>1. list[k] \in Nodes /\ node \in Nodes /\ node.data = list[k].data
    BY Redated
  <2>2. list' = [list EXCEPT ![k] = node]
    BY <1>2
  <2>. HIDE DEF node
  <2>. QED
    BY <2>1, <2>2
<1>. QED
  BY <1>1, <1>2 DEF reset_aging_time

\* The node of an inserted message is put before the others.
LEMMA InsertAdds ==
    ASSUME list \in Seq(Nodes), NEW m \in Msgs, insert_list(m)
    PROVE  /\ list' \in Seq(Nodes)
           /\ OneNodePerMessage /\ ~Listed(m) => OneNodePerMessage'
           /\ \A k \in DOMAIN list :
                 k + 1 \in DOMAIN list' /\ list'[k+1].data = list[k].data
<1>. AGING_TIME \in Nat /\ MaxAge \in Nat
  BY LinkTimeAssumption DEF MaxAge
<1>. DEFINE node == [data |-> m, age |-> 0]
<1>1. node \in Nodes /\ node.data = m /\ list' = <<node>> \o list
  BY DEF Nodes, insert_list
<1>. HIDE DEF node
<1>2. /\ list' \in Seq(Nodes) /\ Len(list') = Len(list) + 1 /\ Len(list) \in Nat
      /\ list'[1] = node /\ \A k \in 1..Len(list) : list'[k+1] = list[k]
  BY <1>1
<1>3. \A k \in DOMAIN list' : k = 1 \/ (k - 1 \in DOMAIN list /\ list'[k] = list[k-1])
  <2>. TAKE k \in DOMAIN list'
  <2>. k \in 1..Len(list)+1
    BY <1>2
  <2>. SUFFICES ASSUME k # 1 PROVE k - 1 \in DOMAIN list /\ list'[k] = list[k-1]
    OBVIOUS
  <2>1. k - 1 \in 1..Len(list) /\ k = (k - 1) + 1
    BY <1>2
  <2>. QED
    BY <1>2, <2>1
<1>4. ASSUME OneNodePerMessage, ~Listed(m) PROVE OneNodePerMessage'
  <2>. SUFFICES ASSUME NEW j \in DOMAIN list', NEW k \in DOMAIN list',
                       list'[j].data = list'[k].data
                PROVE  j = k
    BY DEF OneNodePerMessage
  <2>1. \A n \in DOMAIN list : list[n].data # m
    BY <1>4 DEF Listed
  <2>2. j \in Int /\ k \in Int
    BY <1>2
  <2>3. CASE j = 1
    BY <1>1, <1>2, <1>3, <2>1, <2>3
  <2>4. CASE k = 1
    BY <1>1, <1>2, <1>3, <2>1, <2>4
  <2>5. CASE j # 1 /\ k # 1
    <3>1. j - 1 = k - 1
      BY <1>3, <1>4, <2>5 DEF OneNodePerMessage
    <3>. QED
      BY <2>2, <3>1
  <2>. QED
    BY <2>3, <2>4, <2>5
<1>. QED
  BY <1>2, <1>4

-----------------------------------------------------------------------------
(* The clients that await an answer.                                       *)

LEMMA OwedFinite ==
    ASSUME TypeOK
    PROVE  IsFiniteSet(Owed) /\ Cardinality(Owed) \in Nat
  BY LinkTimeAssumption, FS_Subset, FS_CardinalityType DEF Owed

LEMMA OneMoreOwed ==
    ASSUME TypeOK, NEW c \in Clients, NEW m \in Msgs, owed[c] = NULL,
           owed' = [owed EXCEPT ![c] = m]
    PROVE  Owed' = Owed \cup {c} /\ Cardinality(Owed') = Cardinality(Owed) + 1
<1>. NULL \notin Msgs
  BY LinkTimeAssumption
<1>1. Owed' = Owed \cup {c} /\ c \notin Owed
  BY DEF TypeOK, Owed
<1>. QED
  BY <1>1, OwedFinite, FS_AddElement

LEMMA OneLessOwed ==
    ASSUME TypeOK, NEW c \in Owed, owed' = [owed EXCEPT ![c] = NULL]
    PROVE  Owed' = Owed \ {c} /\ Cardinality(Owed') = Cardinality(Owed) - 1
<1>1. Owed' = Owed \ {c}
  BY DEF TypeOK, Owed
<1>. QED
  BY <1>1, OwedFinite, FS_RemoveElement

\* The client of a request that is queued or in hand awaits an answer.
LEMMA RequestsOwed ==
    ASSUME Shape, Asked
    PROVE  /\ \A k \in Places : queue[k] \in Requests /\ queue[k].client \in Owed
           /\ req # NULL => req \in Requests /\ req.client \in Owed
<1>. NULL \notin Msgs
  BY LinkTimeAssumption
<1>1. \A k \in Places : queue[k] \in Requests
  BY DEF Shape, TypeOK, Places
<1>2. req # NULL => req \in Requests
  BY DEF Shape, TypeOK
<1>. QED
  BY <1>1, <1>2 DEF Asked, Owed, Requests

-----------------------------------------------------------------------------
(* What each step does to the requests.                                    *)

LEMMA RequestedStutters ==
    ASSUME Requested, UNCHANGED <<owed, req, queue, i>>
    PROVE  Requested'
  BY DEF Requested, Asked, OneEach, Present, Counted, Places, Owed

LEMMA ReceiveRequested ==
    ASSUME Shape, Requested, NEW c \in Clients, NEW m \in Msgs, Receive(c, m)
    PROVE  Requested'
<1>. USE DEF Requested
<1>1. /\ owed \in [Clients -> Msgs \cup {NULL}] /\ owed[c] = NULL
      /\ owed' = [owed EXCEPT ![c] = m]
      /\ req = NULL /\ req' = [client |-> c, data |-> m]
      /\ UNCHANGED <<queue, i>> /\ Places' = Places
  BY DEF Receive, workvars, Shape, TypeOK, Places
<1>2. req' \in Requests /\ req' # NULL
  BY <1>1, LinkTimeAssumption DEF Requests
<1>3. \A k \in Places : queue[k].client \in Clients /\ queue[k].client # c
  BY <1>1, RequestsOwed DEF Owed
<1>4. Asked'
  BY <1>1, <1>3 DEF Asked
<1>5. OneEach'
  BY <1>1, <1>3 DEF OneEach
<1>6. Owed' = Owed \cup {c} /\ Cardinality(Owed') = Cardinality(Owed) + 1
  BY <1>1, OneMoreOwed DEF Shape
<1>7. Present'
  BY <1>1, <1>2, <1>6 DEF Present
<1>8. Counted'
  <2>1. i \in Int /\ Len(queue) \in Nat
    BY DEF Shape, TypeOK
  <2>. QED
    BY <1>1, <1>2, <1>6, <2>1 DEF Counted
<1>. QED
  BY <1>4, <1>5, <1>7, <1>8

LEMMA MainAnswersRequested ==
    ASSUME Shape, Requested, req # NULL, MainAnswers, UNCHANGED <<queue, i>>
    PROVE  Requested'
<1>. USE DEF Requested
<1>1. /\ owed \in [Clients -> Msgs \cup {NULL}]
      /\ owed' = [owed EXCEPT ![req.client] = NULL]
      /\ req' = NULL /\ Places' = Places
  BY DEF MainAnswers, Shape, TypeOK, Places
<1>2. req \in Requests /\ req.client \in Owed
  BY RequestsOwed
<1>3. \A k \in Places : queue[k].client \in Owed /\ queue[k].client # req.client
  BY RequestsOwed DEF OneEach
<1>4. Asked'
  BY <1>1, <1>3 DEF Asked, Owed
<1>5. OneEach'
  BY <1>1 DEF OneEach
<1>6. Owed' = Owed \ {req.client} /\ Cardinality(Owed') = Cardinality(Owed) - 1
  BY <1>1, <1>2, OneLessOwed DEF Shape
<1>7. Present'
  BY <1>1, <1>6 DEF Present
<1>8. Counted'
  <2>1. i \in Int /\ Len(queue) \in Nat
    BY DEF Shape, TypeOK
  <2>. QED
    BY <1>1, <1>6, <2>1 DEF Counted
<1>. QED
  BY <1>4, <1>5, <1>7, <1>8

\* The request in hand takes the last place.
LEMMA InsertRequested ==
    ASSUME Shape, Requested, req # NULL, Insert
    PROVE  Requested'
<1>. USE DEF Requested
<1>1. /\ owed' = owed /\ req' = NULL /\ i = 0 /\ i' = i
      /\ queue \in Seq(Requests) /\ queue' = Append(queue, req)
  BY DEF Insert, Shape, TypeOK
<1>2. req \in Requests /\ req.client \in Owed
  BY RequestsOwed
<1>3. /\ Len(queue) \in Nat /\ Len(queue') = Len(queue) + 1
      /\ queue'[Len(queue) + 1] = req
      /\ \A k \in Places : queue'[k] = queue[k]
      /\ Places = 1..Len(queue) /\ Places' = 1..Len(queue)+1
  BY <1>1, <1>2 DEF Places
<1>4. \A k \in Places' : k \in Places \/ k = Len(queue) + 1
  BY <1>3
<1>5. Asked'
  BY <1>1, <1>3, <1>4 DEF Asked
<1>6. OneEach'
  BY <1>1, <1>3, <1>4 DEF OneEach
<1>7. Present'
  <2>. SUFFICES ASSUME NEW c \in Owed
                PROVE  \E k \in Places' : queue'[k].client = c
    BY <1>1 DEF Present, Owed
  <2>1. CASE \E k \in Places : queue[k].client = c
    BY <1>3, <2>1
  <2>2. CASE req.client = c
    <3>1. Len(queue) + 1 \in Places'
      BY <1>3
    <3>. QED
      BY <1>3, <2>2, <3>1
  <2>. QED
    BY <2>1, <2>2 DEF Present
<1>8. Counted'
  BY <1>1, <1>3 DEF Counted, Owed
<1>. QED
  BY <1>5, <1>6, <1>7, <1>8

\* The worker answers the first request that it has not answered.
LEMMA AnswerRequested ==
    ASSUME Shape, Requested, Answer
    PROVE  Requested'
<1>. USE DEF Requested
<1>. DEFINE c == queue[i+1].client
<1>1. /\ i \in Nat /\ Len(queue) \in Nat /\ i < Len(queue)
      /\ owed \in [Clients -> Msgs \cup {NULL}]
      /\ owed' = [owed EXCEPT ![c] = NULL]
      /\ i' = i + 1 /\ UNCHANGED <<queue, req>>
  BY DEF Answer, Shape, TypeOK
<1>2. i + 1 \in Places /\ Places' = Places \ {i + 1}
  BY <1>1 DEF Places
<1>3. c \in Owed
  BY <1>2, RequestsOwed
<1>4. \A k \in Places' : queue[k].client \in Owed /\ queue[k].client # c
  BY <1>2, RequestsOwed DEF OneEach
<1>5. req # NULL => req.client \in Owed /\ req.client # c
  BY <1>2, RequestsOwed DEF OneEach
<1>6. Owed' = Owed \ {c} /\ Cardinality(Owed') = Cardinality(Owed) - 1
  BY <1>1, <1>3, OneLessOwed DEF Shape
<1>. HIDE DEF c
<1>7. Asked'
  BY <1>1, <1>2, <1>4, <1>5 DEF Asked, Owed
<1>8. OneEach'
  BY <1>1, <1>2 DEF OneEach
<1>9. Present'
  <2>. SUFFICES ASSUME NEW d \in Owed, d # c
                PROVE  (\E k \in Places' : queue[k].client = d) \/ (req # NULL /\ req.client = d)
    BY <1>1, <1>6 DEF Present
  <2>. QED
    BY <1>2 DEF Present, c
<1>10. Counted'
  BY <1>1, <1>6 DEF Counted
<1>. QED
  BY <1>7, <1>8, <1>9, <1>10

LEMMA ClearRequested ==
    ASSUME Shape, Requested, Clear
    PROVE  Requested'
<1>. USE DEF Requested
<1>1. /\ i = Len(queue) /\ i' = 0 /\ queue' = <<>> /\ Len(queue) \in Nat
      /\ UNCHANGED <<owed, req>>
  BY DEF Clear, Shape, TypeOK
<1>2. Places = {} /\ Places' = {} /\ Len(queue') = 0
  BY <1>1 DEF Places
<1>3. Asked' /\ OneEach' /\ Present'
  BY <1>1, <1>2 DEF Asked, OneEach, Present, Owed
<1>4. Counted'
  BY <1>1, <1>2 DEF Counted, Owed
<1>. QED
  BY <1>3, <1>4

-----------------------------------------------------------------------------
(* What each step does to the rest.                                        *)

LEMMA ResponseType ==
    ASSUME NEW m \in Msgs
    PROVE  Response(m) \in Msgs
  BY LinkTimeAssumption DEF Response, Msgs

LEMMA Quotients == AGING_TIME \div 2 \in Nat /\ AGING_TIME \div 2 > 0
  BY LinkTimeAssumption

\* Steps that touch neither the queue nor the list.
LEMMA MainShape ==
    ASSUME Shape, (\E c \in Clients, m \in Msgs : Receive(c, m)) \/ Search
                     \/ WaitForRoom \/ WaitEnds \/ TimeOut
    PROVE  Shape' /\ UNCHANGED <<queue, workvars, listvars>>
<1>. USE DEF Shape, TypeOK, QueueFree, workvars, listvars
<1>1. ASSUME NEW c \in Clients, NEW m \in Msgs, Receive(c, m)
      PROVE  Shape' /\ UNCHANGED <<queue, workvars, listvars>>
  <2>1. [client |-> c, data |-> m] \in Requests /\ [client |-> c, data |-> m] # NULL
    BY LinkTimeAssumption DEF Requests
  <2>. QED
    BY <1>1, <2>1 DEF Receive
<1>2. CASE Search
  BY <1>2 DEF Search, MainAnswers
<1>3. CASE WaitForRoom
  BY <1>3 DEF WaitForRoom
<1>4. CASE WaitEnds
  BY <1>4 DEF WaitEnds
<1>5. CASE TimeOut
  BY <1>5 DEF TimeOut, MainAnswers
<1>. QED
  BY <1>1, <1>2, <1>3, <1>4, <1>5

LEMMA InsertShape ==
    ASSUME Shape, Insert
    PROVE  Shape' /\ UNCHANGED listvars /\ wpc' # "remembering"
<1>1. /\ req \in Requests /\ mpc # "receiving" /\ i = 0
      /\ queue \in Seq(Requests) /\ Len(queue) \in Nat /\ Len(queue) < MAX_QUEUE_SIZE
      /\ MAX_QUEUE_SIZE \in Nat
  BY LinkTimeAssumption DEF Insert, Shape, TypeOK
<1>2. queue' \in Seq(Requests) /\ Len(queue') = Len(queue) + 1
  BY <1>1 DEF Insert
<1>3. wpc' \in {"entering", "waiting", "woken", "sleeping"} /\ i' = 0
  BY <1>1 DEF Insert, QueueFree
<1>4. TypeOK'
  BY <1>1, <1>2, <1>3 DEF Insert, Shape, TypeOK, listvars
<1>. QED
  BY <1>3, <1>4 DEF Insert, Shape, QueueFree, listvars

\* The worker's steps that leave the requests and the list alone.
LEMMA WorkerShape ==
    ASSUME Shape, WaitForWork \/ SpuriousWakeup \/ Begin \/ SearchResponse \/ Awake
    PROVE  Shape' /\ UNCHANGED <<mainvars, queue, i, listvars>>
<1>. Len(queue) \in Nat
  BY DEF Shape, TypeOK
<1>. USE DEF Shape, TypeOK, QueueFree, mainvars, listvars
<1>1. CASE WaitForWork
  BY <1>1 DEF WaitForWork
<1>2. CASE SpuriousWakeup
  BY <1>2 DEF SpuriousWakeup
<1>3. CASE Begin
  BY <1>3 DEF Begin
<1>4. CASE SearchResponse
  BY <1>4 DEF SearchResponse, Listed
<1>5. CASE Awake
  BY <1>5 DEF Awake
<1>. QED
  BY <1>1, <1>2, <1>3, <1>4, <1>5

LEMMA ClearShape ==
    ASSUME Shape, Clear
    PROVE  Shape' /\ UNCHANGED listvars
<1>1. MAX_QUEUE_SIZE \in Nat
  BY LinkTimeAssumption
<1>. QED
  BY <1>1 DEF Clear, Shape, TypeOK, QueueFree, listvars

\* What Answer does to the list, by what the search has said.
LEMMA AnswerList ==
    ASSUME Shape, OneNodePerMessage, NotFound, Answer
    PROVE  list' \in Seq(Nodes) /\ OneNodePerMessage'
<1>. DEFINE m == Response(queue[i+1].data)
<1>1. queue[i+1] \in Requests
  BY DEF Answer, Shape, TypeOK
<1>2. m \in Msgs
  BY <1>1, ResponseType DEF Requests
<1>3. list \in Seq(Nodes) /\ wpc = "remembering"
  BY DEF Answer, Shape, TypeOK
<1>4. CASE found /\ reset_aging_time(m)
  BY <1>2, <1>3, <1>4, ResetAges, AgesNoneNew DEF NoneNew
<1>5. CASE ~found /\ insert_list(m)
  <2>1. ~Listed(m)
    BY <1>3, <1>5 DEF NotFound
  <2>. QED
    BY <1>2, <1>3, <1>5, <2>1, InsertAdds
<1>. QED
  BY <1>4, <1>5 DEF Answer, Remember

LEMMA AnswerShape ==
    ASSUME Shape, OneNodePerMessage, NotFound, Answer
    PROVE  Shape'
<1>1. /\ i \in Nat /\ Len(queue) \in Nat /\ i < Len(queue) /\ i' = i + 1
      /\ wpc' = "searching" /\ UNCHANGED <<mpc, req, queue, found, agingIn>>
  BY DEF Answer, Shape, TypeOK
<1>2. owed' \in [Clients -> Msgs \cup {NULL}]
  BY DEF Answer, Shape, TypeOK
<1>3. TypeOK'
  BY <1>1, <1>2, AnswerList DEF Shape, TypeOK
<1>. QED
  BY <1>1, <1>3 DEF Shape, QueueFree

\* The aging thread and the clock run at any time, also between the worker's
\* search and what it does then.
LEMMA TimeNoneNew ==
    ASSUME Shape, AgingRound \/ Tick
    PROVE  Shape' /\ NoneNew /\ UNCHANGED <<mainvars, queue, workvars>>
<1>1. list \in Seq(Nodes) /\ agingIn \in 0..AGING_TIME \div 2
  BY DEF Shape, TypeOK
<1>2. CASE AgingRound
  <2>1. NoneNew /\ agingIn' = AGING_TIME \div 2
    BY <1>1, <1>2, AgingNoneNew DEF AgingRound
  <2>. QED
    BY <1>2, <2>1, Quotients
       DEF AgingRound, NoneNew, Shape, TypeOK, QueueFree, mainvars, workvars
<1>3. CASE Tick
  <2>1. NoneNew
    BY <1>1, <1>3, TickAges, AgesNoneNew
  <2>2. agingIn' \in 0..AGING_TIME \div 2
    BY <1>1, <1>3, Quotients DEF Tick
  <2>. QED
    BY <1>3, <2>1, <2>2
       DEF Tick, NoneNew, Shape, TypeOK, QueueFree, mainvars, workvars
<1>. QED
  BY <1>2, <1>3

-----------------------------------------------------------------------------
(* IInv is inductive.                                                      *)

LEMMA InvInit == Init => IInv
<1>. SUFFICES ASSUME Init PROVE IInv
  OBVIOUS
<1>. MAX_QUEUE_SIZE \in Nat
  BY LinkTimeAssumption
<1>1. TypeOK
  <2>1. agingIn \in 0..AGING_TIME \div 2
    BY Quotients DEF Init
  <2>2. owed \in [Clients -> Msgs \cup {NULL}] /\ queue \in Seq(Requests) /\ list \in Seq(Nodes)
    BY DEF Init
  <2>3. Len(queue) = 0 /\ i \in 0..Len(queue)
    BY DEF Init
  <2>4. /\ Len(queue) <= MAX_QUEUE_SIZE /\ req \in Requests \cup {NULL}
        /\ mpc = "receiving" /\ wpc = "entering"
    BY <2>3 DEF Init
  <2>5. found \in BOOLEAN
    BY DEF Init
  <2>. QED
    BY <2>1, <2>2, <2>3, <2>4, <2>5 DEF TypeOK
<1>2. Owed = {} /\ Places = {}
  BY DEF Init, Owed, Places
<1>3. Requested
  BY <1>2, FS_EmptySet DEF Init, Requested, Asked, OneEach, Present, Counted
<1>. QED
  BY <1>1, <1>3 DEF Init, IInv, Shape, QueueFree, OneNodePerMessage, NotFound

LEMMA InvNext ==
    ASSUME IInv, [Next]_vars
    PROVE  IInv'
<1>. USE DEF IInv
<1>1. ASSUME (\E c \in Clients, m \in Msgs : Receive(c, m)) \/ Search
                \/ WaitForRoom \/ WaitEnds \/ TimeOut
      PROVE  IInv'
  <2>1. Shape' /\ UNCHANGED <<queue, workvars, listvars>>
    BY <1>1, MainShape
  <2>2. OneNodePerMessage' /\ NotFound'
    BY <2>1 DEF OneNodePerMessage, NotFound, Listed, workvars, listvars
  <2>3. Requested'
    <3>1. ASSUME NEW c \in Clients, NEW m \in Msgs, Receive(c, m)
          PROVE  Requested'
      BY <3>1, ReceiveRequested
    <3>2. CASE MainAnswers /\ mpc # "receiving"
      BY <2>1, <3>2, MainAnswersRequested DEF Shape, workvars
    <3>3. CASE UNCHANGED <<owed, req>>
      BY <2>1, <3>3, RequestedStutters DEF workvars
    <3>. QED
      BY <1>1, <3>1, <3>2, <3>3 DEF Search, WaitForRoom, WaitEnds, TimeOut
  <2>. QED
    BY <2>1, <2>2, <2>3
<1>2. CASE Insert
  <2>1. Requested'
    BY <1>2, InsertRequested DEF Insert, Shape
  <2>2. OneNodePerMessage' /\ NotFound'
    BY <1>2, InsertShape DEF OneNodePerMessage, NotFound, listvars
  <2>. QED
    BY <1>2, <2>1, <2>2, InsertShape
<1>3. ASSUME WaitForWork \/ SpuriousWakeup \/ Begin \/ SearchResponse \/ Awake
      PROVE  IInv'
  <2>1. Shape' /\ UNCHANGED <<mainvars, queue, i, listvars>>
    BY <1>3, WorkerShape
  <2>2. Requested' /\ OneNodePerMessage'
    BY <2>1, RequestedStutters DEF mainvars, listvars, OneNodePerMessage
  <2>3. NotFound'
    BY <1>3, <2>1 DEF NotFound, Listed, WaitForWork, SpuriousWakeup, Begin,
                      SearchResponse, Awake, listvars
  <2>. QED
    BY <2>1, <2>2, <2>3
<1>4. CASE Answer
  <2>1. NotFound'
    BY <1>4 DEF Answer, NotFound
  <2>. QED
    BY <1>4, <2>1, AnswerShape, AnswerList, AnswerRequested
<1>5. CASE Clear
  <2>1. OneNodePerMessage' /\ NotFound'
    BY <1>5, ClearShape DEF Clear, NotFound, OneNodePerMessage, listvars
  <2>. QED
    BY <1>5, <2>1, ClearShape, ClearRequested
<1>6. CASE AgingRound \/ Tick
  <2>1. Shape' /\ NoneNew /\ UNCHANGED <<mainvars, queue, workvars>>
    BY <1>6, TimeNoneNew
  <2>2. Requested'
    BY <2>1, RequestedStutters DEF mainvars, workvars
  <2>3. OneNodePerMessage'
    BY <2>1 DEF NoneNew
  <2>4. NotFound'
    <3>. SUFFICES ASSUME wpc = "remembering", ~found
                  PROVE  ~Listed(Response(queue[i+1].data))'
      BY <2>1 DEF NotFound, workvars
    <3>1. PICK m \in Msgs : m = Response(queue[i+1].data)
      <4>1. i + 1 \in 1..Len(queue) /\ queue \in Seq(Requests)
        BY DEF Shape, TypeOK
      <4>2. queue[i+1] \in Requests
        BY <4>1
      <4>3. queue[i+1].data \in Msgs
        BY <4>2 DEF Requests
      <4>. QED
        BY <4>3, ResponseType
    <3>2. ~Listed(m)'
      BY <2>1, <3>1 DEF NotFound, NoneNew
    <3>3. Response(queue[i+1].data)' = m
      BY <2>1, <3>1 DEF workvars
    <3>. QED
      BY <3>2, <3>3 DEF Listed
  <2>. QED
    BY <2>1, <2>2, <2>3, <2>4
<1>7. CASE UNCHANGED vars
  BY <1>7, RequestedStutters DEF vars, Shape, TypeOK, QueueFree, OneNodePerMessage,
                                 NotFound, Listed
<1>. QED
  BY <1>1, <1>2, <1>3, <1>4, <1>5, <1>6, <1>7 DEF Next

LEMMA InvAlways == Spec => []IInv
<1>. QED
  BY InvInit, InvNext, PTL DEF Spec

\* The queue never holds more than MAX_QUEUE_SIZE requests and the worker never
\* reads beyond them, for any clients, messages and queue size.
THEOREM TypeCorrect == Spec => []TypeOK
<1>1. IInv => TypeOK
  BY DEF IInv, Shape
<1>. QED
  BY <1>1, InvAlways, PTL

-----------------------------------------------------------------------------
(* Accounted, in terms of the places.                                      *)

LEMMA UnansweredPlaces ==
    ASSUME Shape
    PROVE  /\ Len(Unanswered) = Len(queue) - i + IF req = NULL THEN 0 ELSE 1
           /\ ToSet(Unanswered) =
                 {queue[k] : k \in Places} \cup (IF req = NULL THEN {} ELSE {req})
<1>. DEFINE rest == SubSeq(queue, i + 1, Len(queue))
            last == IF req = NULL THEN <<>> ELSE <<req>>
<1>1. /\ queue \in Seq(Requests) /\ Len(queue) \in Nat /\ i \in Nat /\ i <= Len(queue)
      /\ req \in Requests \cup {NULL}
  BY DEF Shape, TypeOK
<1>2. /\ rest \in Seq(Requests) /\ Len(rest) = Len(queue) - i
      /\ \A k \in 1..Len(queue)-i : rest[k] = queue[k+i]
  BY <1>1
<1>3. /\ last \in Seq(Requests) /\ Len(last) = IF req = NULL THEN 0 ELSE 1
      /\ req # NULL => last[1] = req
  BY <1>1
<1>. HIDE DEF rest, last
<1>4. Unanswered = rest \o last
  BY DEF Unanswered, rest, last
<1>5. Len(Unanswered) = Len(queue) - i + IF req = NULL THEN 0 ELSE 1
  BY <1>1, <1>2, <1>3, <1>4
<1>6. DOMAIN Unanswered = 1..Len(Unanswered)
  BY <1>2, <1>3, <1>4
<1>7. \A k \in 1..Len(queue)-i : k \in DOMAIN Unanswered /\ Unanswered[k] = queue[k+i]
  BY <1>1, <1>2, <1>3, <1>4, <1>5, <1>6
<1>8. req # NULL => /\ Len(queue) - i + 1 \in DOMAIN Unanswered
                    /\ Unanswered[Len(queue) - i + 1] = req
  BY <1>1, <1>2, <1>3, <1>4, <1>5, <1>6
<1>9. \A k \in DOMAIN Unanswered :
         \/ k \in 1..Len(queue)-i
         \/ req # NULL /\ k = Len(queue) - i + 1
  BY <1>1, <1>5, <1>6
<1>10. \A r \in ToSet(Unanswered) :
          r \in {queue[k] : k \in Places} \/ (req # NULL /\ r = req)
  <2>. SUFFICES ASSUME NEW k \in DOMAIN Unanswered
                PROVE  \/ Unanswered[k] \in {queue[n] : n \in Places}
                       \/ req # NULL /\ Unanswered[k] = req
    BY DEF ToSet
  <2>1. CASE k \in 1..Len(queue)-i
    <3>1. k + i \in Places
      BY <1>1, <2>1 DEF Places
    <3>. QED
      BY <1>7, <2>1, <3>1
  <2>. QED
    BY <1>8, <1>9, <2>1
<1>11. \A k \in Places : queue[k] \in ToSet(Unanswered)
  <2>. TAKE k \in Places
  <2>1. k - i \in 1..Len(queue)-i /\ (k - i) + i = k
    BY <1>1 DEF Places
  <2>2. k - i \in DOMAIN Unanswered /\ Unanswered[k-i] = queue[k]
    BY <1>7, <2>1
  <2>. QED
    BY <2>2 DEF ToSet
<1>12. req # NULL => req \in ToSet(Unanswered)
  BY <1>8 DEF ToSet
<1>. QED
  BY <1>5, <1>10, <1>11, <1>12

\* Whatever the timeout races with, every client that awaits an answer has its
\* request, with its message, in exactly one place, and an answered client has
\* none: for any clients, messages and queue size.
THEOREM AccountedAlways == Spec => []Accounted
<1>1. ASSUME IInv PROVE Accounted
  <2>. USE <1>1 DEF IInv, Requested
  <2>1. Len(Unanswered) = Cardinality({c \in Clients : owed[c] # NULL})
    BY UnansweredPlaces DEF Counted, Owed
  <2>2. ASSUME NEW r \in {queue[k] : k \in Places} \cup (IF req = NULL THEN {} ELSE {req})
        PROVE  r \in Requests /\ owed[r.client] = r.data
    BY RequestsOwed DEF Asked
  <2>3. ASSUME NEW r \in Requests, owed[r.client] = r.data
        PROVE  r \in {queue[k] : k \in Places} \cup (IF req = NULL THEN {} ELSE {req})
    <3>. NULL \notin Msgs
      BY LinkTimeAssumption
    <3>1. r.client \in Owed /\ r = [client |-> r.client, data |-> r.data]
      BY <2>3 DEF Owed, Requests
    <3>2. ASSUME NEW k \in Places, queue[k].client = r.client
          PROVE  queue[k] = r
      <4>1. queue[k] \in Requests /\ queue[k].data = r.data
        BY <2>3, <3>2, RequestsOwed DEF Asked
      <4>. QED
        BY <3>2, <4>1 DEF Requests
    <3>3. ASSUME req # NULL, req.client = r.client
          PROVE  req = r
      <4>1. req \in Requests /\ req.data = r.data
        BY <2>3, <3>3, RequestsOwed DEF Asked
      <4>. QED
        BY <3>3, <4>1 DEF Requests
    <3>. QED
      BY <3>1, <3>2, <3>3 DEF Present
  <2>4. ToSet(Unanswered) = {r \in Requests : owed[r.client] = r.data}
    BY <2>2, <2>3, UnansweredPlaces
  <2>. QED
    BY <2>1, <2>4 DEF Accounted
<1>. QED
  BY <1>1, InvAlways, PTL

\* The list has one node for a message, although the aging thread may run
\* between the worker's search and its insertion: for any messages and any
\* aging time, odd ones included.
THEOREM OneNodeAlways == Spec => []OneNodePerMessage
<1>1. IInv => OneNodePerMessage
  BY DEF IInv
<1>. QED
  BY <1>1, InvAlways, PTL

\* A node leaves the list only when it is older than AGING_TIME, in whatever
\* order the resets have left the ages.
THEOREM OnlyOldForgottenAlways == Spec => OnlyOldForgotten
<1>. DEFINE Remembered ==
        \A k \in DOMAIN list :
           list[k].age <= AGING_TIME => \E j \in DOMAIN list' : list'[j].data = list[k].data
<1>1. ASSUME IInv, [Next]_vars PROVE [Remembered]_list
  <2>1. list \in Seq(Nodes)
    BY <1>1 DEF IInv, Shape, TypeOK
  <2>2. CASE aging_list
    <3>1. PICK place \in [DOMAIN list' -> DOMAIN list] :
             /\ \A k \in DOMAIN list' : list'[k] = list[place[k]]
             /\ \A n \in Kept : \E k \in DOMAIN list' : place[k] = n
      BY <2>1, <2>2, AgingKeeps
    <3>. QED
      BY <3>1 DEF Kept
  <2>3. CASE Tick
    BY <2>1, <2>3, TickAges
  <2>4. CASE Answer
    <3>. DEFINE m == Response(queue[i+1].data)
    <3>1. m \in Msgs
      <4>1. queue[i+1] \in Requests
        BY <1>1, <2>4 DEF Answer, IInv, Shape, TypeOK
      <4>. QED
        BY <4>1, ResponseType DEF Requests
    <3>2. reset_aging_time(m) \/ insert_list(m)
      BY <2>4 DEF Answer, Remember
    <3>. HIDE DEF m
    <3>3. CASE reset_aging_time(m)
      BY <2>1, <3>1, <3>3, ResetAges
    <3>4. CASE insert_list(m)
      BY <2>1, <3>1, <3>4, InsertAdds
    <3>. QED
      BY <3>2, <3>3, <3>4
  <2>5. CASE UNCHANGED list
    BY <2>5
  <2>6. aging_list \/ Tick \/ Answer \/ UNCHANGED list
    BY <1>1 DEF Next, vars, listvars, Receive, Search, Insert, WaitForRoom, WaitEnds, TimeOut,
                WaitForWork, SpuriousWakeup, Begin, SearchResponse, Clear, Awake, AgingRound
  <2>. QED
    BY <2>2, <2>3, <2>4, <2>5, <2>6
<1>. QED
  BY <1>1, InvAlways, PTL DEF Spec, OnlyOldForgotten
=============================================================================
