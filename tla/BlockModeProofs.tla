--------------------------- MODULE BlockModeProofs ---------------------------
(***************************************************************************)
(* Proofs about BlockMode, for every size of the ring and the kernel's     *)
(* queue and any number of datagrams, starts and failures.                 *)
(***************************************************************************)
EXTENDS BlockMode, TLAPS, SequenceTheorems

Data == 1..MaxSend

\* Before the threads run nothing has been handled, while they run there is a
\* descriptor, and after a stop nothing is left but the socket's file.
Phases ==
    /\ phase = "running" => fd # "none"
    /\ phase # "running" => server = "none" /\ fd = "none" /\ handled = <<>> /\ line = <<>>
    /\ phase = "stopped" => input = 0

\* As long as the descriptor is good whatever was handled was written.
LineShape ==
    /\ fd = "ok" => line = handled
    /\ Len(line) <= Len(handled) /\ NoGapOnLine

IInv == TypeOK /\ Phases /\ LineShape /\ InOrder
-----------------------------------------------------------------------------
LEMMA Bounds ==
    /\ QUEUE_SIZE \in Nat \ {0} /\ SOCK_BACKLOG \in Nat \ {0} /\ MaxSend \in Nat \ {0}
    /\ MaxSay \in Nat \ {0} /\ MaxStarts \in Nat \ {0} /\ NULL \notin Data
<1>. QED
  BY BlockModeAssumption DEF Data

LEMMA Associative ==
    \A a, b, c \in Seq(Data) : (a \o b) \o c = a \o (b \o c)
  BY ConcatAssociative, SMTT(60)

LEMMA HeadAndTail ==
    ASSUME NEW S, NEW s \in Seq(S), s # <<>>
    PROVE  Head(s) \in S /\ Tail(s) \in Seq(S) /\ s = <<Head(s)>> \o Tail(s)
<1>1. /\ Head(s) \in S /\ Tail(s) \in Seq(S) /\ Len(Tail(s)) = Len(s) - 1
      /\ \A i \in 1..Len(Tail(s)) : Tail(s)[i] = s[i+1]
  BY HeadTailProperties
<1>2. <<Head(s)>> \in Seq(S) /\ Len(<<Head(s)>>) = 1 /\ <<Head(s)>>[1] = Head(s)
  BY <1>1
<1>3. /\ <<Head(s)>> \o Tail(s) \in Seq(S)
      /\ Len(<<Head(s)>> \o Tail(s)) = 1 + Len(Tail(s))
      /\ \A i \in 1..1 + Len(Tail(s)) : (<<Head(s)>> \o Tail(s))[i] =
            IF i <= 1 THEN <<Head(s)>>[i] ELSE Tail(s)[i - 1]
  BY <1>1, <1>2, ConcatProperties
<1>4. Len(s) \in Nat
  BY LenProperties
<1>5. \A i \in 1..Len(s) : s[i] = (<<Head(s)>> \o Tail(s))[i]
  <2>. TAKE i \in 1..Len(s)
  <2>1. CASE i = 1
    BY <1>1, <1>2, <1>3, <1>4, <2>1
  <2>2. CASE i # 1
    <3>1. i - 1 \in 1..Len(Tail(s)) /\ i \in 1..1 + Len(Tail(s)) /\ ~(i <= 1)
      BY <1>1, <1>4, <2>2
    <3>2. Tail(s)[i - 1] = s[i - 1 + 1]
      BY <1>1, <3>1
    <3>. QED
      BY <1>3, <3>1, <3>2
  <2>. QED
    BY <2>1, <2>2
<1>6. Len(s) = Len(<<Head(s)>> \o Tail(s))
  BY <1>1, <1>3, <1>4
<1>7. s = <<Head(s)>> \o Tail(s)
  BY <1>3, <1>5, <1>6, SeqEqual
<1>. QED
  BY <1>1, <1>7

LEMMA UptoGrows ==
    ASSUME NEW n \in Nat, n + 1 <= MaxSend
    PROVE  Upto(n) \in Seq(Data) /\ Upto(n + 1) = Upto(n) \o <<n + 1>>
<1>. MaxSend \in Nat
  BY Bounds
<1>1. Upto(n) \in Seq(Data) /\ Len(Upto(n)) = n /\ \A i \in 1..n : Upto(n)[i] = i
  BY DEF Upto, Data
<1>2. Upto(n + 1) \in Seq(Data) /\ Len(Upto(n + 1)) = n + 1
      /\ \A i \in 1..n+1 : Upto(n + 1)[i] = i
  BY DEF Upto, Data
<1>3. <<n + 1>> \in Seq(Data) /\ Len(<<n + 1>>) = 1 /\ <<n + 1>>[1] = n + 1
  BY DEF Data
<1>4. /\ Upto(n) \o <<n + 1>> \in Seq(Data) /\ Len(Upto(n) \o <<n + 1>>) = n + 1
      /\ \A i \in 1..n+1 : (Upto(n) \o <<n + 1>>)[i] =
            IF i <= n THEN Upto(n)[i] ELSE <<n + 1>>[i - n]
  BY <1>1, <1>3, ConcatProperties
<1>5. \A i \in 1..n+1 : Upto(n + 1)[i] = (Upto(n) \o <<n + 1>>)[i]
  <2>. TAKE i \in 1..n+1
  <2>1. CASE i <= n
    BY <1>1, <1>2, <1>4, <2>1
  <2>2. CASE i = n + 1
    <3>1. i - n = 1 /\ ~(i <= n)
      BY <2>2
    <3>. QED
      BY <1>2, <1>3, <1>4, <2>2, <3>1
  <2>3. i <= n \/ i = n + 1
    OBVIOUS
  <2>. QED
    BY <2>1, <2>2, <2>3
<1>6. Upto(n + 1) = Upto(n) \o <<n + 1>>
  BY <1>2, <1>4, <1>5, SeqEqual
<1>. QED
  BY <1>1, <1>6
-----------------------------------------------------------------------------
(* The places a datagram passes, oldest first, and what moves it on.       *)

Chain(h, d, q, p, s) == h \o d \o q \o p \o s

LEMMA MoveIntoPending ==
    ASSUME NEW h \in Seq(Data), NEW d \in Seq(Data), NEW q \in Seq(Data),
           NEW s \in Seq(Data), s # <<>>
    PROVE  Chain(h, d, q, <<Head(s)>>, Tail(s)) = Chain(h, d, q, <<>>, s)
<1>. DEFINE x == h \o d \o q
            v == <<Head(s)>>
            t == Tail(s)
<1>1. x \in Seq(Data)
  BY ConcatProperties
<1>2. v \in Seq(Data) /\ t \in Seq(Data) /\ s = v \o t
  BY HeadAndTail
<1>. HIDE DEF x, v, t
<1>3. (x \o v) \o t = x \o (v \o t)
  BY <1>1, <1>2, Associative, SMTT(60)
<1>4. x \o <<>> = x
  BY <1>1, ConcatEmptySeq
<1>. QED
  BY <1>2, <1>3, <1>4 DEF Chain, x, v, t

LEMMA MoveIntoQueue ==
    ASSUME NEW h \in Seq(Data), NEW d \in Seq(Data), NEW q \in Seq(Data),
           NEW v \in Data, NEW s \in Seq(Data)
    PROVE  Chain(h, d, Append(q, v), <<>>, s) = Chain(h, d, q, <<v>>, s)
<1>. DEFINE x == h \o d
<1>1. x \in Seq(Data) /\ <<v>> \in Seq(Data)
  BY ConcatProperties
<1>2. Append(q, v) = q \o <<v>> /\ q \o <<v>> \in Seq(Data)
  BY <1>1, AppendIsConcat, ConcatProperties
<1>. HIDE DEF x
<1>3. x \o (q \o <<v>>) = (x \o q) \o <<v>> /\ x \o (q \o <<v>>) \in Seq(Data)
  <2>1. x \o (q \o <<v>>) = (x \o q) \o <<v>>
    BY <1>1, <1>2, Associative, SMTT(60)
  <2>2. x \o (q \o <<v>>) \in Seq(Data)
    BY <1>1, <1>2, ConcatProperties
  <2>. QED
    BY <2>1, <2>2
<1>4. (x \o (q \o <<v>>)) \o <<>> = x \o (q \o <<v>>)
  BY <1>3, ConcatEmptySeq
<1>. QED
  BY <1>2, <1>3, <1>4 DEF Chain, x

LEMMA MoveIntoDelivered ==
    ASSUME NEW h \in Seq(Data), NEW q \in Seq(Data), NEW p \in Seq(Data),
           NEW s \in Seq(Data), q # <<>>
    PROVE  Chain(h, <<Head(q)>>, Tail(q), p, s) = Chain(h, <<>>, q, p, s)
<1>. DEFINE v == Head(q)
<1>1. v \in Data /\ Tail(q) \in Seq(Data) /\ q = <<v>> \o Tail(q)
  BY HeadAndTail
<1>2. <<v>> \in Seq(Data)
  BY <1>1
<1>. HIDE DEF v
<1>3. (h \o <<v>>) \o Tail(q) = h \o (<<v>> \o Tail(q))
  BY <1>1, <1>2, Associative, SMTT(60)
<1>4. h \o <<>> = h
  BY ConcatEmptySeq
<1>. QED
  BY <1>1, <1>3, <1>4 DEF Chain, v

LEMMA MoveIntoHandled ==
    ASSUME NEW h \in Seq(Data), NEW v \in Data, NEW q, NEW p, NEW s
    PROVE  Chain(Append(h, v), <<>>, q, p, s) = Chain(h, <<v>>, q, p, s)
<1>1. Append(h, v) = h \o <<v>> /\ Append(h, v) \in Seq(Data)
  BY AppendIsConcat, AppendProperties
<1>2. Append(h, v) \o <<>> = Append(h, v)
  BY <1>1, ConcatEmptySeq
<1>. QED
  BY <1>1, <1>2 DEF Chain

LEMMA MoveIntoSock ==
    ASSUME NEW x \in Seq(Data), NEW s \in Seq(Data), NEW v \in Data
    PROVE  x \o Append(s, v) = (x \o s) \o <<v>>
<1>1. <<v>> \in Seq(Data) /\ Append(s, v) = s \o <<v>>
  BY AppendIsConcat
<1>. QED
  BY <1>1, Associative, SMTT(60)
-----------------------------------------------------------------------------
(* IInv is inductive.                                                      *)

\* InOrder in terms of Chain, and the places as sequences.
LEMMA Places ==
    ASSUME TypeOK
    PROVE  /\ handled \in Seq(Data) /\ line \in Seq(Data)
           /\ queue \in Seq(Data) /\ sock \in Seq(Data)
           /\ Held(delivered["writer"]) \in Seq(Data)
           /\ Held(pending["server"]) \in Seq(Data)
           /\ pending["server"] \in Data \cup {NULL}
           /\ delivered["writer"] \in Data \cup {NULL}
<1>1. handled \in Seq(Data) /\ line \in Seq(Data) /\ queue \in Seq(Data) /\ sock \in Seq(Data)
  BY DEF TypeOK, Data
<1>2. pending["server"] \in Data \cup {NULL} /\ delivered["writer"] \in Data \cup {NULL}
  BY DEF TypeOK, Data
<1>3. \A x \in Data \cup {NULL} : Held(x) \in Seq(Data)
  BY DEF Held
<1>. QED
  BY <1>1, <1>2, <1>3

LEMMA HeldFacts ==
    Held(NULL) = <<>> /\ \A v \in Data : v # NULL /\ Held(v) = <<v>>
<1>. QED
  BY Bounds DEF Held

\* A sequence that begins with l begins with it when it is longer.
LEMMA PrefixKept ==
    ASSUME NEW h \in Seq(Data), NEW l \in Seq(Data), NEW v \in Data,
           Len(l) <= Len(h), l = SubSeq(h, 1, Len(l))
    PROVE  l = SubSeq(Append(h, v), 1, Len(l)) /\ Len(l) <= Len(Append(h, v))
<1>1. Len(h) \in Nat /\ Len(l) \in Nat
  BY LenProperties
<1>2. Append(h, v) = h \o <<v>> /\ <<v>> \in Seq(Data) /\ Len(Append(h, v)) = Len(h) + 1
  BY AppendIsConcat, AppendProperties
<1>3. CASE Len(l) = 0
  <2>1. SubSeq(Append(h, v), 1, Len(l)) = <<>> /\ SubSeq(h, 1, Len(l)) = <<>>
    BY <1>3, SubSeqEmpty
  <2>. QED
    BY <1>1, <1>2, <2>1
<1>4. CASE Len(l) # 0
  <2>1. Len(l) \in 1..Len(h) /\ 1 \in 1..Len(h)
    BY <1>1, <1>4
  <2>2. SubSeq(h \o <<v>>, 1, Len(l)) = SubSeq(h, 1, Len(l))
    BY <1>2, <2>1, SubSeqOfConcat1
  <2>. QED
    BY <1>1, <1>2, <2>2
<1>. QED
  BY <1>3, <1>4

LEMMA InitIInv == Init => IInv
<1>. SUFFICES ASSUME Init PROVE IInv
  OBVIOUS
<1>. USE Bounds DEF Init, Queue!Init
<1>1. TypeOK
  BY DEF TypeOK
<1>2. Phases
  BY DEF Phases
<1>3. LineShape
  BY SubSeqEmpty DEF LineShape, NoGapOnLine
<1>4. InOrder
  BY DEF InOrder, Held, Upto
<1>. QED
  BY <1>1, <1>2, <1>3, <1>4 DEF IInv

LEMMA StopKeeps ==
    ASSUME IInv, Stop
    PROVE  IInv'
<1>. USE Bounds DEF Stop
<1>2. TypeOK'
  <2>1. /\ accepted' \in 0..MaxSend /\ told' \in 0..MaxSay /\ input' \in 0..told'
        /\ starts' \in 0..MaxStarts
    BY DEF IInv, TypeOK
  <2>2. /\ pending' \in [{"server"} -> 1..MaxSend \cup {NULL}]
        /\ delivered' \in [{"writer"} -> 1..MaxSend \cup {NULL}]
    OBVIOUS
  <2>3. /\ path' \in {"none", "stale", "live", "other"} /\ path' # "live"
        /\ device' \in {"up", "gone"}
    BY DEF IInv, TypeOK
  <2>4. /\ sock' \in Seq(1..MaxSend) /\ Len(sock') <= SOCK_BACKLOG
        /\ {handled', line', queue'} \subseteq Seq(1..MaxSend) /\ Len(queue') <= QUEUE_SIZE
    OBVIOUS
  <2>. QED
    BY <2>1, <2>2, <2>3, <2>4 DEF TypeOK
<1>3. Phases'
  BY DEF Phases
<1>4. LineShape'
  BY SubSeqEmpty DEF LineShape, NoGapOnLine
<1>5. InOrder'
  BY DEF InOrder, Held, Upto
<1>. QED
  BY <1>2, <1>3, <1>4, <1>5 DEF IInv

\* Steps that touch neither the places of the datagrams nor the line.
LEMMA QuietKeeps ==
    ASSUME IInv, UNCHANGED <<accepted, sock, pending, queue, delivered, handled, line>>,
           TypeOK', Phases', fd' = "ok" => fd = "ok" \/ phase # "running"
    PROVE  IInv'
<1>1. LineShape'
  BY DEF IInv, Phases, LineShape, NoGapOnLine
<1>2. InOrder'
  BY DEF IInv, InOrder
<1>. QED
  BY <1>1, <1>2 DEF IInv

LEMMA LifeKeeps ==
    ASSUME IInv, \/ Start \/ OpenPort \/ Unlink \/ (Bind /\ ~Stop) \/ OtherProcess
                 \/ thread_read_serial \/ Say \/ Unplug \/ Plug
    PROVE  IInv'
<1>. USE Bounds DEF procvars, portvars, fifovars
<1>1. CASE Start
  <2>1. TypeOK' /\ Phases'
    BY <1>1 DEF Start, IInv, TypeOK, Phases
  <2>. QED
    BY <1>1, <2>1, QuietKeeps DEF Start
<1>2. CASE OpenPort
  <2>1. TypeOK' /\ Phases'
    BY <1>2 DEF OpenPort, IInv, TypeOK, Phases
  <2>. QED
    BY <1>2, <2>1, QuietKeeps DEF OpenPort
<1>8. CASE Unlink
  <2>1. TypeOK' /\ Phases'
    BY <1>8 DEF Unlink, IInv, TypeOK, Phases
  <2>. QED
    BY <1>8, <2>1, QuietKeeps DEF Unlink
<1>9. CASE OtherProcess
  <2>1. TypeOK' /\ Phases'
    BY <1>9 DEF OtherProcess, IInv, TypeOK, Phases
  <2>. QED
    BY <1>9, <2>1, QuietKeeps DEF OtherProcess
<1>3. CASE Bind /\ ~Stop
  <2>1. TypeOK' /\ Phases'
    BY <1>3 DEF Bind, IInv, TypeOK, Phases
  <2>. QED
    BY <1>3, <2>1, QuietKeeps DEF Bind
<1>4. CASE thread_read_serial
  <2>1. TypeOK' /\ Phases'
    BY <1>4 DEF thread_read_serial, IInv, TypeOK, Phases
  <2>. QED
    BY <1>4, <2>1, QuietKeeps DEF thread_read_serial
<1>5. CASE Say
  <2>1. TypeOK' /\ Phases'
    BY <1>5 DEF Say, IInv, TypeOK, Phases
  <2>. QED
    BY <1>5, <2>1, QuietKeeps DEF Say
<1>6. CASE Unplug
  <2>1. TypeOK' /\ Phases'
    BY <1>6 DEF Unplug, IInv, TypeOK, Phases
  <2>. QED
    BY <1>6, <2>1, QuietKeeps DEF Unplug
<1>7. CASE Plug
  <2>1. TypeOK' /\ Phases'
    BY <1>7 DEF Plug, IInv, TypeOK, Phases
  <2>. QED
    BY <1>7, <2>1, QuietKeeps DEF Plug
<1>. QED
  BY <1>1, <1>2, <1>3, <1>4, <1>5, <1>6, <1>7, <1>8, <1>9

\* Steps of a datagram that leave the process and the line as they are.
LEMMA MoveKeeps ==
    ASSUME IInv, TypeOK', InOrder',
           UNCHANGED <<phase, server, fd, input, handled, line, starts>>
    PROVE  IInv'
<1>. QED
  BY DEF IInv, Phases, LineShape, NoGapOnLine

LEMMA RecvKeeps ==
    ASSUME IInv, Recv
    PROVE  IInv'
<1>. USE Bounds, Places, HeldFacts DEF Recv, Queue!Ask
<1>0. TypeOK
  BY DEF IInv
<1>1. /\ Head(sock) \in Data /\ Tail(sock) \in Seq(Data) /\ Len(Tail(sock)) = Len(sock) - 1
      /\ Len(sock) \in Nat
  BY <1>0, HeadTailProperties, LenProperties
<1>2. pending["server"] = NULL /\ pending' = [pending EXCEPT !["server"] = Head(sock)]
      /\ sock' = Tail(sock) /\ sock # <<>>
  OBVIOUS
<1>3. UNCHANGED <<queue, delivered, phase, server, fd, accepted, handled, line, path,
                  device, starts, input, told>>
  BY DEF portvars
<1>4. pending'["server"] = Head(sock) /\ pending' \in [{"server"} -> 1..MaxSend \cup {NULL}]
  BY <1>0, <1>1, <1>2 DEF TypeOK, Data
<1>5. TypeOK'
  BY <1>0, <1>1, <1>2, <1>3, <1>4 DEF TypeOK, Data
<1>6. InOrder'
  <2>. DEFINE d == Held(delivered["writer"])
  <2>1. Chain(handled, d, queue, <<Head(sock)>>, Tail(sock))
        = Chain(handled, d, queue, <<>>, sock)
    BY <1>0, <1>2, MoveIntoPending
  <2>2. Held(pending["server"]) = <<>> /\ Held(pending'["server"]) = <<Head(sock)>>
    BY <1>1, <1>2, <1>4
  <2>. QED
    BY <1>2, <1>3, <2>1, <2>2 DEF IInv, InOrder, Chain
<1>. QED
  BY <1>3, <1>5, <1>6, MoveKeeps

LEMMA EnqueueReturnsKeeps ==
    ASSUME IInv, EnqueueReturns
    PROVE  IInv'
<1>. USE Bounds, Places, HeldFacts DEF EnqueueReturns, Queue!Put
<1>0. TypeOK
  BY DEF IInv
<1>. DEFINE v == pending["server"]
<1>1. v \in Data /\ queue' = Append(queue, v) /\ Len(queue) < QUEUE_SIZE
      /\ pending' = [pending EXCEPT !["server"] = NULL]
  BY <1>0
<1>2. UNCHANGED <<delivered, sock, phase, server, fd, accepted, handled, line, path,
                  device, starts, input, told>>
  BY DEF portvars, procvars
<1>3. queue' \in Seq(Data) /\ Len(queue') = Len(queue) + 1 /\ Len(queue) \in Nat
  BY <1>0, <1>1, AppendProperties, LenProperties
<1>4. pending'["server"] = NULL /\ pending' \in [{"server"} -> 1..MaxSend \cup {NULL}]
  BY <1>0, <1>1 DEF TypeOK
<1>5. TypeOK'
  BY <1>0, <1>1, <1>2, <1>3, <1>4 DEF TypeOK, Data
<1>6. InOrder'
  <2>1. Chain(handled, Held(delivered["writer"]), queue', <<>>, sock)
        = Chain(handled, Held(delivered["writer"]), queue, <<v>>, sock)
    BY <1>0, <1>1, MoveIntoQueue
  <2>. QED
    BY <1>1, <1>2, <1>4, <2>1 DEF IInv, InOrder, Chain
<1>. QED
  BY <1>2, <1>5, <1>6, MoveKeeps

LEMMA DequeueReturnsKeeps ==
    ASSUME IInv, DequeueReturns
    PROVE  IInv'
<1>. USE Bounds, Places, HeldFacts DEF DequeueReturns, Queue!Get
<1>0. TypeOK
  BY DEF IInv
<1>. DEFINE v == Head(queue)
<1>1. /\ v \in Data /\ Tail(queue) \in Seq(Data) /\ Len(Tail(queue)) = Len(queue) - 1
      /\ Len(queue) \in Nat
  BY <1>0, HeadTailProperties, LenProperties
<1>2. /\ delivered["writer"] = NULL /\ queue # <<>> /\ queue' = Tail(queue)
      /\ delivered' = [delivered EXCEPT !["writer"] = v]
  OBVIOUS
<1>3. UNCHANGED <<pending, sock, phase, server, fd, accepted, handled, line, path,
                  device, starts, input, told>>
  BY DEF portvars, procvars
<1>4. delivered'["writer"] = v /\ delivered' \in [{"writer"} -> 1..MaxSend \cup {NULL}]
  BY <1>0, <1>1, <1>2 DEF TypeOK, Data
<1>5. TypeOK'
  BY <1>0, <1>1, <1>2, <1>3, <1>4 DEF TypeOK, Data
<1>6. InOrder'
  <2>1. Chain(handled, <<v>>, Tail(queue), Held(pending["server"]), sock)
        = Chain(handled, <<>>, queue, Held(pending["server"]), sock)
    BY <1>0, <1>2, MoveIntoDelivered
  <2>. QED
    BY <1>1, <1>2, <1>3, <1>4, <2>1 DEF IInv, InOrder, Chain
<1>. QED
  BY <1>3, <1>5, <1>6, MoveKeeps

LEMMA SendKeeps ==
    ASSUME IInv, Send
    PROVE  IInv'
<1>0. TypeOK
  BY DEF IInv
<1>. DEFINE v == accepted + 1
<1>1. v \in Data /\ accepted \in Nat /\ v <= MaxSend
      /\ sock' = Append(sock, v) /\ accepted' = v /\ Len(sock) < SOCK_BACKLOG
  BY <1>0, Bounds DEF TypeOK, Data, Send
<1>2. UNCHANGED <<pending, queue, delivered, phase, server, fd, handled, line, path,
                  device, starts, input, told>>
  BY DEF portvars, fifovars, Send
<1>3. sock' \in Seq(Data) /\ Len(sock') = Len(sock) + 1 /\ Len(sock) \in Nat
  BY <1>0, <1>1, Places, AppendProperties, LenProperties
<1>4. TypeOK'
  BY <1>0, <1>1, <1>2, <1>3, Bounds DEF TypeOK, Data
<1>5. InOrder'
  <2>. DEFINE x == handled \o Held(delivered["writer"]) \o queue \o Held(pending["server"])
  <2>1. x \in Seq(Data) /\ sock \in Seq(Data)
    BY <1>0, Places, ConcatProperties
  <2>. HIDE DEF x, v
  <2>2. x \o Append(sock, v) = (x \o sock) \o <<v>>
    BY <1>1, <2>1, MoveIntoSock
  <2>3. x \o sock = Upto(accepted)
    BY DEF IInv, InOrder, x
  <2>4. Upto(v) = Upto(accepted) \o <<v>>
    BY <1>1, UptoGrows DEF v
  <2>. QED
    BY <1>1, <1>2, <2>2, <2>3, <2>4 DEF InOrder, x
<1>. QED
  BY <1>2, <1>4, <1>5, MoveKeeps

LEMMA WriteKeeps ==
    ASSUME IInv, Write
    PROVE  IInv'
<1>. USE Bounds, Places, HeldFacts DEF Write, Queue!Done
<1>0. TypeOK
  BY DEF IInv
<1>. DEFINE v == delivered["writer"]
<1>1. /\ v \in Data /\ phase = "running" /\ handled' = Append(handled, v)
      /\ line' = IF fd = "ok" THEN Append(line, v) ELSE line
      /\ delivered' = [delivered EXCEPT !["writer"] = NULL]
  BY <1>0
<1>2. UNCHANGED <<pending, queue, sock, phase, server, fd, accepted, path,
                  device, starts, input, told>>
  BY DEF portvars
<1>3. /\ handled' \in Seq(Data) /\ Len(handled') = Len(handled) + 1
      /\ Len(handled) \in Nat /\ Len(line) \in Nat /\ line' \in Seq(Data)
  BY <1>0, <1>1, AppendProperties, LenProperties
<1>4. delivered'["writer"] = NULL /\ delivered' \in [{"writer"} -> 1..MaxSend \cup {NULL}]
  BY <1>0, <1>1 DEF TypeOK
<1>5. TypeOK'
  BY <1>0, <1>1, <1>2, <1>3, <1>4 DEF TypeOK, Data
<1>6. InOrder'
  <2>1. Chain(handled', <<>>, queue, Held(pending["server"]), sock)
        = Chain(handled, <<v>>, queue, Held(pending["server"]), sock)
    BY <1>0, <1>1, MoveIntoHandled
  <2>. QED
    BY <1>1, <1>2, <1>4, <2>1 DEF IInv, InOrder, Chain
<1>7. LineShape'
  <2>1. CASE fd = "ok"
    <3>1. line' = handled'
      BY <1>1, <2>1 DEF IInv, LineShape
    <3>2. SubSeq(handled', 1, Len(handled')) = handled'
      BY <1>3, SubSeqFull
    <3>3. Len(line') <= Len(handled')
      BY <1>3, <3>1
    <3>4. line' = SubSeq(handled', 1, Len(line'))
      BY <3>1, <3>2
    <3>. QED
      BY <3>1, <3>3, <3>4 DEF LineShape, NoGapOnLine
  <2>2. CASE fd # "ok"
    <3>1. line' = line /\ Len(line) <= Len(handled) /\ line = SubSeq(handled, 1, Len(line))
      BY <1>1, <2>2 DEF IInv, LineShape, NoGapOnLine
    <3>2. line = SubSeq(handled', 1, Len(line)) /\ Len(line) <= Len(handled')
      <4>. HIDE DEF v
      <4>1. handled \in Seq(Data) /\ line \in Seq(Data)
        BY <1>0
      <4>2. /\ line = SubSeq(Append(handled, v), 1, Len(line))
            /\ Len(line) <= Len(Append(handled, v))
        BY <1>1, <3>1, <4>1, PrefixKept, Zenon
      <4>. QED
        BY <1>1, <4>2
    <3>. QED
      BY <1>2, <2>2, <3>1, <3>2 DEF LineShape, NoGapOnLine
  <2>. QED
    BY <2>1, <2>2
<1>8. Phases'
  BY <1>1, <1>2 DEF IInv, Phases
<1>. QED
  BY <1>5, <1>6, <1>7, <1>8 DEF IInv

LEMMA NextIInv ==
    ASSUME IInv, [Next]_vars
    PROVE  IInv'
<1>1. CASE UNCHANGED vars
  BY <1>1 DEF vars, procvars, portvars, fifovars, IInv, TypeOK, Phases,
              LineShape, NoGapOnLine, InOrder
<1>2. CASE OpenPortFails
  BY <1>2, StopKeeps DEF OpenPortFails
<1>3. CASE ServerFails
  BY <1>3, StopKeeps DEF ServerFails, IInv, Phases
<1>4. CASE Kill
  BY <1>4, StopKeeps DEF Kill
<1>5. CASE Bind /\ Stop
  BY <1>5, StopKeeps
<1>. QED
  BY <1>1, <1>2, <1>3, <1>4, <1>5, LifeKeeps, RecvKeeps, EnqueueReturnsKeeps,
     DequeueReturnsKeeps, WriteKeeps, SendKeeps DEF Next

LEMMA Invariance == Spec => []IInv
<1>. QED
  BY InitIInv, NextIInv, PTL DEF Spec

\* Neither the ring of the queue nor the kernel's overflows, and the socket's
\* name is this process's only while it listens, whatever the sizes.
THEOREM TypeCorrect == Spec => []TypeOK
<1>1. IInv => TypeOK
  BY DEF IInv
<1>. QED
  BY <1>1, Invariance, PTL

\* The one receive buffer, the ring and the writer keep every datagram, and
\* in the order the kernel took them, whatever the sizes.
THEOREM OrderKept == Spec => []InOrder
<1>1. IInv => InOrder
  BY DEF IInv
<1>. QED
  BY <1>1, Invariance, PTL

\* A descriptor that is dead never recovers: nothing is written after a
\* datagram that was lost, however often the device goes and comes.
THEOREM NoGap == Spec => []NoGapOnLine
<1>1. IInv => NoGapOnLine
  BY DEF IInv, LineShape
<1>. QED
  BY <1>1, Invariance, PTL
-----------------------------------------------------------------------------
(* The process is one bridge: its places are one queue.                    *)

LEMMA HeadAndTailOfConcat ==
    ASSUME NEW v \in Data, NEW x \in Seq(Data)
    PROVE  /\ <<v>> \o x # <<>>
           /\ Head(<<v>> \o x) = v /\ Tail(<<v>> \o x) = x
<1>1. <<v>> \in Seq(Data) /\ Len(<<v>>) = 1 /\ <<v>>[1] = v /\ Len(x) \in Nat
  OBVIOUS
<1>. DEFINE y == <<v>> \o x
<1>2. y \in Seq(Data) /\ Len(y) = 1 + Len(x) /\ \A i \in 1..1 + Len(x) :
         y[i] = IF i <= 1 THEN <<v>>[i] ELSE x[i - 1]
  BY <1>1, ConcatProperties
<1>. HIDE DEF y
<1>3. y # <<>> /\ y[1] = v
  BY <1>1, <1>2
<1>4. Head(y) = v /\ Tail(y) \in Seq(Data) /\ Len(Tail(y)) = Len(x)
      /\ \A i \in 1..Len(x) : Tail(y)[i] = y[i + 1]
  BY <1>1, <1>2, <1>3, HeadTailProperties
<1>5. \A i \in 1..Len(x) : Tail(y)[i] = x[i]
  <2>. TAKE i \in 1..Len(x)
  <2>1. i + 1 \in 1..1 + Len(x) /\ ~(i + 1 <= 1) /\ i + 1 - 1 = i
    BY <1>1
  <2>. QED
    BY <1>2, <1>4, <2>1
<1>6. Tail(y) = x
  BY <1>4, <1>5, SeqEqual
<1>. QED
  BY <1>3, <1>4, <1>6 DEF y

\* What is behind the first place, and what the places hold.
LEMMA BacklogSplits ==
    ASSUME NEW d \in Seq(Data), NEW q \in Seq(Data), NEW p \in Seq(Data), NEW s \in Seq(Data)
    PROVE  /\ d \o q \o p \o s = d \o (q \o p \o s)
           /\ q \o p \o s \in Seq(Data) /\ d \o q \o p \o s \in Seq(Data)
           /\ Len(d \o q \o p \o s) = Len(d) + Len(q) + Len(p) + Len(s)
<1>1. PICK x \in Seq(Data) : x = q \o p
  BY ConcatProperties
<1>2. x \o s \in Seq(Data) /\ Len(x \o s) = Len(x) + Len(s) /\ Len(x) = Len(q) + Len(p)
  BY <1>1, ConcatProperties
<1>3. (d \o q) \o p = d \o x
  BY <1>1, Associative, SMTT(60)
<1>4. (d \o x) \o s = d \o (x \o s)
  BY Associative, SMTT(60)
<1>5. d \o (x \o s) \in Seq(Data) /\ Len(d \o (x \o s)) = Len(d) + Len(x \o s)
  BY <1>2, ConcatProperties
<1>6. Len(d) \in Nat /\ Len(q) \in Nat /\ Len(p) \in Nat /\ Len(s) \in Nat
  BY LenProperties
<1>. QED
  BY <1>1, <1>2, <1>3, <1>4, <1>5, <1>6

\* What moves on from one place to the next leaves the backlog as it is.
LEMMA BacklogMoves ==
    ASSUME NEW d \in Seq(Data), NEW q \in Seq(Data), NEW p \in Seq(Data), NEW s \in Seq(Data)
    PROVE  /\ s # <<>> => d \o q \o <<Head(s)>> \o Tail(s) = d \o q \o <<>> \o s
           /\ \A v \in Data : d \o Append(q, v) \o <<>> \o s = d \o q \o <<v>> \o s
           /\ q # <<>> => <<Head(q)>> \o Tail(q) \o p \o s = <<>> \o q \o p \o s
<1>1. PICK x \in Seq(Data) : x = d \o q
  BY ConcatProperties
<1>2. ASSUME s # <<>>
      PROVE  d \o q \o <<Head(s)>> \o Tail(s) = d \o q \o <<>> \o s
  <2>1. PICK v \in Data, t \in Seq(Data) : v = Head(s) /\ t = Tail(s) /\ s = <<v>> \o t
    BY <1>2, HeadAndTail
  <2>2. <<v>> \in Seq(Data)
    OBVIOUS
  <2>3. (x \o <<v>>) \o t = x \o (<<v>> \o t)
    BY <2>2, Associative, SMTT(60)
  <2>4. x \o <<>> = x
    BY ConcatEmptySeq
  <2>. QED
    BY <1>1, <2>1, <2>3, <2>4
<1>3. ASSUME NEW v \in Data
      PROVE  d \o Append(q, v) \o <<>> \o s = d \o q \o <<v>> \o s
  <2>1. <<v>> \in Seq(Data) /\ Append(q, v) = q \o <<v>>
    BY AppendIsConcat
  <2>. DEFINE w == <<v>>
           y == d \o Append(q, v)
  <2>2. w \in Seq(Data) /\ Append(q, v) = q \o w
    BY <2>1
  <2>. HIDE DEF w
  <2>3. d \o (q \o w) = (d \o q) \o w
    BY <2>2, Associative, SMTT(60)
  <2>4. y \in Seq(Data)
    BY <2>2, ConcatProperties
  <2>. HIDE DEF y
  <2>5. y \o <<>> = y
    BY <2>4, ConcatEmptySeq
  <2>6. y = (d \o q) \o w
    BY <2>2, <2>3 DEF y
  <2>. QED
    BY <2>5, <2>6 DEF w, y
<1>4. ASSUME q # <<>>
      PROVE  <<Head(q)>> \o Tail(q) \o p \o s = <<>> \o q \o p \o s
  <2>1. q = <<Head(q)>> \o Tail(q)
    BY <1>4, HeadAndTail
  <2>2. <<>> \o q = q
    BY ConcatEmptySeq
  <2>. QED
    BY <2>1, <2>2
<1>. QED
  BY <1>2, <1>3, <1>4

LEMMA BridgeInit == Init => Bridge!Init
  BY DEF Init, Bridge!Init, Backlog, Held, Queue!Init

LEMMA BridgeEnds ==
    ASSUME Stop
    PROVE  Bridge!End
  BY DEF Stop, Bridge!End, Backlog, Held

\* A datagram that moves from one place to the next is still in the backlog.
LEMMA BridgeStays ==
    ASSUME TypeOK, Recv \/ EnqueueReturns \/ DequeueReturns
    PROVE  Backlog' = Backlog /\ UNCHANGED <<line, fd>>
<1>. DEFINE d == Held(delivered["writer"])
            p == Held(pending["server"])
<1>1. /\ queue \in Seq(Data) /\ sock \in Seq(Data) /\ d \in Seq(Data) /\ p \in Seq(Data)
      /\ <<>> \in Seq(Data)
  BY Places
<1>2. CASE Recv
  <2>1. /\ sock # <<>> /\ sock' = Tail(sock) /\ p = <<>> /\ Held(pending'["server"]) = <<Head(sock)>>
        /\ UNCHANGED <<queue, delivered, line, fd>>
    <3>1. Head(sock) \in Data /\ pending["server"] = NULL /\ pending'["server"] = Head(sock)
      BY <1>1, <1>2, HeadAndTail DEF Recv, Queue!Ask, TypeOK
    <3>. QED
      BY <1>2, <3>1, HeldFacts DEF Recv, Queue!Ask
  <2>2. d \o queue \o <<Head(sock)>> \o Tail(sock) = d \o queue \o <<>> \o sock
    BY <1>1, <2>1, BacklogMoves
  <2>. QED
    BY <2>1, <2>2 DEF Backlog
<1>3. CASE EnqueueReturns
  <2>. DEFINE v == pending["server"]
  <2>1. /\ v \in Data /\ queue' = Append(queue, v) /\ pending'["server"] = NULL
        /\ UNCHANGED <<sock, delivered, line, fd>>
    BY <1>3, Places DEF EnqueueReturns, Queue!Put, procvars, TypeOK
  <2>2. p = <<v>> /\ Held(pending'["server"]) = <<>>
    BY <2>1, HeldFacts
  <2>. HIDE DEF v
  <2>3. d \o Append(queue, v) \o <<>> \o sock = d \o queue \o <<v>> \o sock
    BY <1>1, <2>1, BacklogMoves
  <2>. QED
    BY <2>1, <2>2, <2>3 DEF Backlog
<1>4. CASE DequeueReturns
  <2>1. /\ queue # <<>> /\ queue' = Tail(queue) /\ d = <<>>
        /\ Held(delivered'["writer"]) = <<Head(queue)>>
        /\ UNCHANGED <<sock, pending, line, fd>>
    <3>1. Head(queue) \in Data /\ delivered["writer"] = NULL /\ delivered'["writer"] = Head(queue)
      BY <1>1, <1>4, HeadAndTail DEF DequeueReturns, Queue!Get, TypeOK
    <3>. QED
      BY <1>4, <3>1, HeldFacts DEF DequeueReturns, Queue!Get, procvars
  <2>2. <<Head(queue)>> \o Tail(queue) \o p \o sock = <<>> \o queue \o p \o sock
    BY <1>1, <2>1, BacklogMoves
  <2>. QED
    BY <2>1, <2>2 DEF Backlog
<1>. QED
  BY <1>2, <1>3, <1>4

LEMMA BridgeTakes ==
    ASSUME TypeOK, Send
    PROVE  Bridge!Take(accepted + 1) /\ accepted + 1 \in 1..MaxSend
<1>. DEFINE d == Held(delivered["writer"])
            p == Held(pending["server"])
            v == accepted + 1
<1>1. /\ queue \in Seq(Data) /\ sock \in Seq(Data) /\ d \in Seq(Data) /\ p \in Seq(Data)
      /\ Len(d) <= 1 /\ Len(p) <= 1 /\ Len(d) \in Nat /\ Len(p) \in Nat
  BY Places DEF Held
<1>2. /\ v \in Data /\ sock' = Append(sock, v) /\ Len(sock) < SOCK_BACKLOG
      /\ Len(queue) <= QUEUE_SIZE /\ Len(queue) \in Nat /\ Len(sock) \in Nat
      /\ UNCHANGED <<delivered, queue, pending, line, fd>>
  BY <1>1, Bounds DEF Send, TypeOK, Data, fifovars
<1>. HIDE DEF d, p, v
<1>3. Len(d \o queue \o p \o sock) < QUEUE_SIZE + SOCK_BACKLOG + 2
  BY <1>1, <1>2, BacklogSplits, Bounds
<1>4. d \o queue \o p \o Append(sock, v) = Append(d \o queue \o p \o sock, v)
  <2>. DEFINE x == d \o queue \o p
  <2>1. x \in Seq(Data) /\ x \o sock \in Seq(Data)
    BY <1>1, ConcatProperties
  <2>. HIDE DEF x
  <2>2. x \o Append(sock, v) = (x \o sock) \o <<v>>
    BY <1>1, <1>2, <2>1, MoveIntoSock
  <2>3. Append(x \o sock, v) = (x \o sock) \o <<v>>
    BY <1>2, <2>1, AppendIsConcat
  <2>. QED
    BY <2>2, <2>3 DEF x
<1>. QED
  BY <1>2, <1>3, <1>4 DEF Bridge!Take, Backlog, d, p, v, Data

LEMMA BridgePasses ==
    ASSUME IInv, Write
    PROVE  Bridge!Pass
<1>. DEFINE v == delivered["writer"]
            p == Held(pending["server"])
            rest == queue \o p \o sock
<1>0. TypeOK
  BY DEF IInv
<1>1. /\ v \in Data /\ delivered'["writer"] = NULL
      /\ line' = IF fd = "ok" THEN Append(line, v) ELSE line
      /\ UNCHANGED <<queue, pending, sock, fd>>
  BY <1>0, Places DEF Write, Queue!Done, TypeOK
<1>2. queue \in Seq(Data) /\ sock \in Seq(Data) /\ p \in Seq(Data) /\ <<v>> \in Seq(Data)
      /\ <<>> \in Seq(Data)
  BY <1>0, <1>1, Places
<1>3. Held(v) = <<v>> /\ Held(delivered'["writer"]) = <<>>
  BY <1>1, HeldFacts
<1>. HIDE DEF v, p
<1>4. rest \in Seq(Data) /\ <<v>> \o queue \o p \o sock = <<v>> \o rest
  BY <1>2, BacklogSplits
<1>5. <<>> \o queue \o p \o sock = rest
  BY <1>2, ConcatEmptySeq
<1>. HIDE DEF rest
<1>6. Backlog # <<>> /\ Head(Backlog) = v /\ Tail(Backlog) = rest
  BY <1>1, <1>3, <1>4, HeadAndTailOfConcat DEF Backlog, v, p
<1>7. Backlog' = rest
  BY <1>1, <1>3, <1>5 DEF Backlog, p
<1>8. fd = "ok" <=> fd # "dead"
  BY <1>0 DEF Write, TypeOK, IInv, Phases
<1>. QED
  BY <1>1, <1>6, <1>7, <1>8 DEF Bridge!Pass

LEMMA BridgeNext ==
    ASSUME IInv, [Next]_vars
    PROVE  [Bridge!Next]_Bridge!vars
<1>. TypeOK
  BY DEF IInv
<1>1. CASE \/ Start \/ OpenPort \/ Unlink \/ (Bind /\ ~Stop) \/ OtherProcess
           \/ thread_read_serial \/ Say \/ Plug \/ UNCHANGED vars
  <2>1. UNCHANGED <<delivered, queue, pending, sock, line>>
    BY <1>1 DEF Start, OpenPort, Unlink, Bind, OtherProcess, thread_read_serial, Say, Plug,
                vars, procvars, fifovars
  <2>2. (fd' = "dead") = (fd = "dead")
    BY <1>1 DEF Start, OpenPort, Unlink, Bind, OtherProcess, thread_read_serial, Say, Plug,
                vars, procvars, IInv, Phases
  <2>. QED
    BY <2>1, <2>2 DEF Bridge!vars, Backlog
<1>2. CASE Unplug
  <2>1. UNCHANGED <<delivered, queue, pending, sock, line>>
    BY <1>2 DEF Unplug, fifovars
  <2>2. fd' = fd \/ fd' = "dead"
    BY <1>2 DEF Unplug
  <2>3. Backlog' = Backlog
    BY <2>1 DEF Backlog
  <2>. QED
    BY <2>1, <2>2, <2>3 DEF Bridge!Next, Bridge!Break, Bridge!vars
<1>3. CASE OpenPortFails \/ ServerFails \/ Kill \/ (Bind /\ Stop)
  BY <1>3, BridgeEnds DEF OpenPortFails, ServerFails, Kill, Bridge!Next
<1>4. CASE Recv \/ EnqueueReturns \/ DequeueReturns
  BY <1>4, BridgeStays DEF Bridge!vars
<1>5. CASE Write
  BY <1>5, BridgePasses DEF Bridge!Next
<1>6. CASE Send
  BY <1>6, BridgeTakes DEF Bridge!Next
<1>. QED
  BY <1>1, <1>2, <1>3, <1>4, <1>5, <1>6 DEF Next

\* For any sizes, kills and losses of the device the process is one bridge:
\* kernel, server thread, ring and writer hold at most QUEUE_SIZE +
\* SOCK_BACKLOG + 2 datagrams, in one order, and lose one only when the
\* descriptor is dead or the process ends.
THEOREM Implements == Spec => Bridge!SafeSpec
<1>. QED
  BY BridgeInit, BridgeNext, Invariance, PTL DEF Spec, Bridge!SafeSpec
=============================================================================
