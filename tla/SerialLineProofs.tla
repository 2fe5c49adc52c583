-------------------------- MODULE SerialLineProofs --------------------------
(***************************************************************************)
(* Proofs about SerialLine, for every choice of programs and every size of *)
(* the line. The steps of the programs are made of a few calls; each call  *)
(* keeps the invariant under conditions that its callers meet.             *)
(***************************************************************************)
EXTENDS SerialLine, TLAPS

WrPlaces == {"none", "select", "write", "tail", "failed", "ended"}
RdPlaces == {"none", "opened", "owner", "sleep", "handler", "wait",
             "loop", "select", "read", "ended"}

\* Nothing is on the line or to be echoed before somebody has spoken.
Spoken ==
    \A e \in Ends : line[e] > 0 \/ echo[e] => said[e] > 0 \/ said[Other(e)] > 0

\* m never writes.
Mute == \A e \in Ends : prog[e] = "m" => said[e] = 0 /\ wr[e] \notin {"write", "tail"}

\* A program of two threads has been spoken to before it is about to write.
Heard ==
    \A e \in Ends :
        prog[e] \in TwoThreads =>
            /\ said[e] > 0 \/ (up /\ wr[e] = "write") => said[Other(e)] > 0
            /\ wr[e] # "tail"

\* Why a part of the program on end e has ended, while the line is up.
WriterReason(e) ==
    /\ prog[e] \in TwoThreads /\ wr[e] = "ended" => prog[e] = "m2" /\ said[Other(e)] > 0
    /\ prog[e] \in Chats => wr[e] # "failed"
ReaderReason(e) ==
    /\ rd[e] = "ended" => \/ prog[e] = "rs"
                          \/ prog[e] = "m" /\ said[Other(e)] > 0
                          \/ prog[e] = "forsel" /\ fds[e] = MAX_FDS
    /\ prog[e] \in TwoThreads /\ rd[e] = "read" => Available(e) > 0
Reasons == up => \A e \in Ends : WriterReason(e) /\ ReaderReason(e)

IInv == TypeOK /\ Spoken /\ Mute /\ Heard /\ Reasons
-----------------------------------------------------------------------------
LEMMA OtherEnd ==
    \A e \in Ends : /\ Other(e) \in Ends /\ Other(e) # e
                    /\ \A f \in Ends : f # e => f = Other(e)
<1>. QED
  BY DEF Ends, Other

\* Which programs have a port that does not block, and which of their reads
\* can fail.
LEMMA Ports ==
    \A p \in Programs :
        /\ "O_NONBLOCK" \in Flags[p] => p \in {"m", "m2", "rs"}
        /\ p = "rs" => ~(Port[p].min > 0)
        /\ Port[p].raw \in BOOLEAN
<1>1. \A p \in Programs : "O_NONBLOCK" \in Flags[p] => p \in {"m", "m2", "rs"}
  BY DEF Programs, Port, Flags, m1_flags, m2_flags, m_flags, pts_flags, lib_flags,
         cells_flags, forsel_flags, rs_flags
<1>2. \A p \in Programs : p = "rs" => ~(Port[p].min > 0)
  BY DEF Programs, Port, rs_port
<1>3. \A p \in Programs : Port[p].raw \in BOOLEAN
  <2>1. /\ m1_port.raw /\ m2_port.raw /\ m_port.raw /\ rs_port.raw /\ pts_port.raw
        /\ lib_port.raw /\ forsel_port.raw /\ Untouched.raw = FALSE
    BY DEF m1_port, m2_port, m_port, pts_port, lib_port, forsel_port, rs_port, Untouched
  <2>2. \A p \in Programs : Port[p] \in {m1_port, m2_port, m_port, rs_port, pts_port,
                                        lib_port, forsel_port, Untouched}
    BY DEF Programs, Port
  <2>. QED
    BY <2>1, <2>2
<1>. QED
  BY <1>1, <1>2, <1>3

LEMMA Sizes == LINE_CAP \in Nat \ {0} /\ MaxSend \in Nat \ {0} /\ MAX_FDS \in Nat \ {0}
<1>. QED
  BY SerialLineAssumption

LEMMA Cast == TypeOK => prog \in [Ends -> Programs]
<1>. QED
  BY SerialLineAssumption DEF TypeOK

LEMMA InitIInv == Init => IInv
<1>. SUFFICES ASSUME Init PROVE IInv
  OBVIOUS
<1>. USE Sizes, OtherEnd DEF Init
<1>1. TypeOK
  BY DEF TypeOK
<1>2. Spoken /\ Mute /\ Heard
  BY DEF Spoken, Mute, Heard
<1>3. Reasons
  BY DEF Reasons, WriterReason, ReaderReason
<1>. QED
  BY <1>1, <1>2, <1>3 DEF IInv
-----------------------------------------------------------------------------
\* What the arrival of a unit at end o does to the two lines and the readers:
\* it takes nothing away that could be read.
LEMMA ArrivalKeeps ==
    ASSUME TypeOK, NEW o \in Ends, NEW newline \in BOOLEAN,
           NEW owed \in [Ends -> BOOLEAN], Arrives(o, newline, owed), UNCHANGED cooked
    PROVE  /\ line' \in [Ends -> 0..LINE_CAP] /\ rest' \in [Ends -> 0..LINE_CAP]
           /\ echo' \in [Ends -> BOOLEAN] /\ rd' \in [Ends -> RdPlaces]
           /\ \A f \in Ends : /\ rest'[f] <= line'[f] /\ (rest'[f] > 0 => cooked[f])
                              /\ Available(f)' >= Available(f)
           /\ \A f \in Ends : f # o => /\ line'[f] = line[f] /\ echo'[f] = owed[f]
                                       /\ rd'[f] = rd[f]
           /\ rd'[o] # rd[o] => prog[o] = "m"
           /\ rd'[o] # "read" \/ rd[o] = "read"
<1>. USE Sizes DEF Arrives
<1>1. line' \in [Ends -> 0..LINE_CAP] /\ \A f \in Ends : f # o => line'[f] = line[f]
  BY DEF TypeOK
<1>2. rest' \in [Ends -> 0..LINE_CAP] /\ \A f \in Ends : f # o => rest'[f] = rest[f]
  BY DEF TypeOK
<1>3. echo' \in [Ends -> BOOLEAN] /\ \A f \in Ends : f # o => echo'[f] = owed[f]
  BY DEF TypeOK
<1>4. /\ rd' \in [Ends -> RdPlaces] /\ \A f \in Ends : f # o => rd'[f] = rd[f]
      /\ rd'[o] # rd[o] => prog[o] = "m"
      /\ rd'[o] # "read" \/ rd[o] = "read"
  BY DEF TypeOK, Signalled, RdPlaces
<1>5. ASSUME NEW f \in Ends
      PROVE  /\ rest'[f] <= line'[f] /\ (rest'[f] > 0 => cooked[f])
             /\ line'[f] - rest'[f] >= line[f] - rest[f]
  <2>1. CASE f # o
    BY <1>1, <1>2, <2>1 DEF TypeOK
  <2>2. CASE f = o
    <3>1. line[o] \in 0..LINE_CAP /\ rest[o] \in 0..LINE_CAP /\ rest[o] <= line[o]
      BY DEF TypeOK
    <3>2. line'[o] = IF line[o] < LINE_CAP THEN line[o] + 1 ELSE line[o]
      BY DEF TypeOK
    <3>3. rest'[o] = IF newline \/ ~cooked[o] THEN 0
                     ELSE IF rest[o] < LINE_CAP THEN rest[o] + 1 ELSE rest[o]
      BY DEF TypeOK
    <3>4. line[o] < LINE_CAP \/ rest[o] = LINE_CAP
      BY DEF Room
    <3>. QED
      BY <2>2, <3>1, <3>2, <3>3, <3>4
  <2>. QED
    BY <2>1, <2>2
<1>. QED
  BY <1>1, <1>2, <1>3, <1>4, <1>5 DEF Available

\* A write of whoever is at "write" or "tail". A program of two threads goes
\* back to select, and ends when the call fails; a "cells" program is
\* "failed" then.
LEMMA WriteKeeps ==
    ASSUME IInv, NEW e \in Ends, wr[e] \in {"write", "tail"}, NEW newline \in BOOLEAN,
           NEW next \in {"select", "write", "tail", "ended"}, NEW failed \in {"ended", "failed"},
           prog[e] \in TwoThreads => next = "select" /\ failed = "ended",
           Write(e, newline, next, failed)
    PROVE  IInv'
<1>. DEFINE o == Other(e)
<1>0. /\ o \in Ends /\ o # e /\ \A f \in Ends : f = e \/ f = o
      /\ Other(o) = e
  BY OtherEnd
<1>. USE <1>0, Sizes, Cast
<1>. HIDE DEF o
<1>1. UNCHANGED <<prog, up, cooked, fds>> /\ \A f \in Ends : f # e => wr'[f] = wr[f]
  BY DEF Write, IInv, TypeOK
<1>2. CASE /\ up /\ said[e] < MaxSend
           /\ Arrives(o, newline, echo)
           /\ said' = [said EXCEPT ![e] = @ + 1]
           /\ wr' = [wr EXCEPT ![e] = next]
  <2>1. /\ line' \in [Ends -> 0..LINE_CAP] /\ rest' \in [Ends -> 0..LINE_CAP]
        /\ echo' \in [Ends -> BOOLEAN] /\ rd' \in [Ends -> RdPlaces]
        /\ \A f \in Ends : /\ rest'[f] <= line'[f] /\ (rest'[f] > 0 => cooked[f])
                           /\ Available(f)' >= Available(f)
        /\ rd'[e] = rd[e] /\ (rd'[o] # rd[o] => prog[o] = "m")
        /\ rd'[o] # "read" \/ rd[o] = "read"
    BY <1>1, <1>2, ArrivalKeeps DEF IInv, TypeOK
  <2>2. TypeOK'
    <3>1. said' \in [Ends -> 0..MaxSend]
      BY <1>2 DEF IInv, TypeOK
    <3>2. wr' \in [Ends -> WrPlaces]
      BY <1>2 DEF IInv, TypeOK, WrPlaces
    <3>. QED
      BY <1>1, <2>1, <3>1, <3>2 DEF IInv, TypeOK, WrPlaces, RdPlaces
  <2>3. Spoken'
    BY <1>2 DEF IInv, TypeOK, Spoken
  <2>4. Mute' /\ Heard'
    BY <1>1, <1>2 DEF IInv, TypeOK, Mute, Heard, TwoThreads
  <2>5. \A f \in Ends : WriterReason(f)'
    BY <1>1, <1>2 DEF IInv, TypeOK, Reasons, WriterReason, TwoThreads, Chats
  <2>6. \A f \in Ends : ReaderReason(f)'
    <3>1. \A f \in Ends : Available(f) \in Int /\ Available(f)' \in Int
      BY <2>2 DEF IInv, TypeOK, Available
    <3>. QED
      BY <1>1, <1>2, <2>1, <3>1 DEF IInv, TypeOK, Reasons, ReaderReason, TwoThreads
  <2>. QED
    BY <2>2, <2>3, <2>4, <2>5, <2>6 DEF IInv, Reasons
<1>3. CASE /\ ~up \/ (~Room(o) /\ "O_NONBLOCK" \in Flags[prog[e]])
           /\ wr' = [wr EXCEPT ![e] = failed]
           /\ UNCHANGED <<port, said, rd>>
  <2>1. TypeOK'
    BY <1>1, <1>3 DEF IInv, TypeOK, port
  <2>2. Spoken' /\ Mute' /\ Heard'
    BY <1>1, <1>3 DEF IInv, TypeOK, Spoken, Mute, Heard, port
  <2>3. Reasons'
    <3>1. ASSUME up
          PROVE  /\ prog[e] \in {"m", "m2", "rs"}
                 /\ prog[e] \in TwoThreads => wr[e] = "write" /\ said[o] > 0
      BY <1>3, <3>1, Ports DEF IInv, TypeOK, Heard, o
    <3>2. \A f \in Ends : ReaderReason(f) => ReaderReason(f)'
      BY <1>1, <1>3 DEF ReaderReason, Available, port
    <3>3. up => \A f \in Ends : WriterReason(f)'
      <4>1. up => prog[e] \notin Chats
        BY <3>1 DEF Chats
      <4>2. \A f \in Ends : f # e /\ WriterReason(f) => WriterReason(f)'
        BY <1>1, <1>3 DEF WriterReason
      <4>3. up => WriterReason(e)'
        BY <1>1, <1>3, <3>1, <4>1 DEF IInv, TypeOK, WriterReason, TwoThreads, o
      <4>. QED
        BY <4>2, <4>3 DEF IInv, Reasons
    <3>. QED
      BY <1>1, <3>2, <3>3 DEF IInv, Reasons
  <2>. QED
    BY <2>1, <2>2, <2>3 DEF IInv
<1>. QED
  BY <1>2, <1>3 DEF Write, o

\* An echo is no new word: whoever hears it has somebody to answer, and m,
\* which writes nothing, is not woken by an echo of itself.
LEMMA EchoKeeps ==
    ASSUME IInv, NEW e \in Ends, Echo(e)
    PROVE  IInv'
<1>. DEFINE o == Other(e)
<1>0. o \in Ends /\ o # e /\ (\A f \in Ends : f = e \/ f = o) /\ Other(o) = e
  BY OtherEnd
<1>. USE <1>0, Sizes, Cast
<1>. HIDE DEF o
<1>1. UNCHANGED <<prog, up, cooked, said, wr, fds>> /\ up /\ echo[e]
  BY DEF Echo
<1>2. /\ line' \in [Ends -> 0..LINE_CAP] /\ rest' \in [Ends -> 0..LINE_CAP]
      /\ echo' \in [Ends -> BOOLEAN] /\ rd' \in [Ends -> RdPlaces]
      /\ \A f \in Ends : /\ rest'[f] <= line'[f] /\ (rest'[f] > 0 => cooked[f])
                         /\ Available(f)' >= Available(f)
      /\ rd'[e] = rd[e] /\ (rd'[o] # rd[o] => prog[o] = "m")
      /\ rd'[o] # "read" \/ rd[o] = "read"
  <2>. DEFINE owed == [echo EXCEPT ![e] = FALSE]
  <2>1. owed \in [Ends -> BOOLEAN]
    BY DEF IInv, TypeOK
  <2>2. PICK newline \in BOOLEAN : Arrives(o, newline, owed)
    BY DEF Echo, o
  <2>. HIDE DEF owed
  <2>. QED
    BY <1>1, <2>1, <2>2, ArrivalKeeps DEF IInv, TypeOK
<1>3. TypeOK'
  BY <1>1, <1>2 DEF IInv, TypeOK, RdPlaces
<1>4. said[e] > 0 \/ said[o] > 0
  BY <1>1 DEF IInv, Spoken, o
<1>5. Spoken' /\ Mute' /\ Heard'
  BY <1>1, <1>4 DEF IInv, Spoken, Mute, Heard
<1>6. Reasons'
  <2>1. \A f \in Ends : Available(f) \in Int /\ Available(f)' \in Int
    BY <1>3 DEF IInv, TypeOK, Available
  <2>2. \A f \in Ends : WriterReason(f)'
    BY <1>1 DEF IInv, Reasons, WriterReason
  <2>3. prog[o] = "m" => said[e] > 0
    BY <1>4 DEF IInv, Mute
  <2>4. \A f \in Ends : ReaderReason(f)'
    BY <1>1, <1>2, <2>1, <2>3 DEF IInv, TypeOK, Reasons, ReaderReason, TwoThreads
  <2>. QED
    BY <2>2, <2>4 DEF Reasons
<1>. QED
  BY <1>3, <1>5, <1>6 DEF IInv

\* A read. Who is not rs comes back from it, unless it fails, which it does
\* of m2 alone and of it only when there is nothing to be read.
LEMMA ReadKeeps ==
    ASSUME IInv, NEW e \in Ends, prog[e] # "m",
           NEW next \in {"select", "loop", "ended"}, NEW failed \in {"select", "loop", "ended"},
           next = "ended" => prog[e] = "rs",
           prog[e] \in TwoThreads => rd[e] = "read",
           Read(e, next, failed)
    PROVE  IInv'
<1>. USE Sizes, Cast, OtherEnd
<1>1. UNCHANGED <<prog, up, rest, echo, cooked, said, wr, fds>>
  BY DEF Read
<1>2. /\ line' \in [Ends -> 0..LINE_CAP] /\ rest[e] <= line'[e] /\ line'[e] <= line[e]
      /\ \A f \in Ends : f # e => line'[f] = line[f]
  <2>1. PICK n \in 0..Available(e) : line' = [line EXCEPT ![e] = @ - n]
    BY DEF Read
  <2>2. line[e] \in 0..LINE_CAP /\ rest[e] \in 0..LINE_CAP /\ rest[e] <= line[e]
    BY DEF IInv, TypeOK
  <2>3. line[e] - n \in 0..LINE_CAP /\ rest[e] <= line[e] - n /\ line[e] - n <= line[e]
    BY <2>1, <2>2 DEF Available
  <2>. QED
    BY <2>1, <2>3 DEF IInv, TypeOK
<1>3. rd'[e] \in {next, failed} /\ rd' = [rd EXCEPT ![e] = rd'[e]]
  BY DEF Read, IInv, TypeOK
<1>4. TypeOK'
  <2>1. rd' \in [Ends -> RdPlaces]
    BY <1>3 DEF IInv, TypeOK, RdPlaces
  <2>2. \A f \in Ends : rest'[f] <= line'[f] /\ (rest'[f] > 0 => cooked'[f])
    BY <1>1, <1>2 DEF IInv, TypeOK
  <2>. QED
    BY <1>1, <1>2, <2>1, <2>2 DEF IInv, TypeOK, RdPlaces
<1>5. Spoken' /\ Mute' /\ Heard'
  BY <1>1, <1>2 DEF IInv, TypeOK, Spoken, Mute, Heard
<1>6. Reasons'
  <2>1. ASSUME up PROVE rd'[e] = next
    <3>1. ASSUME Available(e) = 0, Port[prog[e]].min > 0, "O_NONBLOCK" \in Flags[prog[e]]
          PROVE FALSE
      BY <2>1, <3>1, Ports DEF IInv, TypeOK, Reasons, ReaderReason, TwoThreads
    <3>. QED
      BY <2>1, <3>1 DEF Read, IInv, TypeOK
  <2>. QED
    BY <1>1, <1>2, <1>3, <2>1
       DEF IInv, TypeOK, Reasons, WriterReason, ReaderReason, Available
<1>. QED
  BY <1>4, <1>5, <1>6 DEF IInv

\* The reading part moves on: to "read" where there is input, and to its end
\* with a reason.
LEMMA ReaderGoesKeeps ==
    ASSUME IInv, NEW e \in Ends, NEW from \in RdPlaces, NEW to \in RdPlaces,
           ReaderGoes(e, from, to),
           prog[e] \in TwoThreads /\ to = "read" => Readable(e),
           up /\ to = "ended" => prog[e] = "rs"
    PROVE  IInv'
<1>1. UNCHANGED <<prog, up, port, cooked, said, wr, fds>> /\ rd' = [rd EXCEPT ![e] = to]
  BY DEF ReaderGoes
<1>2. TypeOK'
  BY <1>1 DEF IInv, TypeOK, RdPlaces, port
<1>3. Spoken' /\ Mute' /\ Heard'
  BY <1>1 DEF IInv, Spoken, Mute, Heard, port
<1>4. Reasons'
  BY <1>1 DEF IInv, TypeOK, Reasons, WriterReason, ReaderReason, Readable, Available, port
<1>. QED
  BY <1>2, <1>3, <1>4 DEF IInv

\* A program starts, its input perhaps flushed, its port perhaps raw from now.
LEMMA OpenKeeps ==
    ASSUME IInv, NEW e \in Ends,
           NEW w \in {"select", "write", "ended"},
           NEW r \in {"opened", "select", "wait", "loop"}, NEW flush \in BOOLEAN,
           prog[e] \in TwoThreads => w = "select",
           prog[e] = "m" => w # "write",
           Open(e, w, r, flush)
    PROVE  IInv'
<1>. USE Sizes, OtherEnd
<1>1. /\ UNCHANGED <<prog, up, said>>
      /\ wr' = [wr EXCEPT ![e] = IF up THEN w ELSE "ended"]
      /\ rd' = [rd EXCEPT ![e] = IF up THEN r ELSE "ended"]
      /\ fds' = [fds EXCEPT ![e] = IF up THEN 1 ELSE 0]
      /\ wr[e] = "none" /\ rd[e] = "none"
  BY DEF Open
<1>2. /\ line' \in [Ends -> 0..LINE_CAP] /\ rest' \in [Ends -> 0..LINE_CAP]
      /\ cooked' \in [Ends -> BOOLEAN] /\ echo' \in [Ends -> BOOLEAN]
      /\ \A f \in Ends : /\ rest'[f] <= line'[f] /\ (rest'[f] > 0 => cooked'[f])
                         /\ line'[f] <= line[f] /\ (echo'[f] => echo[f])
                         /\ f # e => Available(f)' = Available(f)
  <2>1. Port[prog[e]].raw \in BOOLEAN
    BY Cast, Ports DEF IInv
  <2>2. /\ line' = [line EXCEPT ![e] = IF up /\ flush THEN 0 ELSE @]
        /\ rest' = [rest EXCEPT ![e] = IF up /\ (flush \/ Port[prog[e]].raw) THEN 0 ELSE @]
        /\ cooked' = [cooked EXCEPT ![e] = @ /\ ~(up /\ Port[prog[e]].raw)]
        /\ echo' = [echo EXCEPT ![e] = @ /\ ~(up /\ flush)]
    BY DEF Open
  <2>. QED
    BY <2>1, <2>2 DEF IInv, TypeOK, Available
<1>3. TypeOK'
  <2>1. wr' \in [Ends -> WrPlaces]
    BY <1>1 DEF IInv, TypeOK, WrPlaces
  <2>2. rd' \in [Ends -> RdPlaces]
    BY <1>1 DEF IInv, TypeOK, RdPlaces
  <2>3. fds' \in [Ends -> 0..MAX_FDS]
    BY <1>1 DEF IInv, TypeOK
  <2>. QED
    BY <1>1, <1>2, <2>1, <2>2, <2>3 DEF IInv, TypeOK, WrPlaces, RdPlaces
<1>4. Spoken' /\ Mute' /\ Heard'
  <2>1. \A f \in Ends : line[f] \in 0..LINE_CAP /\ line'[f] \in 0..LINE_CAP
    BY <1>2 DEF IInv, TypeOK
  <2>2. Spoken'
    BY <1>1, <1>2, <2>1 DEF IInv, Spoken
  <2>3. wr' \in [Ends -> WrPlaces] /\ (\A f \in Ends : f # e => wr'[f] = wr[f])
        /\ wr'[e] \in {w, "ended"}
    BY <1>1 DEF IInv, TypeOK, WrPlaces
  <2>4. Mute'
    BY <1>1, <2>3 DEF IInv, Mute
  <2>5. Heard'
    BY <1>1, <2>3 DEF IInv, Heard
  <2>. QED
    BY <2>2, <2>4, <2>5
<1>5. Reasons'
  <2>. SUFFICES ASSUME up PROVE \A f \in Ends : (WriterReason(f) /\ ReaderReason(f))'
    BY <1>1 DEF Reasons
  <2>1. \A f \in Ends : WriterReason(f)'
    BY <1>1 DEF IInv, TypeOK, Reasons, WriterReason
  <2>2. ReaderReason(e)'
    BY <1>1 DEF IInv, TypeOK, ReaderReason
  <2>3. ASSUME NEW f \in Ends, f # e PROVE ReaderReason(f)'
    BY <1>1, <1>2, <2>3 DEF IInv, TypeOK, Reasons, ReaderReason
  <2>. QED
    BY <2>1, <2>2, <2>3
<1>. QED
  BY <1>3, <1>4, <1>5 DEF IInv
-----------------------------------------------------------------------------
(* The programs.                                                           *)

LEMMA TwoThreadsKeep ==
    ASSUME IInv, NEW e \in Ends, TwoThreadsNext(e)
    PROVE  IInv'
<1>1. prog[e] \in TwoThreads /\ prog[e] # "m" /\ prog[e] # "rs"
  BY DEF TwoThreadsNext, TwoThreads, m1_main, m1_thread_w, m1_thread_r, m2_main,
         m2_thread_w, m2_thread_r
<1>2. main(e) \/ thread_w(e) \/ thread_r(e)
  BY DEF TwoThreadsNext, m1_main, m1_thread_w, m1_thread_r, m2_main,
         m2_thread_w, m2_thread_r
<1>3. CASE main(e)
  <2>. Open(e, "select", "select", FALSE)
    BY <1>3 DEF main
  <2>. QED
    BY <1>1, OpenKeeps
<1>4. CASE /\ wr[e] = "select" /\ WriterSelect(e)
           /\ wr' = [wr EXCEPT ![e] = "write"]
           /\ UNCHANGED <<prog, up, port, cooked, said, rd, fds>>
  <2>1. TypeOK' /\ Spoken' /\ Mute'
    BY <1>1, <1>4 DEF IInv, TypeOK, Spoken, Mute, port
  <2>2. up => said[Other(e)] > 0
    <3>1. up => line[e] > 0
      BY <1>4 DEF IInv, TypeOK, WriterSelect, Readable, Available
    <3>. QED
      BY <1>1, <3>1 DEF IInv, Spoken, Heard
  <2>3. Heard'
    BY <1>4, <2>2 DEF IInv, TypeOK, Heard, port
  <2>4. Reasons'
    BY <1>4 DEF IInv, TypeOK, Reasons, WriterReason, ReaderReason, Available, port
  <2>. QED
    BY <2>1, <2>3, <2>4 DEF IInv
<1>5. CASE wr[e] = "write" /\ Write(e, TRUE, "select", "ended")
  BY <1>5, WriteKeeps
<1>6. CASE thread_r(e)
  <2>1. CASE Readable(e) /\ ReaderGoes(e, "select", "read")
    BY <2>1, ReaderGoesKeeps DEF RdPlaces
  <2>2. CASE rd[e] = "read" /\ Read(e, "select", "ended")
    BY <1>1, <2>2, ReadKeeps
  <2>. QED
    BY <1>6, <2>1, <2>2 DEF thread_r
<1>. QED
  BY <1>2, <1>3, <1>4, <1>5, <1>6 DEF thread_w

LEMMA AsyncKeeps ==
    ASSUME IInv, NEW e \in Ends, AsyncNext(e)
    PROVE  IInv'
<1>1. prog[e] = "m" /\ prog[e] \notin TwoThreads
  BY DEF AsyncNext, m_main, set_async_mode, signal_handler_IO, TwoThreads
<1>2. CASE m_main(e)
  <2>. Open(e, "ended", "opened", FALSE)
    BY <1>2 DEF m_main
  <2>. QED
    BY <1>1, OpenKeeps
<1>3. CASE ReaderGoes(e, "opened", "owner")
  BY <1>1, <1>3, ReaderGoesKeeps DEF RdPlaces
<1>4. CASE ReaderGoes(e, "owner", "sleep")
  BY <1>1, <1>4, ReaderGoesKeeps DEF RdPlaces
<1>5. CASE ReaderGoes(e, "handler", "sleep")
  BY <1>1, <1>5, ReaderGoesKeeps DEF RdPlaces
<1>. QED
  BY <1>2, <1>3, <1>4, <1>5 DEF AsyncNext, set_async_mode, signal_handler_IO

LEMMA ChatKeeps ==
    ASSUME IInv, NEW e \in Ends, ChatNext(e)
    PROVE  IInv'
<1>1. /\ prog[e] \in Chats /\ prog[e] \notin TwoThreads
      /\ prog[e] # "m" /\ prog[e] # "rs"
  BY DEF ChatNext, pts_enet_chat_module, lib_main, cells_enet_chat_module,
         pts_read_serial_port, lib_read_serial_port, cells_read_serial_port, Chats, TwoThreads
<1>2. CASE OpenFor(e)
  <2>. DEFINE flush == prog[e] = "cells"
  <2>1. Open(e, "write", "wait", flush) /\ flush \in BOOLEAN
    BY <1>2 DEF OpenFor
  <2>. HIDE DEF flush
  <2>. QED
    BY <1>1, <2>1, OpenKeeps
<1>3. ASSUME wr[e] = "write", NEW newline \in CommandNewline(e),
             Write(e, newline, "tail", "failed")
      PROVE  IInv'
  <2>. newline \in BOOLEAN
    BY DEF CommandNewline
  <2>. QED
    BY <1>1, <1>3, WriteKeeps
<1>8. ASSUME wr[e] = "tail", NEW newline \in TailNewline(e),
             Write(e, newline, "ended", "ended")
      PROVE  IInv'
  <2>. newline \in BOOLEAN
    BY DEF TailNewline
  <2>. QED
    BY <1>1, <1>8, WriteKeeps
<1>4. CASE ReaderGoes(e, "wait", "loop")
  BY <1>1, <1>4, ReaderGoesKeeps DEF RdPlaces
<1>5. CASE wr[e] = "failed" /\ ReaderGoes(e, "wait", "ended")
  <2>1. ~up
    BY <1>1, <1>5 DEF IInv, Reasons, WriterReason
  <2>. QED
    BY <1>1, <1>5, <2>1, ReaderGoesKeeps DEF RdPlaces
<1>6. CASE ReaderGoes(e, "loop", "read")
  BY <1>1, <1>6, ReaderGoesKeeps DEF RdPlaces
<1>7. CASE Read(e, "loop", "ended")
  BY <1>1, <1>7, ReadKeeps
<1>. QED
  BY <1>2, <1>3, <1>4, <1>5, <1>6, <1>7, <1>8
     DEF ChatNext, pts_enet_chat_module, lib_main, cells_enet_chat_module, Command,
         pts_read_serial_port, lib_read_serial_port, read_serial_port, cells_read_serial_port

LEMMA OneReaderKeeps ==
    ASSUME IInv, NEW e \in Ends, rs(e) \/ forsel(e) \/ sel(e) \/ Device(e)
    PROVE  IInv'
<1>1. /\ prog[e] \in {"rs", "forsel", "sel", "device"}
      /\ prog[e] \notin TwoThreads /\ prog[e] # "m"
  BY DEF rs, forsel, sel, Device, TwoThreads
<1>2. ASSUME NEW w \in {"write", "ended"}, NEW r \in {"select", "loop"},
             Open(e, w, r, FALSE)
      PROVE  IInv'
  BY <1>1, <1>2, OpenKeeps
<1>3. CASE ReaderGoes(e, "select", "read")
  BY <1>1, <1>3, ReaderGoesKeeps DEF RdPlaces
<1>4. CASE prog[e] = "rs" /\ ReaderGoes(e, "select", "ended")
  BY <1>1, <1>4, ReaderGoesKeeps DEF RdPlaces
<1>5. CASE prog[e] = "rs" /\ Read(e, "ended", "ended")
  BY <1>1, <1>5, ReadKeeps
<1>6. CASE Read(e, "loop", "ended") \/ Read(e, "select", "select") \/ Read(e, "loop", "loop")
  BY <1>1, <1>6, ReadKeeps
<1>7. ASSUME wr[e] = "write", NEW newline \in BOOLEAN, Write(e, newline, "write", "ended")
      PROVE  IInv'
  BY <1>1, <1>7, WriteKeeps
<1>8. CASE prog[e] = "forsel" /\ forsel_open(e)
  <2>1. TypeOK'
    <3>1. fds' \in [Ends -> 0..MAX_FDS]
      BY <1>8, Sizes DEF forsel_open, IInv, TypeOK
    <3>2. rd' \in [Ends -> RdPlaces]
      BY <1>8 DEF forsel_open, IInv, TypeOK, RdPlaces
    <3>3. UNCHANGED <<prog, up, line, rest, echo, cooked, said, wr>>
      BY <1>8 DEF forsel_open, port
    <3>. QED
      BY <3>1, <3>2, <3>3 DEF IInv, TypeOK, RdPlaces
  <2>2. Spoken' /\ Mute' /\ Heard'
    BY <1>8 DEF forsel_open, IInv, Spoken, Mute, Heard, port
  <2>3. Reasons'
    BY <1>1, <1>8, Sizes DEF forsel_open, IInv, TypeOK, Reasons, WriterReason,
                                ReaderReason, Available, port
  <2>. QED
    BY <2>1, <2>2, <2>3 DEF IInv
<1>. QED
  BY <1>2, <1>3, <1>4, <1>5, <1>6, <1>7, <1>8 DEF rs, forsel, sel, Device

LEMMA CutKeeps ==
    ASSUME IInv, Cut
    PROVE  IInv'
<1>1. /\ ~up' /\ up' \in BOOLEAN
      /\ line' = [e \in Ends |-> 0] /\ rest' = [e \in Ends |-> 0]
      /\ echo' = [e \in Ends |-> FALSE]
      /\ UNCHANGED <<prog, cooked, said, wr, rd, fds>>
  BY DEF Cut
<1>2. 0 \in 0..LINE_CAP
  BY Sizes
<1>3. TypeOK'
  BY <1>1, <1>2 DEF IInv, TypeOK
<1>4. Spoken' /\ Mute' /\ Heard' /\ Reasons'
  BY <1>1, OtherEnd DEF IInv, TypeOK, Spoken, Mute, Heard, Reasons
<1>. QED
  BY <1>3, <1>4 DEF IInv

LEMMA NextIInv ==
    ASSUME IInv, [Next]_vars
    PROVE  IInv'
<1>1. ASSUME UNCHANGED vars PROVE IInv'
  BY <1>1 DEF vars, port, IInv, TypeOK, Spoken, Mute, Heard, Reasons, WriterReason,
              ReaderReason, Available
<1>. QED
  BY <1>1, TwoThreadsKeep, AsyncKeeps, ChatKeeps, OneReaderKeeps, EchoKeeps, CutKeeps DEF Next

LEMMA Invariance == Spec => []IInv
<1>. QED
  BY InitIInv, NextIInv, PTL DEF Spec

\* The lines of every two programs stay within their buffers, and none of
\* them has more descriptors than it may have, although one opens the port
\* again and again.
THEOREM TypeCorrect == Spec => []TypeOK
<1>1. IInv => TypeOK
  BY DEF IInv
<1>. QED
  BY <1>1, Invariance, PTL

\* m1 and m2, whose writing thread waits until it could read, are silent
\* until spoken to, on a line of any size and with any program at its other
\* end.
THEOREM SilentUntilSpokenTo == Spec => []SpokenToFirst
<1>1. IInv => SpokenToFirst
  BY DEF IInv, Heard, SpokenToFirst
<1>. QED
  BY <1>1, Invariance, PTL

\* While the line is up a program ends only for the reasons its code gives,
\* and a reading thread of m1 or m2 that select has woken finds its input,
\* on a line of any size and with any program at its other end.
THEOREM EndsWithReason == Spec => []EndsForAReason
<1>1. IInv => EndsForAReason
  BY DEF IInv, Reasons, WriterReason, ReaderReason, EndsForAReason
<1>. QED
  BY <1>1, Invariance, PTL
=============================================================================
