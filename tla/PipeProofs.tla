------------------------------ MODULE PipeProofs -----------------------------
(***************************************************************************)
(* Proofs about the programs of the named pipes: FifoChat, for any number  *)
(* of kills, and PipeSelect, for every capacity, number of clients and     *)
(* width of int.                                                           *)
(***************************************************************************)
EXTENDS FifoChat, PipeSelect, TLAPS, FiniteSetTheorems

-----------------------------------------------------------------------------
(* FifoChat. The invariants of its runs are not inductive: that they hold  *)
(* rests on how many lines there are or will be, which is counted here.    *)

\* p has a reading end, or a writing end, from the beginning of open to close.
Reading(p) == pc[p] \in {"openingR", "read", "closeR"}
Writing(p) == pc[p] \in {"openingW", "write", "closeW"}

\* p reads next, or writes next, without waiting in open any more.
Ready(p) == pc[p] = "read" \/ (pc[p] = "openingR" /\ met[p])
Typing(p) == pc[p] = "write" \/ (pc[p] = "openingW" /\ met[p])

Ends ==
    /\ readers = {p \in Programs : Reading(p)}
    /\ writers = {p \in Programs : Writing(p)}

\* An open that finds the other end open, or sees it opened, returns; and what
\* one program opens for reading the other does not.
Meet ==
    \A p \in Programs :
        /\ Writing(p) /\ pc[Other(p)] = "openingR" => met[Other(p)]
        /\ Reading(p) /\ pc[Other(p)] = "openingW" => met[Other(p)]
        /\ Ready(p) => ~Ready(Other(p)) /\ pc[Other(p)] # "closeR"
        /\ Typing(p) => ~Typing(Other(p)) /\ pc[Other(p)] # "closeW"

\* A program that writes before it reads again has a line to write.
Owes(p) ==
    \/ pc[p] \in {"closeR", "openW", "openingW", "write"}
    \/ pc[p] = "stopped" /\ First(p) = "openW"
Due(p) == IF Owes(p) THEN 1 ELSE 0

\* The lines in the pipe and those that will come without another being read.
Lines == Len(pipe) + Due("piper") + Due("pipew")

\* p reads before anything is written, or nothing will be before it opens.
Starved(p) ==
    \/ Ready(p) /\ pc[Other(p)] \notin {"openingW", "write"}
    \/ ~Owes(p) /\ pc[Other(p)] = "closeW"

\* There is one line to begin with and every kill brings at most one more; one
\* less where a program is about to read nothing and then to write.
Budget ==
    /\ Lines <= 1 + kills
    /\ pipe = <<>> /\ (\E p \in Programs : Starved(p)) => Lines <= kills

\* The one line while nobody is killed: who types has a reader,
HasReader == \A p \in Programs : Typing(p) => pc[Other(p)] \in {"openingR", "read"}

\* a written line is let in to be read by the program that did not write it,
LetIn ==
    pipe # <<>> => /\ pipe[1].number = said[pipe[1].from]
                  /\ Ready(Other(pipe[1].from))

\* and what a program has heard is all the other has said but for that line.
Heard ==
    \A p \in Programs :
        heard[p] = IF pipe # <<>> /\ pipe[1].from = Other(p)
                   THEN (said[Other(p)] + 2) % 3 ELSE said[Other(p)]

OneLine == kills = 0 => ~broken /\ Lines = 1 /\ HasReader /\ LetIn /\ Heard

ChatInv == TypeOK /\ Ends /\ Meet /\ Budget /\ OneLine

-----------------------------------------------------------------------------
\* There are two programs, and they begin differently.
LEMMA Two ==
    ASSUME NEW p \in Programs
    PROVE  /\ Other(p) \in Programs /\ Other(p) # p /\ Other(Other(p)) = p
           /\ Programs = {p, Other(p)}
           /\ First(p) \in {"openR", "openW"} /\ First(Other(p)) \in {"openR", "openW"}
           /\ First(p) # First(Other(p))
<1>1. Other("piper") = "pipew" /\ Other("pipew") = "piper"
  BY DEF Other, Programs
<1>2. p = "piper" \/ p = "pipew"
  BY DEF Programs
<1>. QED
  BY <1>1, <1>2 DEF Programs, First

\* The line a read returns.
LEMMA FirstLine ==
    ASSUME TypeOK, pipe # <<>>
    PROVE  /\ Len(pipe) \in Nat \ {0} /\ pipe[1] \in [from : Programs, number : 0..2]
           /\ pipe[1].from \in Programs /\ pipe[1].number \in 0..2
<1>. DEFINE Line == [from : Programs, number : 0..2]
<1>1. pipe \in Seq(Line)
  BY DEF TypeOK
<1>2. Len(pipe) \in Nat /\ Len(pipe) # 0
  BY <1>1
<1>3. pipe[1] \in Line
  <2>. HIDE DEF Line
  <2>. QED
    BY <1>1, <1>2
<1>. QED
  BY <1>2, <1>3

\* The lines counted from either program, in a state and in the next one.
LEMMA LinesOf ==
    ASSUME NEW p \in Programs
    PROVE  /\ Due(p) \in 0..1 /\ Due(p)' \in 0..1
           /\ Due(Other(p)) \in 0..1 /\ Due(Other(p))' \in 0..1
           /\ Len(pipe) \in Nat => Lines = Len(pipe) + Due(p) + Due(Other(p))
           /\ Len(pipe') \in Nat => Lines' = Len(pipe') + Due(p)' + Due(Other(p))'
<1>1. \A r : Due(r) \in 0..1 /\ Due(r)' \in 0..1
  BY DEF Due
<1>2. {"piper", "pipew"} = {p, Other(p)} /\ p # Other(p)
  BY Two DEF Programs
<1>3. \/ p = "piper" /\ Other(p) = "pipew"
      \/ p = "pipew" /\ Other(p) = "piper"
  BY <1>2
<1>4. Len(pipe) \in Nat => Lines = Len(pipe) + Due(p) + Due(Other(p))
  BY <1>1, <1>3 DEF Lines
<1>5. Len(pipe') \in Nat => Lines' = Len(pipe') + Due(p)' + Due(Other(p))'
  BY <1>1, <1>3 DEF Lines
<1>. QED
  BY <1>1, <1>4, <1>5

\* A program that is started owes what it owed when it was stopped.
LEMMA StartKeeps ==
    ASSUME ChatInv, NEW p \in Programs, Start(p)
    PROVE  ChatInv'
<1>. PICK q : q = Other(p)
  OBVIOUS
<1>1. /\ q \in Programs /\ q # p /\ Other(p) = q /\ Other(q) = p /\ Programs = {p, q}
      /\ First(p) \in {"openR", "openW"} /\ First(q) \in {"openR", "openW"} /\ First(p) # First(q)
  BY Two
<1>2. /\ pc[p] = "stopped" /\ pc[q] \in PCs /\ pc'[p] = First(p) /\ pc'[q] = pc[q]
      /\ pc' \in [Programs -> PCs]
  BY <1>1 DEF ChatInv, TypeOK, Start, PCs
<1>3. UNCHANGED <<readers, writers, met, pipe, said, heard, kills, broken>>
  BY DEF Start
<1>4. TypeOK'
  BY <1>2, <1>3 DEF ChatInv, TypeOK
<1>5. Ends'
  BY <1>1, <1>2, <1>3 DEF ChatInv, Ends, Reading, Writing
<1>6. Meet'
  BY <1>1, <1>2, <1>3 DEF ChatInv, Meet, Reading, Writing, Ready, Typing
<1>7. Owes(p)' = Owes(p) /\ Owes(q)' = Owes(q)
  BY <1>1, <1>2, <1>3 DEF Owes
<1>8. Lines' = Lines
  BY <1>1, <1>2, <1>3, <1>7 DEF Lines, Due, Programs
<1>9. Budget'
  BY <1>1, <1>2, <1>3, <1>7, <1>8 DEF ChatInv, Budget, Starved, Ready
<1>10. OneLine'
  <2>1. HasReader => HasReader'
    BY <1>1, <1>2, <1>3 DEF HasReader, Typing
  <2>2. LetIn => LetIn'
    <3>. SUFFICES ASSUME LetIn, pipe # <<>>
                  PROVE  pipe[1].number = said[pipe[1].from] /\ Ready(Other(pipe[1].from))'
      BY <1>3 DEF LetIn
    <3>1. pipe[1].from \in Programs
      BY FirstLine DEF ChatInv
    <3>2. Ready(p) = Ready(p)' /\ Ready(q) = Ready(q)'
      BY <1>1, <1>2, <1>3 DEF Ready
    <3>. QED
      BY <1>1, <1>3, <3>1, <3>2 DEF LetIn
  <2>3. Heard => Heard'
    BY <1>3 DEF Heard
  <2>. QED
    BY <1>3, <1>8, <2>1, <2>2, <2>3 DEF ChatInv, OneLine
<1>. QED
  BY <1>4, <1>5, <1>6, <1>9, <1>10 DEF ChatInv

\* To open an end changes who is let in and no line; a program that has seen
\* the other end opened before stays let in.
LEMMA OpenRKeeps ==
    ASSUME ChatInv, NEW p \in Programs, OpenR(p)
    PROVE  ChatInv'
<1>. PICK q : q = Other(p)
  OBVIOUS
<1>1. /\ q \in Programs /\ q # p /\ Other(p) = q /\ Other(q) = p /\ Programs = {p, q}
  BY Two
<1>2. /\ pc[p] = "openR" /\ pc[q] \in PCs /\ pc'[p] = "openingR" /\ pc'[q] = pc[q]
      /\ pc' \in [Programs -> PCs]
  BY <1>1 DEF ChatInv, TypeOK, OpenR, PCs
<1>3. UNCHANGED <<writers, pipe, said, heard, kills, broken>> /\ readers' = readers \cup {p}
  BY DEF OpenR
<1>4. met \in [Programs -> BOOLEAN] /\ met' \in [Programs -> BOOLEAN]
  BY DEF ChatInv, TypeOK, OpenR
<1>5. (met'[p] <=> Writing(q)) /\ (met'[q] <=> met[q] \/ pc[q] = "openingW")
  <2>1. writers # {} <=> Writing(q)
    BY <1>1, <1>2 DEF ChatInv, Ends, Writing
  <2>2. met'[p] <=> writers # {}
    BY DEF OpenR
  <2>3. met'[q] <=> met[q] \/ pc[q] = "openingW"
    BY <1>1 DEF OpenR
  <2>. QED
    BY <2>1, <2>2, <2>3
<1>6. TypeOK'
  BY <1>1, <1>2, <1>3, <1>4 DEF ChatInv, TypeOK
<1>7. Ends'
  BY <1>1, <1>2, <1>3 DEF ChatInv, Ends, Reading, Writing
<1>8. Meet'
  BY <1>1, <1>2, <1>3, <1>4, <1>5 DEF ChatInv, Meet, Reading, Writing, Ready, Typing
<1>9. Owes(p)' = Owes(p) /\ Owes(q)' = Owes(q)
  BY <1>1, <1>2, <1>3 DEF Owes
<1>10. Lines' = Lines
  BY <1>1, <1>2, <1>3, <1>9 DEF Lines, Due, Programs
<1>11. Budget'
  <2>1. (Starved(p)' => Starved(p)) /\ (Starved(q)' => Starved(q))
    BY <1>1, <1>2, <1>3, <1>4, <1>5, <1>9 DEF Starved, Ready, Writing, Owes
  <2>. QED
    BY <1>1, <1>3, <1>10, <2>1 DEF ChatInv, Budget
<1>12. OneLine'
  <2>1. HasReader => HasReader'
    BY <1>1, <1>2, <1>3, <1>4, <1>5 DEF HasReader, Typing
  <2>2. LetIn => LetIn'
    <3>. SUFFICES ASSUME LetIn, pipe # <<>>
                  PROVE  pipe[1].number = said[pipe[1].from] /\ Ready(Other(pipe[1].from))'
      BY <1>3 DEF LetIn
    <3>1. pipe[1].from \in Programs
      BY FirstLine DEF ChatInv
    <3>2. (Ready(p) => Ready(p)') /\ (Ready(q) => Ready(q)')
      BY <1>1, <1>2, <1>3, <1>4, <1>5 DEF Ready
    <3>. QED
      BY <1>1, <1>3, <3>1, <3>2 DEF LetIn
  <2>3. Heard => Heard'
    BY <1>3 DEF Heard
  <2>. QED
    BY <1>3, <1>10, <2>1, <2>2, <2>3 DEF ChatInv, OneLine
<1>. QED
  BY <1>6, <1>7, <1>8, <1>11, <1>12 DEF ChatInv

\* Who opens for writing owes a line, so without a kill the other does not: it
\* has not read, and is there to read.
LEMMA OpenWKeeps ==
    ASSUME ChatInv, NEW p \in Programs, OpenW(p)
    PROVE  ChatInv'
<1>. PICK q : q = Other(p)
  OBVIOUS
<1>1. /\ q \in Programs /\ q # p /\ Other(p) = q /\ Other(q) = p /\ Programs = {p, q}
  BY Two
<1>2. /\ pc[p] = "openW" /\ pc[q] \in PCs /\ pc'[p] = "openingW" /\ pc'[q] = pc[q]
      /\ pc' \in [Programs -> PCs]
  BY <1>1 DEF ChatInv, TypeOK, OpenW, PCs
<1>3. UNCHANGED <<readers, pipe, said, heard, kills, broken>> /\ writers' = writers \cup {p}
  BY DEF OpenW
<1>4. met \in [Programs -> BOOLEAN] /\ met' \in [Programs -> BOOLEAN]
  BY DEF ChatInv, TypeOK, OpenW
<1>5. (met'[p] <=> Reading(q)) /\ (met'[q] <=> met[q] \/ pc[q] = "openingR")
  <2>1. readers # {} <=> Reading(q)
    BY <1>1, <1>2 DEF ChatInv, Ends, Reading
  <2>2. met'[p] <=> readers # {}
    BY DEF OpenW
  <2>3. met'[q] <=> met[q] \/ pc[q] = "openingR"
    BY <1>1 DEF OpenW
  <2>. QED
    BY <2>1, <2>2, <2>3
<1>6. TypeOK'
  BY <1>1, <1>2, <1>3, <1>4 DEF ChatInv, TypeOK
<1>7. Ends'
  BY <1>1, <1>2, <1>3 DEF ChatInv, Ends, Reading, Writing
<1>8. Meet'
  BY <1>1, <1>2, <1>3, <1>4, <1>5 DEF ChatInv, Meet, Reading, Writing, Ready, Typing
<1>9. Owes(p)' = Owes(p) /\ Owes(q)' = Owes(q)
  BY <1>1, <1>2, <1>3 DEF Owes
<1>10. Lines' = Lines
  BY <1>1, <1>2, <1>3, <1>9 DEF Lines, Due, Programs
<1>11. Budget'
  <2>1. (Starved(p)' => Starved(p)) /\ (Starved(q)' => Starved(q))
    BY <1>1, <1>2, <1>3, <1>4, <1>5, <1>9 DEF Starved, Ready, Writing, Owes
  <2>. QED
    BY <1>1, <1>3, <1>10, <2>1 DEF ChatInv, Budget
<1>12. OneLine'
  <2>1. Lines = 1 /\ HasReader => HasReader'
    <3>1. Lines = 1 => pc[q] # "closeR"
      <4>1. Len(pipe) \in Nat
        BY DEF ChatInv, TypeOK
      <4>2. Due(p) = 1 /\ (pc[q] = "closeR" => Due(q) = 1)
        BY <1>2 DEF Due, Owes
      <4>3. Lines = Len(pipe) + Due(p) + Due(q)
        BY <1>1, <4>1, LinesOf
      <4>. QED
        BY <4>1, <4>2, <4>3
    <3>. QED
      BY <1>1, <1>2, <1>3, <1>4, <1>5, <3>1 DEF HasReader, Typing, Reading
  <2>2. LetIn => LetIn'
    <3>. SUFFICES ASSUME LetIn, pipe # <<>>
                  PROVE  pipe[1].number = said[pipe[1].from] /\ Ready(Other(pipe[1].from))'
      BY <1>3 DEF LetIn
    <3>1. pipe[1].from \in Programs
      BY FirstLine DEF ChatInv
    <3>2. (Ready(p) => Ready(p)') /\ (Ready(q) => Ready(q)')
      BY <1>1, <1>2, <1>3, <1>4, <1>5 DEF Ready
    <3>. QED
      BY <1>1, <1>3, <3>1, <3>2 DEF LetIn
  <2>3. Heard => Heard'
    BY <1>3 DEF Heard
  <2>. QED
    BY <1>3, <1>10, <2>1, <2>2, <2>3 DEF ChatInv, OneLine
<1>. QED
  BY <1>6, <1>7, <1>8, <1>11, <1>12 DEF ChatInv

\* Who was let in is in.
LEMMA OpenedKeeps ==
    ASSUME ChatInv, NEW p \in Programs, Opened(p)
    PROVE  ChatInv'
<1>. PICK q : q = Other(p)
  OBVIOUS
<1>1. /\ q \in Programs /\ q # p /\ Other(p) = q /\ Other(q) = p /\ Programs = {p, q}
  BY Two
<1>2. /\ \/ pc[p] = "openingR" /\ pc'[p] = "read"
         \/ pc[p] = "openingW" /\ pc'[p] = "write"
      /\ pc[q] \in PCs /\ pc'[q] = pc[q] /\ pc' \in [Programs -> PCs]
  BY <1>1 DEF ChatInv, TypeOK, Opened, PCs
<1>3. UNCHANGED <<readers, writers, met, pipe, said, heard, kills, broken>> /\ met[p]
  BY DEF Opened
<1>4. TypeOK'
  BY <1>2, <1>3 DEF ChatInv, TypeOK
<1>5. Ends'
  BY <1>1, <1>2, <1>3 DEF ChatInv, Ends, Reading, Writing
<1>6. /\ Ready(p)' = Ready(p) /\ Ready(q)' = Ready(q)
      /\ Typing(p)' = Typing(p) /\ Typing(q)' = Typing(q)
  BY <1>1, <1>2, <1>3 DEF Ready, Typing
<1>7. Meet'
  BY <1>1, <1>2, <1>3, <1>6 DEF ChatInv, Meet, Reading, Writing
<1>8. Owes(p)' = Owes(p) /\ Owes(q)' = Owes(q)
  BY <1>1, <1>2, <1>3 DEF Owes
<1>9. Lines' = Lines
  BY <1>1, <1>2, <1>3, <1>8 DEF Lines, Due, Programs
<1>10. Budget'
  <2>1. (Starved(p)' => Starved(p)) /\ (Starved(q)' => Starved(q))
    BY <1>1, <1>2, <1>3, <1>6, <1>8 DEF Starved
  <2>. QED
    BY <1>1, <1>3, <1>9, <2>1 DEF ChatInv, Budget
<1>11. OneLine'
  <2>1. HasReader => HasReader'
    BY <1>1, <1>2, <1>3, <1>6 DEF HasReader
  <2>2. LetIn => LetIn'
    <3>. SUFFICES ASSUME LetIn, pipe # <<>>
                  PROVE  pipe[1].number = said[pipe[1].from] /\ Ready(Other(pipe[1].from))'
      BY <1>3 DEF LetIn
    <3>1. pipe[1].from \in Programs
      BY FirstLine DEF ChatInv
    <3>. QED
      BY <1>1, <1>3, <1>6, <3>1 DEF LetIn
  <2>3. Heard => Heard'
    BY <1>3 DEF Heard
  <2>. QED
    BY <1>3, <1>9, <2>1, <2>2, <2>3 DEF ChatInv, OneLine
<1>. QED
  BY <1>4, <1>5, <1>7, <1>10, <1>11 DEF ChatInv

\* A line that is read is one the reader will write. To read nothing makes one
\* more, which is why the budget is one less for a starved program.
LEMMA ReadKeeps ==
    ASSUME ChatInv, NEW p \in Programs, Read(p)
    PROVE  ChatInv'
<1>. PICK q : q = Other(p)
  OBVIOUS
<1>1. /\ q \in Programs /\ q # p /\ Other(p) = q /\ Other(q) = p /\ Programs = {p, q}
  BY Two
<1>2. /\ pc[p] = "read" /\ pc'[p] = "closeR"
      /\ pc[q] \in PCs /\ pc'[q] = pc[q] /\ pc' \in [Programs -> PCs]
  BY <1>1 DEF ChatInv, TypeOK, Read, PCs
<1>3. UNCHANGED <<readers, writers, met, said, kills, broken>>
  BY DEF Read
<1>4. /\ heard \in [Programs -> 0..2] /\ heard' \in [Programs -> 0..2] /\ heard'[q] = heard[q]
      /\ \/ pipe # <<>> /\ heard'[p] = pipe[1].number
         \/ pipe = <<>> /\ writers = {} /\ heard' = heard
  <2>1. CASE pipe # <<>>
    BY <1>1, <2>1, FirstLine DEF ChatInv, TypeOK, Read
  <2>2. CASE pipe = <<>>
    BY <1>1, <2>2 DEF ChatInv, TypeOK, Read
  <2>. QED
    BY <2>1, <2>2
<1>5. /\ Len(pipe) \in Nat /\ (pipe # <<>> => Len(pipe) > 0) /\ (pipe = <<>> => Len(pipe) = 0)
      /\ kills \in Nat
  BY FirstLine, FifoChatAssumption DEF ChatInv, TypeOK
<1>. DEFINE Line == [from : Programs, number : 0..2]
<1>6. pipe \in Seq(Line) /\ (readers \cup writers = {} => pipe = <<>>) /\ Len(pipe) <= 1 + kills
  BY DEF ChatInv, TypeOK
\* Of a pipe with lines at least one goes.
<1>7. /\ pipe' \in Seq(Line) /\ Len(pipe') \in Nat /\ Len(pipe') <= Len(pipe)
       /\ (pipe # <<>> => Len(pipe') < Len(pipe)) /\ (pipe = <<>> => pipe' = <<>>)
       /\ (Len(pipe') = 0 => pipe' = <<>>)
  <2>. HIDE DEF Line
  <2>1. CASE pipe # <<>>
    <3>1. PICK n \in 1..Len(pipe) : pipe' = SubSeq(pipe, n + 1, Len(pipe))
      BY <2>1 DEF Read
    <3>2. pipe' \in Seq(Line) /\ Len(pipe') = Len(pipe) - n
      BY <1>5, <1>6, <3>1
    <3>. QED
      BY <1>5, <2>1, <3>1, <3>2
  <2>2. CASE pipe = <<>>
    BY <1>5, <1>6, <2>2 DEF Read
  <2>. QED
    BY <2>1, <2>2
<1>8. TypeOK'
  <2>1. Len(pipe') <= 1 + kills'
    BY <1>3, <1>5, <1>6, <1>7
  <2>2. readers' \cup writers' = {} => pipe' = <<>>
    BY <1>3, <1>6, <1>7
  <2>. QED
    BY <1>1, <1>2, <1>3, <1>4, <1>7, <2>1, <2>2 DEF ChatInv, TypeOK
<1>9. Ends'
  BY <1>1, <1>2, <1>3 DEF ChatInv, Ends, Reading, Writing
<1>10. ~Ready(p)' /\ ~Ready(q)' /\ ~Typing(p)' /\ Typing(q)' = Typing(q)
  BY <1>1, <1>2, <1>3 DEF ChatInv, Meet, Ready, Typing
<1>11. Meet'
  BY <1>1, <1>2, <1>3, <1>10 DEF ChatInv, Meet, Reading, Writing, Ready
<1>12. ~Owes(p) /\ Owes(p)' /\ Owes(q)' = Owes(q)
  BY <1>1, <1>2, <1>3 DEF Owes
<1>13. Lines = Len(pipe) + Due(q) /\ Lines' = Len(pipe') + Due(q) + 1 /\ Due(q) \in 0..1
  BY <1>1, <1>3, <1>5, <1>12, <1>7, LinesOf DEF Due
<1>14. Budget'
  <2>1. pipe = <<>> /\ pc[q] \notin {"openingW", "write"} => Lines <= kills
    BY <1>1, <1>2 DEF ChatInv, Budget, Starved, Ready
  <2>2. pc[q] \in {"openingW", "write"} => writers # {}
    BY <1>1 DEF ChatInv, Ends, Writing
  <2>3. ~Starved(p)' /\ ~Starved(q)'
    BY <1>1, <1>2, <1>10, <1>12 DEF Starved
  <2>. QED
    <3>1. Lines <= 1 + kills
      BY DEF ChatInv, Budget
    <3>2. Lines' <= 1 + kills
      BY <1>4, <1>5, <1>13, <1>7, <2>1, <2>2, <3>1
    <3>. QED
      BY <1>1, <1>3, <2>3, <3>2 DEF Budget
<1>15. OneLine'
  <2>. SUFFICES ASSUME kills = 0 PROVE OneLine'
    BY <1>3 DEF OneLine
  <2>1. ~broken /\ Lines = 1 /\ HasReader /\ LetIn /\ Heard
    BY DEF ChatInv, OneLine
  <2>2. pipe # <<>>
    <3>1. pipe = <<>> /\ pc[q] \notin {"openingW", "write"} => Lines <= kills
      BY <1>1, <1>2 DEF ChatInv, Budget, Starved, Ready
    <3>2. pc[q] \in {"openingW", "write"} => writers # {}
      BY <1>1 DEF ChatInv, Ends, Writing
    <3>. QED
      BY <1>4, <2>1, <3>1, <3>2
  <2>3. Due(q) = 0 /\ Lines' = 1 /\ pipe' = <<>>
    BY <1>5, <1>13, <1>7, <2>1, <2>2
  <2>4. HasReader'
    <3>1. ~Typing(q)
      BY <2>3 DEF Due, Owes, Typing
    <3>. QED
      BY <1>1, <1>10, <3>1 DEF HasReader
  <2>5. LetIn'
    BY <2>3 DEF LetIn
  <2>6. pipe[1].from = q
    <3>1. pipe[1].from \in Programs
      BY <2>2, FirstLine DEF ChatInv
    <3>2. Ready(p) /\ ~Ready(q)
      BY <1>1, <1>2 DEF ChatInv, Meet, Ready
    <3>. QED
      BY <1>1, <2>1, <2>2, <3>1, <3>2 DEF LetIn
  <2>7. Heard'
    <3>1. heard'[p] = said[q] /\ heard'[q] = said[p]
      BY <1>1, <1>4, <2>1, <2>2, <2>6 DEF LetIn, Heard
    <3>. QED
      BY <1>1, <1>3, <2>3, <3>1 DEF Heard
  <2>. QED
    BY <1>3, <2>1, <2>3, <2>4, <2>5, <2>7 DEF OneLine
<1>. QED
  BY <1>8, <1>9, <1>11, <1>14, <1>15 DEF ChatInv

\* A line that is written was owed.
LEMMA WriteKeeps ==
    ASSUME ChatInv, NEW p \in Programs, Write(p)
    PROVE  ChatInv'
<1>. PICK q : q = Other(p)
  OBVIOUS
<1>1. /\ q \in Programs /\ q # p /\ Other(p) = q /\ Other(q) = p /\ Programs = {p, q}
      /\ First(p) \in {"openR", "openW"} /\ First(q) \in {"openR", "openW"} /\ First(p) # First(q)
  BY Two
<1>2. /\ pc[p] = "write" /\ pc'[p] = IF readers = {} THEN "stopped" ELSE "closeW"
      /\ pc[q] \in PCs /\ pc'[q] = pc[q] /\ pc' \in [Programs -> PCs]
  BY <1>1 DEF ChatInv, TypeOK, Write, PCs
<1>3. UNCHANGED <<readers, met, heard, kills>>
  BY DEF Write
<1>4. pipe \in Seq([from : Programs, number : 0..2]) /\ Len(pipe) \in Nat /\ kills \in Nat
  BY FifoChatAssumption DEF ChatInv, TypeOK
<1>5. ~Ready(p)' /\ Ready(q)' = Ready(q) /\ ~Typing(p)' /\ ~Typing(q)' /\ Typing(p)
  BY <1>1, <1>2, <1>3 DEF ChatInv, Meet, Ready, Typing
<1>6. Owes(p) /\ Owes(q)' = Owes(q)
  BY <1>1, <1>2, <1>3 DEF Owes
<1>7. (readers = {} <=> ~Reading(q)) /\ (writers \ {p} = {} <=> ~Writing(q))
  BY <1>1, <1>2 DEF ChatInv, Ends, Reading, Writing
<1>8. Ends'
  BY <1>1, <1>2, <1>3 DEF ChatInv, Ends, Reading, Writing, Write
<1>9. Meet'
  BY <1>1, <1>2, <1>3, <1>5 DEF ChatInv, Meet, Reading, Writing, Ready
\* What it writes is one of the lines that were due.
<1>10. CASE readers # {}
  <2>1. PICK line : /\ line = [from |-> p, number |-> said'[p]]
                    /\ pipe' = Append(pipe, line)
    BY <1>10 DEF Write
  <2>2. /\ said \in [Programs -> 0..2] /\ said' \in [Programs -> 0..2]
        /\ said'[p] = (said[p] + 1) % 3 /\ said'[q] = said[q]
    BY <1>1, <1>10 DEF ChatInv, TypeOK, Write
  <2>3. /\ pipe' \in Seq([from : Programs, number : 0..2]) /\ pipe' # <<>>
        /\ Len(pipe') = Len(pipe) + 1
    BY <1>4, <2>1, <2>2
  <2>4. UNCHANGED <<writers, broken>>
    BY <1>10 DEF Write
  <2>5. Lines = Len(pipe) + 1 + Due(q) /\ Lines' = Len(pipe) + 1 + Due(q) /\ Due(q) \in 0..1
    <3>1. Due(p) = 1 /\ Due(p)' = 0 /\ Due(q)' = Due(q)
      BY <1>2, <1>6, <1>10 DEF Due, Owes
    <3>2. Len(pipe') \in Nat
      BY <1>4, <2>3
    <3>. QED
      BY <1>1, <1>4, <2>3, <3>1, <3>2, LinesOf
  <2>6. TypeOK'
    <3>1. Lines <= 1 + kills
      BY DEF ChatInv, Budget
    <3>2. Len(pipe') <= 1 + kills
      BY <1>4, <2>3, <2>5, <3>1
    <3>3. writers # {}
      BY <1>2 DEF ChatInv, Ends, Writing
    <3>. QED
      BY <1>2, <1>3, <2>2, <2>3, <2>4, <3>2, <3>3 DEF ChatInv, TypeOK
  <2>7. Budget'
    BY <1>3, <2>3, <2>5 DEF ChatInv, Budget
  <2>8. OneLine'
    <3>. SUFFICES ASSUME kills = 0 PROVE OneLine'
      BY <1>3 DEF OneLine
    <3>1. ~broken /\ Lines = 1 /\ HasReader /\ Heard
      BY DEF ChatInv, OneLine
    <3>2. pipe = <<>> /\ pipe'[1] = line
      BY <1>4, <2>1, <2>5, <3>1
    <3>3. HasReader'
      BY <1>1, <1>5 DEF HasReader
    <3>4. LetIn'
      <4>1. Ready(q)
        BY <1>1, <1>2, <1>5, <3>1 DEF HasReader, ChatInv, Meet, Ready, Writing
      <4>2. pipe'[1].from = p /\ pipe'[1].number = said'[p]
        BY <2>1, <3>2
      <4>3. Ready(Other(p))'
        BY <1>1, <1>5, <4>1
      <4>. QED
        BY <4>2, <4>3 DEF LetIn
    <3>5. Heard'
      <4>1. heard[p] = said[q] /\ heard[q] = said[p]
        BY <1>1, <3>1, <3>2 DEF Heard
      <4>2. said[p] = (said'[p] + 2) % 3
        BY <2>2
      <4>. QED
        BY <1>1, <1>3, <2>1, <2>2, <2>3, <3>2, <4>1, <4>2 DEF Heard
    <3>. QED
      BY <1>3, <2>4, <2>5, <3>1, <3>3, <3>4, <3>5 DEF OneLine
  <2>. QED
    BY <1>8, <1>9, <2>6, <2>7, <2>8 DEF ChatInv
\* Without a reader the line is lost, and with it the pipe unless the other
\* one has it open: it happens only after a kill.
<1>11. CASE readers = {}
  <2>1. /\ writers' = writers \ {p} /\ said' = said /\ broken' = TRUE
        /\ pipe' = IF writers' = {} THEN <<>> ELSE pipe
    BY <1>11 DEF Write
  <2>2. Len(pipe') \in 0..Len(pipe) /\ pipe' \in Seq([from : Programs, number : 0..2])
    BY <1>4, <2>1
  <2>3. kills # 0
    <3>1. kills = 0 => HasReader
      BY DEF ChatInv, OneLine
    <3>. QED
      BY <1>1, <1>5, <1>7, <1>11, <3>1 DEF HasReader, Reading
  <2>4. Lines = Len(pipe) + 1 + Due(q) /\ Lines' <= Lines /\ Lines \in Nat /\ Lines' \in Nat
    <3>1. Due(p) = 1 /\ Due(p)' \in 0..1 /\ Due(q)' = Due(q) /\ Due(q) \in 0..1
      BY <1>6 DEF Due
    <3>2. Len(pipe') \in Nat
      BY <1>4, <2>2
    <3>. QED
      BY <1>1, <1>4, <2>2, <3>1, <3>2, LinesOf
  <2>5. TypeOK'
    BY <1>2, <1>3, <1>4, <2>1, <2>2, <1>11 DEF ChatInv, TypeOK
  <2>6. Budget'
    <3>1. ~Starved(p)' /\ ~Starved(q)'
      BY <1>1, <1>2, <1>5, <1>7, <1>11 DEF ChatInv, Meet, Starved, Ready, Reading
    <3>. QED
      BY <1>1, <1>3, <1>4, <2>4, <3>1 DEF ChatInv, Budget
  <2>. QED
    BY <1>3, <1>8, <1>9, <2>3, <2>5, <2>6 DEF ChatInv, OneLine
<1>. QED
  BY <1>10, <1>11

\* What stays in the pipe when an end is closed.
LEMMA PipeKept ==
    ASSUME TypeOK, pipe' = IF readers' \cup writers' = {} THEN <<>> ELSE pipe
    PROVE  /\ pipe' \in Seq([from : Programs, number : 0..2])
           /\ Len(pipe) \in Nat /\ Len(pipe') \in 0..Len(pipe)
           /\ readers' \cup writers' # {} => pipe' = pipe
           /\ pipe' # <<>> => pipe' = pipe
BY DEF TypeOK

\* What closing empties holds no line that anybody waits for.
LEMMA CloseKeeps ==
    ASSUME ChatInv, NEW p \in Programs, Close(p)
    PROVE  ChatInv'
<1>. PICK q : q = Other(p)
  OBVIOUS
<1>1. /\ q \in Programs /\ q # p /\ Other(p) = q /\ Other(q) = p /\ Programs = {p, q}
  BY Two
<1>2. /\ \/ pc[p] = "closeR" /\ pc'[p] = "openW"
         \/ pc[p] = "closeW" /\ pc'[p] = "openR"
      /\ pc[q] \in PCs /\ pc'[q] = pc[q] /\ pc' \in [Programs -> PCs]
  BY <1>1 DEF ChatInv, TypeOK, Close, PCs
<1>3. UNCHANGED <<met, said, heard, kills, broken>> /\ kills \in Nat
  BY FifoChatAssumption DEF ChatInv, TypeOK, Close
<1>4. /\ readers' \in {readers, readers \ {p}} /\ writers' \in {writers, writers \ {p}}
      /\ pipe' = IF readers' \cup writers' = {} THEN <<>> ELSE pipe
  BY DEF Close
<1>5. /\ pipe' \in Seq([from : Programs, number : 0..2])
      /\ Len(pipe) \in Nat /\ Len(pipe') \in 0..Len(pipe) /\ Len(pipe') \in Nat
      /\ readers' \cup writers' # {} => pipe' = pipe
      /\ pipe' # <<>> => pipe' = pipe
  BY <1>4, PipeKept DEF ChatInv
<1>6. TypeOK'
  BY <1>2, <1>3, <1>4, <1>5 DEF ChatInv, TypeOK
<1>7. Ends'
  BY <1>1, <1>2 DEF ChatInv, Ends, Reading, Writing, Close
<1>8. /\ Ready(p)' = Ready(p) /\ Ready(q)' = Ready(q)
      /\ Typing(p)' = Typing(p) /\ Typing(q)' = Typing(q)
  BY <1>1, <1>2, <1>3 DEF Ready, Typing
<1>9. Meet'
  BY <1>1, <1>2, <1>3, <1>8 DEF ChatInv, Meet, Reading, Writing
<1>10. Owes(p)' = Owes(p) /\ Owes(q)' = Owes(q)
  BY <1>1, <1>2 DEF Owes
<1>11. /\ Lines = Len(pipe) + Due(p) + Due(q) /\ Lines' = Len(pipe') + Due(p) + Due(q)
       /\ Due(p) \in 0..1 /\ Due(q) \in 0..1
  BY <1>1, <1>5, <1>10, LinesOf DEF Due
<1>12. Budget'
  <2>1. (Starved(p)' => Starved(p)) /\ (Starved(q)' => Starved(q))
    BY <1>1, <1>2, <1>8, <1>10 DEF Starved
  <2>2. Lines <= 1 + kills /\ (pipe = <<>> /\ (Starved(p) \/ Starved(q)) => Lines <= kills)
    BY <1>1 DEF ChatInv, Budget
  <2>3. pipe # <<>> /\ pipe' = <<>> => Len(pipe') < Len(pipe)
    BY FirstLine DEF ChatInv
  <2>4. Lines' <= 1 + kills'
    BY <1>3, <1>5, <1>11, <2>2
  <2>5. ASSUME pipe' = <<>>, Starved(p) \/ Starved(q) PROVE Lines' <= kills'
    BY <1>3, <1>5, <1>11, <2>2, <2>3, <2>5
  <2>. QED
    BY <1>1, <2>1, <2>4, <2>5 DEF Budget
<1>13. OneLine'
  <2>. SUFFICES ASSUME kills = 0 PROVE OneLine'
    BY <1>3 DEF OneLine
  <2>1. ~broken /\ Lines = 1 /\ HasReader /\ LetIn /\ Heard
    BY DEF ChatInv, OneLine
  <2>2. pipe' = pipe
    <3>1. CASE pipe # <<>>
      <4>1. pipe[1].from \in Programs
        BY <3>1, FirstLine DEF ChatInv
      <4>2. ~Ready(p)
        BY <1>2 DEF Ready
      <4>3. Ready(q)
        BY <1>1, <2>1, <3>1, <4>1, <4>2 DEF LetIn
      <4>4. q \in readers
        BY <1>1, <4>3 DEF ChatInv, Ends, Reading, Ready
      <4>. QED
        BY <1>1, <1>4, <1>5, <4>4
    <3>2. CASE pipe = <<>>
      BY <1>5, <3>2
    <3>. QED
      BY <3>1, <3>2
  <2>3. HasReader'
    BY <1>1, <1>2, <1>8, <2>1 DEF HasReader
  <2>4. LetIn'
    <3>. SUFFICES ASSUME pipe # <<>>
                  PROVE  pipe[1].number = said[pipe[1].from] /\ Ready(Other(pipe[1].from))'
      BY <1>3, <2>2 DEF LetIn
    <3>1. pipe[1].from \in Programs
      BY FirstLine DEF ChatInv
    <3>. QED
      BY <1>1, <1>3, <1>8, <2>1, <2>2, <3>1 DEF LetIn
  <2>5. Heard'
    BY <1>3, <2>1, <2>2 DEF Heard
  <2>. QED
    BY <1>3, <1>11, <2>1, <2>2, <2>3, <2>4, <2>5 DEF OneLine
<1>. QED
  BY <1>6, <1>7, <1>9, <1>12, <1>13 DEF ChatInv

\* A program killed before it has read will write when it is started again:
\* one line more, which the kill pays for.
LEMMA KillKeeps ==
    ASSUME ChatInv, NEW p \in Programs, Kill(p)
    PROVE  ChatInv'
<1>. PICK q : q = Other(p)
  OBVIOUS
<1>1. /\ q \in Programs /\ q # p /\ Other(p) = q /\ Other(q) = p /\ Programs = {p, q}
  BY Two
<1>2. /\ pc[p] \in PCs /\ pc'[p] = "stopped"
      /\ pc[q] \in PCs /\ pc'[q] = pc[q] /\ pc' \in [Programs -> PCs]
  BY <1>1 DEF ChatInv, TypeOK, Kill, PCs
<1>3. UNCHANGED <<met, said, heard, broken>> /\ kills \in Nat /\ kills' = kills + 1
  BY FifoChatAssumption DEF ChatInv, TypeOK, Kill
<1>4. /\ readers' = readers \ {p} /\ writers' = writers \ {p}
      /\ pipe' = IF readers' \cup writers' = {} THEN <<>> ELSE pipe
  BY DEF Kill
<1>5. /\ pipe' \in Seq([from : Programs, number : 0..2])
      /\ Len(pipe) \in Nat /\ Len(pipe') \in 0..Len(pipe) /\ Len(pipe') \in Nat
      /\ pipe' # <<>> => pipe' = pipe
  BY <1>4, PipeKept DEF ChatInv
<1>6. TypeOK'
  <2>1. kills' \in 0..MaxKills
    BY <1>3, FifoChatAssumption DEF Kill
  <2>2. Len(pipe') <= 1 + kills'
    BY <1>3, <1>5 DEF ChatInv, TypeOK
  <2>. QED
    BY <1>2, <1>3, <1>4, <1>5, <2>1, <2>2 DEF ChatInv, TypeOK
<1>7. Ends'
  BY <1>1, <1>2, <1>4 DEF ChatInv, Ends, Reading, Writing
<1>8. ~Ready(p)' /\ Ready(q)' = Ready(q) /\ ~Typing(p)' /\ Typing(q)' = Typing(q)
  BY <1>1, <1>2, <1>3 DEF Ready, Typing
<1>9. Meet'
  BY <1>1, <1>2, <1>3, <1>8 DEF ChatInv, Meet, Reading, Writing
<1>10. Owes(q)' = Owes(q)
  BY <1>1, <1>2 DEF Owes
<1>11. /\ Lines = Len(pipe) + Due(p) + Due(q) /\ Lines' = Len(pipe') + Due(p)' + Due(q)
       /\ Due(p) \in 0..1 /\ Due(p)' \in 0..1 /\ Due(q) \in 0..1
  BY <1>1, <1>5, <1>10, LinesOf DEF Due
<1>12. Budget'
  <2>1. Lines <= 1 + kills /\ (pipe = <<>> /\ (Starved(p) \/ Starved(q)) => Lines <= kills)
    BY <1>1 DEF ChatInv, Budget
  <2>2. pipe # <<>> /\ pipe' = <<>> => Len(pipe') < Len(pipe)
    BY FirstLine DEF ChatInv
  <2>3. Lines' <= 1 + kills'
    BY <1>3, <1>5, <1>11, <2>1
  <2>4. Starved(p)' => Due(p)' = 0
    BY <1>8 DEF Starved, Due
  <2>5. Starved(q)' => Starved(q) \/ Owes(p)
    BY <1>1, <1>2, <1>8 DEF Starved, Owes
  <2>6. Owes(p) => Due(p) = 1
    BY DEF Due
  <2>7. ASSUME pipe' = <<>>, Starved(p)' \/ Starved(q)' PROVE Lines' <= kills'
    BY <1>3, <1>5, <1>11, <2>1, <2>2, <2>4, <2>5, <2>6, <2>7
  <2>. QED
    BY <1>1, <2>3, <2>7 DEF Budget
<1>. QED
  BY <1>3, <1>6, <1>7, <1>9, <1>12 DEF ChatInv, OneLine

LEMMA ChatInvInductive ==
    /\ Init => ChatInv
    /\ ChatInv /\ [Next]_vars => ChatInv'
<1>1. ASSUME Init PROVE ChatInv
  <2>1. pipe = <<>> /\ Len(pipe) = 0 /\ kills = 0 /\ broken = FALSE /\ readers = {} /\ writers = {}
        /\ \A p \in Programs : pc[p] = "stopped" /\ said[p] = 0 /\ heard[p] = 0
    BY <1>1 DEF Init
  <2>2. TypeOK
    <3>1. pipe \in Seq([from : Programs, number : 0..2]) /\ Len(pipe) <= 1 + kills
      BY <2>1
    <3>2. kills \in 0..MaxKills
      BY <2>1, FifoChatAssumption
    <3>3. pc \in [Programs -> PCs] /\ met \in [Programs -> BOOLEAN]
      BY <1>1 DEF Init, PCs
    <3>4. said \in [Programs -> 0..2] /\ heard \in [Programs -> 0..2]
      BY <1>1 DEF Init
    <3>5. broken \in BOOLEAN
      BY <2>1
    <3>. QED
      BY <2>1, <3>1, <3>2, <3>3, <3>4, <3>5 DEF TypeOK
  <2>3. Ends /\ Meet
    BY <2>1, Two DEF Ends, Meet, Reading, Writing, Ready, Typing
  <2>4. Lines = 1
    BY <2>1 DEF Lines, Due, Owes, First, Programs
  <2>5. Budget
    BY <2>1, <2>4, Two DEF Budget, Starved, Ready
  <2>6. OneLine
    BY <2>1, <2>4, Two DEF OneLine, HasReader, LetIn, Heard, Typing
  <2>. QED
    BY <2>2, <2>3, <2>5, <2>6 DEF ChatInv
<1>2. ASSUME ChatInv, UNCHANGED vars PROVE ChatInv'
  BY <1>2 DEF ChatInv, vars, TypeOK, Ends, Meet, Budget, OneLine, Reading, Writing, Ready, Typing,
              Lines, Due, Owes, Starved, HasReader, LetIn, Heard
<1>. QED
  BY <1>1, <1>2, StartKeeps, OpenRKeeps, OpenWKeeps, OpenedKeeps, ReadKeeps, WriteKeeps,
     CloseKeeps, KillKeeps DEF Next

\* Every variable has its type: with k kills the pipe never holds more than
\* k + 1 lines, and it is empty when no program has it open.
THEOREM ChatTypeCorrect == Spec => []TypeOK
<1>1. ChatInv => TypeOK
  BY DEF ChatInv
<1>. QED
  BY <1>1, ChatInvInductive, PTL DEF Spec

\* Until somebody is killed the programs of piper.c and pipew.c hear each
\* other: each has read all that the other wrote but for the line in the pipe,
\* and neither reads its own, however the two close and open the pipe.
THEOREM TurnsKept == Spec => []InTurn
<1>1. ChatInv => InTurn
  <2>. SUFFICES ASSUME ChatInv, kills = 0 PROVE InTurn
    BY DEF InTurn
  <2>1. Lines = 1 /\ LetIn /\ Heard
    BY DEF ChatInv, OneLine
  <2>2. Len(pipe) <= 1
    <3>1. "piper" \in Programs /\ Len(pipe) \in Nat
      BY DEF Programs, ChatInv, TypeOK
    <3>. QED
      BY <2>1, <3>1, LinesOf
  <2>3. ASSUME NEW p \in Programs, pc[p] = "read", pipe # <<>> PROVE pipe[1].from # p
    <3>1. Ready(p) /\ ~Ready(Other(p))
      BY <2>3 DEF ChatInv, Meet, Ready
    <3>. QED
      BY <2>1, <2>3, <3>1 DEF LetIn
  <2>. QED
    BY <2>1, <2>2, <2>3 DEF InTurn, Heard
<1>. QED
  BY <1>1, ChatInvInductive, PTL DEF Spec

\* Until somebody is killed no write of theirs finds the pipe without a reader,
\* and no read finds it empty without a writer.
THEOREM NobodyMissingAlways == Spec => []NobodyMissing
<1>1. ChatInv => NobodyMissing
  <2>. SUFFICES ASSUME ChatInv, kills = 0 PROVE NobodyMissing
    BY DEF NobodyMissing
  <2>1. ~broken /\ Lines = 1
    BY DEF ChatInv, OneLine
  <2>2. ASSUME NEW p \in Programs, pc[p] = "read", pipe = <<>> PROVE writers # {}
    <3>1. Other(p) \in Programs
      BY Two
    <3>2. pc[Other(p)] \in {"openingW", "write"}
      BY <2>1, <2>2 DEF ChatInv, Budget, Starved, Ready
    <3>. QED
      BY <3>1, <3>2 DEF ChatInv, Ends, Writing
  <2>. QED
    BY <2>1, <2>2 DEF NobodyMissing
<1>. QED
  BY <1>1, ChatInvInductive, PTL DEF Spec
-----------------------------------------------------------------------------
(* PipeSelect: what select is given.                                       *)

\* A server started with its standard descriptors has 3, 4 and 5 for its pipes.
Descriptors ==
    std = 0..2 /\ server \in {"select", "serve"} => fd = [i \in Pipes |-> i + 2]

LEMMA LowestFree ==
    ASSUME NEW i \in Pipes
    PROVE  (CHOOSE d \in 0..5 : /\ d \notin 0..2
                                /\ Cardinality({x \in 0..d-1 : x \notin 0..2}) = i - 1)
           = i + 2
<1>. DEFINE Below(d) == {x \in 0..d-1 : x \notin 0..2}
            Free(d) == d \notin 0..2 /\ Cardinality(Below(d)) = i - 1
<1>1. ASSUME NEW d \in 3..5
      PROVE  Cardinality(Below(d)) = d - 3
  <2>1. Below(d) = 3..d-1
    OBVIOUS
  <2>2. 3 \in Int /\ d - 1 \in Int
    OBVIOUS
  <2>3. Cardinality(3..d-1) = IF 3 > d - 1 THEN 0 ELSE d - 1 - 3 + 1
    BY <2>2, FS_Interval
  <2>4. (IF 3 > d - 1 THEN 0 ELSE d - 1 - 3 + 1) = d - 3
    OBVIOUS
  <2>. QED
    BY <2>1, <2>3, <2>4, Zenon
<1>. HIDE DEF Below
<1>. i \in 1..3
  BY DEF Pipes
<1>2. PICK k \in 3..5 : k = i + 2
  OBVIOUS
<1>3. k \in 0..5 /\ Free(k)
  <2>1. Cardinality(Below(k)) = k - 3
    BY <1>1
  <2>. QED
    BY <1>2, <2>1
<1>4. ASSUME NEW d \in 0..5, Free(d) PROVE d = k
  <2>1. d \in 3..5 /\ Cardinality(Below(d)) = i - 1
    BY <1>4
  <2>. QED
    BY <1>1, <1>2, <2>1
<1>. HIDE DEF Free
<1>5. (CHOOSE d \in 0..5 : Free(d)) = k
  BY <1>3, <1>4
<1>. QED
  BY <1>2, <1>5 DEF Free, Below

\* The largest of three arguments and INT_MIN.
LEMMA MaxOfThree ==
    ASSUME NEW a \in Ints, NEW b \in Ints, NEW c \in Ints
    PROVE  /\ max_of_ints(3, <<a, b, c>>) \in Ints
           /\ max_of_ints(3, <<a, b, c>>) >= b
<1>. DEFINE S == {INT_MIN} \cup {<<a, b, c>>[i] : i \in 1..3}
<1>. INT_MAX \in Nat
  BY PipeSelectAssumption
<1>1. S = {INT_MIN, a, b, c}
  OBVIOUS
<1>2. \E max \in S : \A num \in S : num <= max
  <2>1. INT_MIN \in Int /\ INT_MIN <= a
    BY DEF Ints, INT_MIN
  <2>2. a \in Int /\ b \in Int /\ c \in Int
    BY DEF Ints, INT_MIN
  <2>3. CASE a >= b /\ a >= c
    BY <1>1, <2>1, <2>2, <2>3
  <2>4. CASE b >= a /\ b >= c
    BY <1>1, <2>1, <2>2, <2>4
  <2>5. CASE c >= a /\ c >= b
    BY <1>1, <2>1, <2>2, <2>5
  <2>. QED
    BY <2>2, <2>3, <2>4, <2>5
<1>3. INT_MIN \in Ints
  BY DEF Ints, INT_MIN
<1>4. PICK max \in S : max = max_of_ints(3, <<a, b, c>>) /\ \A num \in S : num <= max
  BY <1>2 DEF max_of_ints
<1>. QED
  BY <1>1, <1>3, <1>4

LEMMA DescriptorsInductive ==
    /\ ServerInit => Descriptors
    /\ Descriptors /\ [ServerNext]_servervars => Descriptors'
<1>1. ServerInit => Descriptors
  BY DEF ServerInit, Descriptors
<1>2. ASSUME Descriptors, OpenPipes PROVE Descriptors'
  <2>1. ASSUME std = 0..2 PROVE fd' = [i \in Pipes |-> i + 2]
    BY <1>2, <2>1, LowestFree DEF OpenPipes
  <2>. QED
    BY <1>2, <2>1 DEF OpenPipes, Goto, Descriptors
<1>3. ASSUME Descriptors, [ServerNext]_servervars, ~OpenPipes PROVE Descriptors'
  <2>1. fd' = fd /\ std' = std
    BY <1>3 DEF ServerNext, MakePipes, Select, ServePipe, ClientOpens, ClientWrites,
                ClientCloses, Goto, servervars
  <2>2. server' \in {"select", "serve"} => server \in {"select", "serve"}
    BY <1>3 DEF ServerNext, MakePipes, Select, ServePipe, ClientOpens, ClientWrites,
                ClientCloses, Goto, servervars
  <2>. QED
    BY <1>3, <2>1, <2>2 DEF Descriptors
<1>. QED
  BY <1>1, <1>2, <1>3

\* Whatever max_of_ints reads in place of the argument it is not passed, for
\* every width of int: select is given more descriptors than the last pipe's
\* number, or the addition has wrapped and it fails.
THEOREM EveryPipeWatched == ServerSpec => []AllWatched
<1>1. Descriptors => AllWatched
  <2>. SUFFICES ASSUME Descriptors, std = 0..2, server = "select", NEW garbage \in Ints
                PROVE  Nfds(garbage) < 0 \/ Nfds(garbage) > fd[3]
    BY DEF AllWatched
  <2>. INT_MAX \in Nat /\ INT_MAX > 5
    BY PipeSelectAssumption
  <2>1. fd[1] = 3 /\ fd[2] = 4 /\ fd[3] = 5
    BY DEF Descriptors, Pipes
  <2>. DEFINE max == max_of_ints(3, <<4, 5, garbage>>)
  <2>2. 4 \in Ints /\ 5 \in Ints
    BY DEF Ints, INT_MIN
  <2>3. max \in Ints /\ max >= 5
    BY <2>2, MaxOfThree
  <2>4. Nfds(garbage) = Wrap(max + 1)
    BY <2>1 DEF Nfds
  <2>. HIDE DEF max
  <2>. QED
    BY <2>1, <2>3, <2>4 DEF Wrap, Ints, INT_MIN
<1>. QED
  BY <1>1, DescriptorsInductive, PTL DEF ServerSpec
-----------------------------------------------------------------------------
(* PipeSelect: what select has found and what a read then meets.           *)

Counts ==
    /\ unread \in [Pipes -> Nat] /\ connected \in [Pipes -> Nat] /\ opens \in [Pipes -> Nat]
    /\ turn \in Nat /\ (server = "serve" => turn \in Pipes)
    /\ \A i \in Pipes : connected[i] <= opens[i]

\* A pipe found ready and not yet read holds something, or has nobody who
\* writes to it, or has been opened a second time.
StillReady ==
    server = "serve" => \A i \in ready :
        turn <= i => \/ unread[i] > 0
                     \/ connected[i] = 0 /\ opens[i] > 0
                     \/ opens[i] > 1

ReadInv == Counts /\ ready \subseteq Pipes /\ StillReady

LEMMA ServePipeKeeps ==
    ASSUME ReadInv, ServePipe
    PROVE  ReadInv'
<1>1. turn \in Pipes /\ turn' = turn + 1 /\ UNCHANGED <<ready, connected, opens>>
  BY DEF ReadInv, Counts, ServePipe
<1>2. unread' \in [Pipes -> Nat] /\ \A i \in Pipes : i # turn => unread'[i] = unread[i]
  BY <1>1 DEF ReadInv, Counts, ServePipe, Pipes
<1>3. server' = "serve" => turn' \in Pipes
  BY <1>1 DEF ServePipe, AfterRead, Pipes
<1>4. Counts'
  BY <1>1, <1>2, <1>3 DEF ReadInv, Counts, Pipes
<1>5. StillReady'
  BY <1>1, <1>2 DEF ReadInv, StillReady, ServePipe, Pipes
<1>. QED
  BY <1>1, <1>4, <1>5 DEF ReadInv

LEMMA SelectKeeps ==
    ASSUME ReadInv, Select
    PROVE  ReadInv'
<1>1. UNCHANGED clients /\ turn' = 1
  BY DEF Select, Goto
<1>2. \/ server' = "ended" /\ ready' = ready
      \/ ready' \subseteq {i \in Pipes : Readable(i)}
  BY DEF Select, Goto
<1>3. Counts'
  BY <1>1 DEF ReadInv, Counts, clients, Pipes
<1>4. ready' \subseteq Pipes
  BY <1>2 DEF ReadInv
<1>5. StillReady'
  BY <1>1, <1>2 DEF ReadInv, StillReady, Readable, clients
<1>. QED
  BY <1>3, <1>4, <1>5 DEF ReadInv

LEMMA ClientsKeep ==
    ASSUME ReadInv, NEW i \in Pipes, ClientOpens(i) \/ ClientWrites(i) \/ ClientCloses(i)
    PROVE  ReadInv'
<1>. UNCHANGED <<server, ready, turn>>
  BY DEF ClientOpens, ClientWrites, ClientCloses
<1>1. CASE ClientOpens(i)
  BY <1>1 DEF ClientOpens, ReadInv, Counts, StillReady
<1>2. CASE ClientWrites(i)
  BY <1>2 DEF ClientWrites, ReadInv, Counts, StillReady
<1>3. CASE ClientCloses(i)
  BY <1>3 DEF ClientCloses, ReadInv, Counts, StillReady
<1>. QED
  BY <1>1, <1>2, <1>3

LEMMA ReadInvInductive ==
    /\ ServerInit => ReadInv
    /\ ReadInv /\ [ServerNext]_servervars => ReadInv'
<1>1. ServerInit => ReadInv
  BY DEF ServerInit, ReadInv, Counts, StillReady, Pipes
<1>2. ASSUME ReadInv, MakePipes \/ OpenPipes \/ UNCHANGED servervars PROVE ReadInv'
  BY <1>2 DEF MakePipes, OpenPipes, servervars, Goto, clients, ReadInv, Counts, StillReady
<1>. QED
  BY <1>1, <1>2, ServePipeKeeps, SelectKeeps, ClientsKeep DEF ServerNext

\* A read fails, and ends the server, only on a pipe that a client has opened
\* after another: for any number of clients and messages the first client of
\* a pipe can come, write and leave at any moment between select and read.
THEOREM FirstClientNeverFatal == ServerSpec => []FirstClientSafe
<1>1. ReadInv => FirstClientSafe
  BY DEF ReadInv, Counts, StillReady, FirstClientSafe, Skips
<1>. QED
  BY <1>1, ReadInvInductive, PTL DEF ServerSpec
=============================================================================
