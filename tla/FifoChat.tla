------------------------------- MODULE FifoChat -------------------------------
(***************************************************************************)
(* src/named-pipe/piper.c and pipew.c: two programs that take turns on one *)
(* named pipe. Each opens it for reading, reads a line and closes it, then *)
(* opens it for writing, writes a line its user types and closes it; piper *)
(* begins with the reading and pipew with the writing.                     *)
(*                                                                         *)
(* open waits until the other end has been opened since, also by a program *)
(* that has closed it again. The pipe keeps its lines while any program    *)
(* has it open, one that still waits in open included. Lines are numbered  *)
(* modulo 3, enough to tell the last one from those before and after it.   *)
(***************************************************************************)
EXTENDS Integers, Sequences

CONSTANT MaxKills  \* bound on the times a program is killed

ASSUME FifoChatAssumption == MaxKills \in Nat

Programs == {"piper", "pipew"}
Other(p) == CHOOSE q \in Programs : q # p

VARIABLES pc,       \* pc[p]: the call p is about to make or is in
          readers,  \* the programs that have the reading end open
          writers,  \* and the writing end
          met,      \* met[p]: the end p's open waits for has been opened
          pipe,     \* the lines in the pipe
          said,     \* said[p]: how many lines p has written, modulo 3
          heard,    \* heard[p]: the number of the last line p read
          kills,
          broken    \* a program wrote to a pipe nobody reads

vars == <<pc, readers, writers, met, pipe, said, heard, kills, broken>>

PCs == {"stopped", "openR", "openingR", "read", "closeR",
        "openW", "openingW", "write", "closeW"}

\* Faulty variant: both programs begin with the writing.
First_Same(p) == "openW"

First(p) == IF p = "piper" THEN "openR" ELSE "openW"

Init ==
    /\ pc = [p \in Programs |-> "stopped"]
    /\ readers = {} /\ writers = {} /\ met = [p \in Programs |-> FALSE]
    /\ pipe = <<>>
    /\ said = [p \in Programs |-> 0] /\ heard = [p \in Programs |-> 0]
    /\ kills = 0 /\ broken = FALSE

\* A user starts a program; mkfifo leaves a pipe that is there alone.
Start(p) ==
    /\ pc[p] = "stopped"
    /\ pc' = [pc EXCEPT ![p] = First(p)]
    /\ UNCHANGED <<readers, writers, met, pipe, said, heard, kills, broken>>

\* The call begins: the end is open and whoever waits for that knows it.
OpenR(p) ==
    /\ pc[p] = "openR"
    /\ readers' = readers \cup {p}
    /\ met' = [q \in Programs |->
                  IF q = p THEN writers # {} ELSE met[q] \/ pc[q] = "openingW"]
    /\ pc' = [pc EXCEPT ![p] = "openingR"]
    /\ UNCHANGED <<writers, pipe, said, heard, kills, broken>>

OpenW(p) ==
    /\ pc[p] = "openW"
    /\ writers' = writers \cup {p}
    /\ met' = [q \in Programs |->
                  IF q = p THEN readers # {} ELSE met[q] \/ pc[q] = "openingR"]
    /\ pc' = [pc EXCEPT ![p] = "openingW"]
    /\ UNCHANGED <<readers, pipe, said, heard, kills, broken>>

\* Faulty variant: open does not wait.
Opened_Anyway(p) ==
    /\ \/ pc[p] = "openingR" /\ pc' = [pc EXCEPT ![p] = "read"]
       \/ pc[p] = "openingW" /\ pc' = [pc EXCEPT ![p] = "write"]
    /\ UNCHANGED <<readers, writers, met, pipe, said, heard, kills, broken>>

Opened(p) ==
    /\ met[p]
    /\ \/ pc[p] = "openingR" /\ pc' = [pc EXCEPT ![p] = "read"]
       \/ pc[p] = "openingW" /\ pc' = [pc EXCEPT ![p] = "write"]
    /\ UNCHANGED <<readers, writers, met, pipe, said, heard, kills, broken>>

\* read returns what fits its 80 bytes, at least a line, of which only the
\* first is printed; a line read in part stays in the pipe. Without a writer
\* it returns nothing from an empty pipe.
Read(p) ==
    /\ pc[p] = "read"
    /\ \/ /\ pipe # <<>>
          /\ heard' = [heard EXCEPT ![p] = Head(pipe).number]
          /\ \E n \in 1..Len(pipe) : pipe' = SubSeq(pipe, n + 1, Len(pipe))
       \/ /\ pipe = <<>> /\ writers = {}
          /\ UNCHANGED <<heard, pipe>>
    /\ pc' = [pc EXCEPT ![p] = "closeR"]
    /\ UNCHANGED <<readers, writers, met, said, kills, broken>>

\* fgets returns the line the user types, and the line is written. Without a
\* reader the program is ended by a signal.
Write(p) ==
    /\ pc[p] = "write"
    /\ IF readers = {}
       THEN /\ broken' = TRUE
            /\ pc' = [pc EXCEPT ![p] = "stopped"]
            /\ writers' = writers \ {p}
            /\ pipe' = IF writers' = {} THEN <<>> ELSE pipe
            /\ UNCHANGED said
       ELSE /\ said' = [said EXCEPT ![p] = (@ + 1) % 3]
            /\ pipe' = Append(pipe, [from |-> p, number |-> said'[p]])
            /\ pc' = [pc EXCEPT ![p] = "closeW"]
            /\ UNCHANGED <<writers, broken>>
    /\ UNCHANGED <<readers, met, heard, kills>>

\* Faulty variant: the pipe is not closed after reading.
Close_Leaks(p) ==
    /\ \/ /\ pc[p] = "closeR" /\ pc' = [pc EXCEPT ![p] = "openW"]
          /\ UNCHANGED writers
       \/ /\ pc[p] = "closeW" /\ pc' = [pc EXCEPT ![p] = "openR"]
          /\ writers' = writers \ {p}
    /\ UNCHANGED <<readers, met, pipe, said, heard, kills, broken>>

\* Faulty variant: the pipe keeps its lines when nobody has it open.
Close_KeepsLines(p) ==
    /\ \/ /\ pc[p] = "closeR" /\ pc' = [pc EXCEPT ![p] = "openW"]
          /\ readers' = readers \ {p} /\ UNCHANGED writers
       \/ /\ pc[p] = "closeW" /\ pc' = [pc EXCEPT ![p] = "openR"]
          /\ writers' = writers \ {p} /\ UNCHANGED readers
    /\ UNCHANGED <<met, pipe, said, heard, kills, broken>>

Close(p) ==
    /\ \/ /\ pc[p] = "closeR" /\ pc' = [pc EXCEPT ![p] = "openW"]
          /\ readers' = readers \ {p} /\ UNCHANGED writers
       \/ /\ pc[p] = "closeW" /\ pc' = [pc EXCEPT ![p] = "openR"]
          /\ writers' = writers \ {p} /\ UNCHANGED readers
    /\ pipe' = IF readers' \cup writers' = {} THEN <<>> ELSE pipe
    /\ UNCHANGED <<met, said, heard, kills, broken>>

Kill(p) ==
    /\ pc[p] # "stopped" /\ kills < MaxKills
    /\ pc' = [pc EXCEPT ![p] = "stopped"]
    /\ readers' = readers \ {p} /\ writers' = writers \ {p}
    /\ pipe' = IF readers' \cup writers' = {} THEN <<>> ELSE pipe
    /\ kills' = kills + 1
    /\ UNCHANGED <<met, said, heard, broken>>

Next ==
    \E p \in Programs :
        \/ Start(p) \/ OpenR(p) \/ OpenW(p) \/ Opened(p) \/ Read(p) \/ Write(p)
        \/ Close(p) \/ Kill(p)

\* The kernel lets a call that can return do so. No user is obliged to start a
\* program or to type.
Spec ==
    /\ Init /\ [][Next]_vars
    /\ \A p \in Programs :
          WF_vars(OpenR(p) \/ OpenW(p) \/ Opened(p) \/ Read(p) \/ Close(p))
-----------------------------------------------------------------------------
\* Every variable has its type: in particular the pipe is empty when no program
\* has it open, and one kill brings at most a second line into it.
TypeOK ==
    /\ pc \in [Programs -> PCs]
    /\ readers \subseteq Programs /\ writers \subseteq Programs
    /\ met \in [Programs -> BOOLEAN]
    /\ pipe \in Seq([from : Programs, number : 0..2])
    /\ Len(pipe) <= 1 + kills
    /\ readers \cup writers = {} => pipe = <<>>
    /\ said \in [Programs -> 0..2] /\ heard \in [Programs -> 0..2]
    /\ kills \in 0..MaxKills /\ broken \in BOOLEAN

\* While nobody is killed every line is read, by the other program and once:
\* what a program has heard is all the other has said, but for the one line
\* in the pipe. This although each closes its end before the other has opened
\* the next, and may hold the reading end while its own line is in the pipe.
InTurn ==
    kills = 0 =>
        /\ Len(pipe) <= 1
        /\ \A p \in Programs :
              heard[p] = IF pipe # <<>> /\ pipe[1].from = Other(p)
                         THEN (said[Other(p)] + 2) % 3 ELSE said[Other(p)]
        /\ \A p \in Programs : pc[p] = "read" /\ pipe # <<>> => pipe[1].from # p

\* While nobody is killed no program writes to a pipe nobody reads, nor reads
\* nothing.
NobodyMissing ==
    kills = 0 =>
        /\ ~broken
        /\ \A p \in Programs : pc[p] = "read" => pipe # <<>> \/ writers # {}

\* Two programs that run meet: one of their users gets to type. And when a
\* program has written its line, the other one's user gets to type, in whatever
\* order the programs close and open the pipe.
TurnsPass ==
    /\ (\A p \in Programs : pc[p] # "stopped")
          ~> (\E p \in Programs : pc[p] = "write") \/ kills > 0
    /\ \A p \in Programs :
          pc[p] = "closeW" ~> pc[Other(p)] = "write" \/ kills > 0
=============================================================================
