----------------------------- MODULE PipeSelect -----------------------------
(***************************************************************************)
(* src/dev/lib/pipe_select.c: a server that makes three named pipes, opens *)
(* them for reading without blocking, and waits for all of them in select. *)
(*                                                                         *)
(* The clients, which open a pipe for writing, write messages and close    *)
(* it, are external, and so is the kernel: a descriptor is the lowest free *)
(* number; a pipe can be read when it holds something, or when it has had  *)
(* writers and has none any more.                                          *)
(***************************************************************************)
EXTENDS Integers, FiniteSets

CONSTANTS Stds,      \* what a server may be started with: subsets of 0..2
          PIPE_CAP,  \* messages that a pipe holds
          MaxSend,   \* bound on the messages clients write
          MaxOpens,  \* bound on the times clients open a pipe
          INT_MAX

ASSUME PipeSelectAssumption ==
    /\ Stds \subseteq SUBSET (0..2)
    /\ {PIPE_CAP, MaxSend, MaxOpens} \subseteq Nat \ {0}
    /\ INT_MAX \in Nat /\ INT_MAX > 5

Pipes == 1..3

VARIABLES std,       \* which of descriptors 0 to 2 the server was started with
          fd,        \* fd[i]: its descriptor of pipe i, 0 before it has one
          exists,    \* the pipes exist in /tmp
          server,    \* where it is: "make", "open", "select", "serve" or "ended"
          ready,     \* the set select returned
          turn,      \* the pipe the server looks at next
          unread,    \* unread[i]: messages in pipe i
          sent,      \* sent[i]: messages written to it
          connected, \* connected[i]: clients that have it open
          opens      \* opens[i]: how often a client has opened it since the server

servervars == <<std, fd, exists, server, ready, turn, unread, sent, connected, opens>>
clients == <<unread, sent, connected, opens>>

Total(f) == f[1] + f[2] + f[3]

INT_MIN == -INT_MAX - 1
Ints == INT_MIN..INT_MAX
Wrap(x) == IF x > INT_MAX THEN x + 2 * INT_MIN ELSE x

\* The largest of the first n arguments that follow n.
max_of_ints(n, args) ==
    LET S == {INT_MIN} \cup {args[i] : i \in 1..n}
    IN  CHOOSE max \in S : \A num \in S : num <= max

ServerInit ==
    /\ std \in Stds /\ fd = [i \in Pipes |-> 0] /\ exists \in BOOLEAN
    /\ server = "make" /\ ready = {} /\ turn = 1
    /\ unread = [i \in Pipes |-> 0] /\ sent = [i \in Pipes |-> 0]
    /\ connected = [i \in Pipes |-> 0] /\ opens = [i \in Pipes |-> 0]

Goto(l) == server' = l /\ UNCHANGED <<std, clients>>

\* mkfifo fails when the pipe is there, and that ends the server.
MakePipes ==
    /\ server = "make"
    /\ Goto(IF exists THEN "ended" ELSE "open")
    /\ exists' = TRUE
    /\ UNCHANGED <<fd, ready, turn>>

\* Each pipe gets the lowest free descriptor.
OpenPipes ==
    /\ server = "open"
    /\ LET Below(d) == {x \in 0..d-1 : x \notin std}
       IN  fd' = [i \in Pipes |->
                     CHOOSE d \in 0..5 : d \notin std /\ Cardinality(Below(d)) = i - 1]
    /\ Goto("select")
    /\ UNCHANGED <<exists, ready, turn>>

\* What select's first argument comes out as. max_of_ints takes fd1 for the
\* number of the arguments that follow it, which are fd2, fd3 and, where it
\* reads more than those, whatever is in their place.
Nfds_NotPlusOne(garbage) ==
    max_of_ints(fd[1], <<fd[2], fd[3], garbage>>)

Nfds(garbage) == Wrap(max_of_ints(fd[1], <<fd[2], fd[3], garbage>>) + 1)

Readable(i) == unread[i] > 0 \/ (connected[i] = 0 /\ opens[i] > 0)

\* select waits without a timeout; a negative argument makes it fail, which
\* ends the server.
Select ==
    /\ server = "select"
    /\ \E nfds \in {Nfds(garbage) : garbage \in Ints} :
          LET set == {i \in Pipes : fd[i] < nfds /\ Readable(i)} IN
          \/ nfds < 0 /\ Goto("ended") /\ UNCHANGED ready
          \/ nfds >= 0 /\ set # {} /\ Goto("serve") /\ ready' = set
    /\ turn' = 1
    /\ UNCHANGED <<fd, exists>>

\* Faulty variant: a pipe is read whether or not select has found it ready.
Skips_Never(i) == FALSE

Skips(i) == i \notin ready

\* Faulty variant: only the first ready pipe of a round is served.
AfterRead_Select(i) == "select"

AfterRead(i) == IF i = 3 THEN "select" ELSE "serve"

\* One of the three ifs of the loop: read takes some of the messages, or 0
\* when nobody has the pipe open, and fails when somebody has it open and it
\* is empty, which ends the server.
ServePipe ==
    /\ server = "serve"
    /\ LET i == turn IN
       /\ turn' = turn + 1
       /\ IF Skips(i) THEN /\ server' = IF i = 3 THEN "select" ELSE "serve"
                           /\ UNCHANGED unread
          ELSE /\ \E left \in 0..unread[i] :
                     /\ left = unread[i] => unread[i] = 0
                     /\ unread' = [unread EXCEPT ![i] = left]
               /\ server' = IF unread[i] = 0 /\ connected[i] > 0 THEN "ended"
                            ELSE AfterRead(i)
    /\ UNCHANGED <<std, fd, exists, ready, sent, connected, opens>>

\* A client's open waits for the server to have the pipe open.
ClientOpens(i) ==
    /\ server \in {"select", "serve"} /\ Total(opens) < MaxOpens
    /\ connected' = [connected EXCEPT ![i] = @ + 1]
    /\ opens' = [opens EXCEPT ![i] = @ + 1]
    /\ UNCHANGED <<std, fd, exists, server, ready, turn, unread, sent>>

ClientWrites(i) ==
    /\ server # "ended" /\ connected[i] > 0
    /\ unread[i] < PIPE_CAP /\ Total(sent) < MaxSend
    /\ unread' = [unread EXCEPT ![i] = @ + 1]
    /\ sent' = [sent EXCEPT ![i] = @ + 1]
    /\ UNCHANGED <<std, fd, exists, server, ready, turn, connected, opens>>

ClientCloses(i) ==
    /\ connected[i] > 0
    /\ connected' = [connected EXCEPT ![i] = @ - 1]
    /\ UNCHANGED <<std, fd, exists, server, ready, turn, unread, sent, opens>>

ServerNext ==
    \/ MakePipes \/ OpenPipes \/ Select \/ ServePipe
    \/ \E i \in Pipes : ClientOpens(i) \/ ClientWrites(i) \/ ClientCloses(i)

\* The server runs. Nobody is obliged to be its client.
ServerSpec ==
    /\ ServerInit /\ [][ServerNext]_servervars
    /\ WF_servervars(MakePipes) /\ WF_servervars(OpenPipes)
    /\ WF_servervars(Select) /\ WF_servervars(ServePipe)
-----------------------------------------------------------------------------
\* A server started with its three standard descriptors watches every pipe,
\* although it counts with one descriptor as a number of arguments and reads
\* one argument it never passed: whatever that is, select is given enough
\* descriptors or fails outright.
AllWatched ==
    std = 0..2 /\ server = "select" =>
        \A garbage \in Ints : Nfds(garbage) < 0 \/ Nfds(garbage) > fd[3]

\* As long as a pipe has its first client, no read of it fails: the server
\* ends only when a client opens a pipe that another has left. (The read that
\* finds the pipe empty comes after select has seen the one leave and before
\* the other has written.)
FirstClientSafe ==
    /\ server = "serve" /\ ~Skips(turn) /\ unread[turn] = 0 /\ connected[turn] > 0
    => opens[turn] > 1

\* Every message is read, also while a client that has left keeps select from
\* waiting and others keep the pipes before it full, unless the server ends.
EveryMessageRead ==
    \A i \in Pipes, k \in 1..MaxSend :
        (std = 0..2 /\ sent[i] >= k) ~> (sent[i] - unread[i] >= k \/ server = "ended")
=============================================================================
