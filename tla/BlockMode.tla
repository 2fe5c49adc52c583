------------------------------ MODULE BlockMode ------------------------------
(***************************************************************************)
(* src/src/block-mode/main.c: a process that receives datagrams on a Unix  *)
(* socket and writes them to a serial port. A server thread passes each    *)
(* datagram to enqueue, a writer thread takes it with dequeue and writes   *)
(* it, and a third thread prints what the port receives. The queue between *)
(* the two is BoundedFIFO, which SyncQueue implements.                     *)
(*                                                                         *)
(* The model includes what outlives the process: the file the socket is    *)
(* bound to and the serial device. It also has what the program does when  *)
(* it is started a second time beside this process: it takes the name of   *)
(* the socket, opens the port as well, and both go on. A datagram is its   *)
(* number since the process started; it is one the writer's 128-byte       *)
(* buffer can hold.                                                        *)
(***************************************************************************)
EXTENDS Integers, Sequences

CONSTANTS QUEUE_SIZE,
          SOCK_BACKLOG,  \* datagrams the kernel holds for a socket
          MaxSend,       \* bound on the datagrams sent to one process
          MaxSay,        \* bound on what the device says to one process
          MaxStarts,     \* bound on the times the program is started
          NULL

ASSUME BlockModeAssumption ==
    /\ {QUEUE_SIZE, SOCK_BACKLOG, MaxSend, MaxSay, MaxStarts} \subseteq Nat \ {0}
    /\ NULL \notin Nat

VARIABLES phase,     \* of the process: "stopped", "opening" the port, "running"
          server,    \* of the server thread: "none", "unlinking" the file,
             \* "binding", "listening"
          path,      \* of SOCKET_PATH: "none", "stale" (nobody reads it), "live",
             \* "other" (another process reads it)
          device,    \* the serial device: "up", "gone"
          fd,        \* the process's descriptor for it: "none", "ok", "dead"
          sock,      \* the datagrams in the kernel
          accepted,  \* how many datagrams the kernel took from clients
          handled,   \* the datagrams the writer is done with, in order
          line,      \* the datagrams that reached the serial line, in order
          input,     \* what the port has received and nobody has read
          told,      \* how much the device has said to the process
          starts,
          pending, queue, delivered  \* the queue of enqueue and dequeue

procvars == <<phase, server, fd, sock, accepted, handled, line>>
portvars == <<input, told>>
fifovars == <<pending, queue, delivered>>
vars == <<procvars, portvars, path, device, starts, fifovars>>

Queue == INSTANCE BoundedFIFO WITH
    Producers <- {"server"}, Consumers <- {"writer"},
    Values <- 1..MaxSend, Capacity <- QUEUE_SIZE, Impatient <- {}

Init ==
    /\ phase = "stopped" /\ server = "none" /\ path = "none"
    /\ device \in {"up", "gone"} /\ fd = "none"
    /\ sock = <<>> /\ accepted = 0 /\ handled = <<>> /\ line = <<>>
    /\ input = 0 /\ told = 0
    /\ starts = 0
    /\ Queue!Init

Start ==
    /\ phase = "stopped" /\ starts < MaxStarts
    /\ phase' = "opening"
    /\ starts' = starts + 1
    /\ UNCHANGED <<portvars, server, fd, sock, accepted, handled, line, path, device, fifovars>>

\* The process is gone with all its memory and its descriptors; the kernel
\* drops what the socket held, but the socket's file stays.
Stop ==
    /\ phase' = "stopped" /\ server' = "none" /\ fd' = "none"
    /\ path' = IF path = "live" THEN "stale" ELSE path
    /\ sock' = <<>> /\ accepted' = 0 /\ handled' = <<>> /\ line' = <<>>
    /\ input' = 0 /\ told' = 0
    /\ pending' = [p \in {"server"} |-> NULL]
    /\ queue' = <<>>
    /\ delivered' = [c \in {"writer"} |-> NULL]
    /\ UNCHANGED <<device, starts>>

\* main opens and configures the port, initialises the queue and creates the
\* threads. Without the device it returns 1.
OpenPort ==
    /\ phase = "opening" /\ device = "up"
    /\ phase' = "running" /\ fd' = "ok" /\ server' = "unlinking"
    /\ UNCHANGED <<portvars, sock, accepted, handled, line, path, device, starts, fifovars>>

OpenPortFails ==
    /\ phase = "opening" /\ device = "gone"
    /\ Stop

\* socket and unlink: whatever file is there, somebody's or left behind, goes.
Unlink ==
    /\ server = "unlinking"
    /\ server' = "binding" /\ path' = "none"
    /\ UNCHANGED <<portvars, phase, fd, sock, accepted, handled, line, device, starts, fifovars>>

\* bind makes a new file. When another process was there first it fails, and
\* the server thread calls exit.
Bind ==
    /\ server = "binding"
    /\ \/ /\ path = "none"
          /\ path' = "live" /\ server' = "listening"
          /\ UNCHANGED <<portvars, phase, fd, sock, accepted, handled, line, device, starts, fifovars>>
       \/ path # "none" /\ Stop

\* socket or recvfrom returns an error, or bind for another reason: the server
\* thread calls exit, which ends every thread, whatever is queued.
ServerFails ==
    /\ server # "none"
    /\ pending["server"] = NULL
    /\ Stop

\* The process is killed.
Kill ==
    /\ phase # "stopped"
    /\ Stop

\* Faulty variant: a datagram that finds the queue full is thrown away.
Recv_DropWhenFull ==
    /\ server = "listening" /\ sock # <<>>
    /\ pending["server"] = NULL
    /\ IF Len(queue) = QUEUE_SIZE THEN UNCHANGED fifovars
       ELSE Queue!Ask("server", Head(sock))
    /\ sock' = Tail(sock)
    /\ UNCHANGED <<portvars, phase, server, fd, accepted, handled, line, path, device, starts>>

\* Faulty variant: the next datagram is received into the buffer that the
\* call of enqueue in progress has not copied yet.
Recv_BufferReused ==
    /\ server = "listening" /\ sock # <<>>
    /\ pending' = [pending EXCEPT !["server"] = Head(sock)]
    /\ sock' = Tail(sock)
    /\ UNCHANGED <<queue, delivered>>
    /\ UNCHANGED <<portvars, phase, server, fd, accepted, handled, line, path, device, starts>>

\* recvfrom returns a datagram and enqueue is called on it. The buffer is
\* used again only when enqueue has returned.
Recv ==
    /\ server = "listening" /\ sock # <<>>
    /\ Queue!Ask("server", Head(sock))
    /\ sock' = Tail(sock)
    /\ UNCHANGED <<portvars, phase, server, fd, accepted, handled, line, path, device, starts>>

\* Faulty variant: enqueue does not wait for room.
EnqueueReturns_NoWait ==
    /\ phase = "running" /\ pending["server"] # NULL
    /\ queue' = Append(queue, pending["server"])
    /\ pending' = [pending EXCEPT !["server"] = NULL]
    /\ UNCHANGED <<portvars, delivered, procvars, path, device, starts>>

EnqueueReturns ==
    /\ phase = "running"
    /\ Queue!Put("server")
    /\ UNCHANGED <<portvars, procvars, path, device, starts>>

DequeueReturns ==
    /\ phase = "running"
    /\ Queue!Get("writer")
    /\ UNCHANGED <<portvars, procvars, path, device, starts>>

\* Faulty variant: after a failed write the port is opened again, and the
\* writer goes on with the next datagram.
Write_Reopens ==
    /\ phase = "running"
    /\ Queue!Done("writer")
    /\ handled' = Append(handled, delivered["writer"])
    /\ line' = IF fd = "ok" THEN Append(line, delivered["writer"]) ELSE line
    /\ fd' = IF device = "up" THEN "ok" ELSE fd
    /\ UNCHANGED <<portvars, phase, server, sock, accepted, path, device, starts>>

\* The writer writes what it dequeued and does not look at the result: what
\* cannot be written is lost.
Write ==
    /\ phase = "running"
    /\ Queue!Done("writer")
    /\ handled' = Append(handled, delivered["writer"])
    /\ line' = IF fd = "ok" THEN Append(line, delivered["writer"]) ELSE line
    /\ UNCHANGED <<portvars, phase, server, fd, sock, accepted, path, device, starts>>

\* Faulty variant: what the port receives is read after a write, as its answer.
thread_read_serial_AfterWrite ==
    /\ phase = "running" /\ fd = "ok" /\ delivered["writer"] # NULL
    /\ input > 0 /\ input' \in 0..input-1
    /\ UNCHANGED <<told, procvars, path, device, starts, fifovars>>

\* The third thread reads some of what has come and prints it. On a dead
\* descriptor it goes round without end and nothing changes.
thread_read_serial ==
    /\ phase = "running" /\ fd = "ok"
    /\ input > 0 /\ input' \in 0..input-1
    /\ UNCHANGED <<told, procvars, path, device, starts, fifovars>>

\* The device says something to whoever has the port open.
Say ==
    /\ fd = "ok" /\ told < MaxSay
    /\ told' = told + 1 /\ input' = input + 1
    /\ UNCHANGED <<procvars, path, device, starts, fifovars>>

\* A client's sendto: it fails when nobody reads the socket and blocks while
\* the kernel's queue is full.
Send ==
    /\ path = "live" /\ accepted < MaxSend
    /\ Len(sock) < SOCK_BACKLOG
    /\ sock' = Append(sock, accepted + 1)
    /\ accepted' = accepted + 1
    /\ UNCHANGED <<portvars, phase, server, fd, handled, line, path, device, starts, fifovars>>

\* The device goes; a descriptor open on it is of no use any more, even when
\* a device comes back under the same name.
Unplug ==
    /\ device = "up"
    /\ device' = "gone"
    /\ fd' = IF fd = "ok" THEN "dead" ELSE fd
    /\ input' = 0
    /\ UNCHANGED <<told, phase, server, sock, accepted, handled, line, path, starts, fifovars>>

Plug ==
    /\ device = "gone"
    /\ device' = "up"
    /\ UNCHANGED <<portvars, procvars, path, starts, fifovars>>

\* The program is started once more, beside this process: it takes the name
\* for a socket of its own, which it may leave behind, and reads the port.
OtherProcess ==
    /\ \/ path # "none" /\ path' = "none" /\ UNCHANGED input
       \/ path = "none" /\ path' = "other" /\ UNCHANGED input
       \/ path = "other" /\ path' = "stale" /\ UNCHANGED input
       \/ input > 0 /\ input' \in 0..input-1 /\ UNCHANGED path
    /\ UNCHANGED <<told, procvars, device, starts, fifovars>>

Next ==
    \/ Start \/ OpenPort \/ OpenPortFails \/ Unlink \/ Bind \/ ServerFails \/ Kill
    \/ OtherProcess
    \/ Recv \/ EnqueueReturns \/ DequeueReturns \/ Write
    \/ thread_read_serial \/ Say
    \/ Send \/ Unplug \/ Plug

\* The threads run and write returns (the driver drains the line). Nobody is
\* obliged to start the program, to send, or to plug the device in.
Spec ==
    /\ Init /\ [][Next]_vars
    /\ WF_vars(OpenPort \/ OpenPortFails)
    /\ WF_vars(Unlink) /\ WF_vars(Bind) /\ WF_vars(Recv)
    /\ WF_vars(EnqueueReturns) /\ WF_vars(DequeueReturns) /\ WF_vars(Write)
    /\ WF_vars(thread_read_serial)
-----------------------------------------------------------------------------
Upto(n) == [i \in 1..n |-> i]
Held(x) == IF x = NULL THEN <<>> ELSE <<x>>

\* Every variable has its type. The queue never holds more than QUEUE_SIZE
\* datagrams, and the name is this process's only once it listens.
TypeOK ==
    /\ phase \in {"stopped", "opening", "running"}
    /\ server \in {"none", "unlinking", "binding", "listening"}
    /\ path \in {"none", "stale", "live", "other"}
    /\ path = "live" => server = "listening"
    /\ device \in {"up", "gone"} /\ fd \in {"none", "ok", "dead"}
    /\ accepted \in 0..MaxSend
    /\ sock \in Seq(1..MaxSend) /\ Len(sock) <= SOCK_BACKLOG
    /\ {handled, line, queue} \subseteq Seq(1..MaxSend)
    /\ Len(queue) <= QUEUE_SIZE
    /\ pending \in [{"server"} -> 1..MaxSend \cup {NULL}]
    /\ delivered \in [{"writer"} -> 1..MaxSend \cup {NULL}]
    /\ told \in 0..MaxSay /\ input \in 0..told
    /\ starts \in 0..MaxStarts

\* Every datagram the kernel accepted from a client is in one place between
\* the client and the writer, and in the order it was accepted: written (or
\* given up by a failed write), in the writer's hands, queued, in the
\* server's buffer, or still in the kernel. The backlog is bounded.
InOrder ==
    handled \o Held(delivered["writer"]) \o queue \o Held(pending["server"]) \o sock
        = Upto(accepted)

\* What reached the line is what was handled before the device went: once a
\* write has failed the process writes nothing more, however often a device
\* comes back, so no later datagram follows a lost one.
NoGapOnLine == line = SubSeq(handled, 1, Len(line))

\* A datagram a client got rid of reaches the line, unless the process stops
\* or loses its device first: a full queue delays the clients and loses
\* nothing, nor does the loss of the socket's name to another process.
EveryDatagramWritten ==
    \A m \in 1..MaxSend :
        accepted >= m ~> Len(line) >= m \/ phase = "stopped" \/ fd = "dead"

\* The datagrams the process has taken from its clients and not yet written.
Backlog == Held(delivered["writer"]) \o queue \o Held(pending["server"]) \o sock

Bridge == INSTANCE SerialBridge WITH
    Datagrams <- 1..MaxSend, Capacity <- QUEUE_SIZE + SOCK_BACKLOG + 2,
    backlog <- Backlog, broken <- fd = "dead"

\* Kernel, server thread, ring and writer together are one bridge: what they
\* hold is a single queue that takes QUEUE_SIZE + SOCK_BACKLOG + 2 datagrams,
\* loses none while the process and its descriptor live, and goes on to empty.
ImplementsBridge == Bridge!Spec

\* What the device says is read by a process that prints it, whether or not
\* the writer and the server have anything to do or wait for each other,
\* unless the process stops or loses its device first.
EverythingPrinted ==
    \A m \in 1..MaxSay :
        told >= m ~> told - input >= m \/ phase = "stopped" \/ fd = "dead"
=============================================================================
