----------------------------- MODULE SerialLine -----------------------------
(***************************************************************************)
(* The programs that talk on one serial line or pseudo-terminal pair:      *)
(* m1.c, m2.c and m.c of src/dev/serial-async, the "cells" programs, rs.c, *)
(* forsel-read-serial.c and sel.c, any of them on either end, and a device *)
(* that speaks when it likes.                                              *)
(*                                                                         *)
(* What one write puts on the line is a unit, with or without a newline at *)
(* its end. The line keeps units in order, so their number is its state,   *)
(* with the number of those after the last newline. An end keeps what      *)
(* comes for it while nobody has it open. A new port is canonical: what    *)
(* came after the last newline cannot be read yet, and the port echoes its *)
(* input. A program sets attributes of its own or runs with those it       *)
(* finds, a new port's or raw ones that somebody left.                     *)
(***************************************************************************)
EXTENDS Integers

CONSTANTS Casts,     \* which program runs on which end: functions on Ends
          LINE_CAP,  \* units that a line's buffers hold
          MaxSend,   \* bound on the units one end writes
          MAX_FDS    \* descriptors a process may have on the port

VARIABLES prog,    \* prog[e]: the program on end e
          up,      \* the line is connected
          line,    \* line[e]: units on their way to e
          rest,    \* rest[e]: how many of them e's port holds back
          cooked,  \* cooked[e]: e's port is canonical and echoes
          echo,    \* echo[e]: e's port has input to echo
          said,    \* said[e]: units e has written
          wr,      \* wr[e]: where the part of e's program that writes is
          rd,      \* rd[e]: where the part that reads is
          fds      \* fds[e]: the descriptors e's program has on the port

port == <<line, rest, echo>>
vars == <<prog, up, port, cooked, said, wr, rd, fds>>

Ends == {"A", "B"}
Other(e) == CHOOSE f \in Ends : f # e

\* The flags of open that matter: O_NONBLOCK (O_NDELAY is another name of it)
\* makes a read of nothing and a write that does not fit fail.
m1_flags == {}
m2_flags == {"O_NONBLOCK"}
m_flags == {"O_NONBLOCK"}
rs_flags == {"O_NONBLOCK"}
pts_flags == {}
lib_flags == {}
cells_flags == {}
forsel_flags == {}

Flags == [m1 |-> m1_flags, m2 |-> m2_flags, m |-> m_flags, rs |-> rs_flags,
          pts |-> pts_flags, lib |-> lib_flags, cells |-> cells_flags,
          forsel |-> forsel_flags, sel |-> {}, device |-> {}]

\* The attributes a program sets: raw takes canonical mode and echo away; a
\* read of a raw port waits for min bytes (1 of a new port).
m1_port == [raw |-> TRUE, min |-> 1]
m2_port == [raw |-> TRUE, min |-> 1]
m_port == [raw |-> TRUE, min |-> 1]
rs_port == [raw |-> TRUE, min |-> 0]
pts_port == [raw |-> TRUE, min |-> 0]
lib_port == [raw |-> TRUE, min |-> 0]
forsel_port == [raw |-> TRUE, min |-> 1]
Untouched == [raw |-> FALSE, min |-> 1]

Port == [m1 |-> m1_port, m2 |-> m2_port, m |-> m_port, rs |-> rs_port,
         pts |-> pts_port, lib |-> lib_port, cells |-> Untouched,
         forsel |-> forsel_port, sel |-> Untouched, device |-> Untouched]
Programs == DOMAIN Port
Chats == {"pts", "lib", "cells"}

ASSUME SerialLineAssumption ==
    /\ Casts \subseteq [Ends -> Programs]
    /\ {LINE_CAP, MaxSend, MAX_FDS} \subseteq Nat \ {0}

\* A device is not a terminal; any other port is new, or raw as somebody left it.
Init ==
    /\ prog \in Casts
    /\ up = TRUE
    /\ line = [e \in Ends |-> 0] /\ rest = [e \in Ends |-> 0]
    /\ cooked \in [Ends -> BOOLEAN] /\ echo = [e \in Ends |-> FALSE]
    /\ \A e \in Ends : prog[e] = "device" => ~cooked[e]
    /\ said = [e \in Ends |-> 0]
    /\ wr = [e \in Ends |-> "none"] /\ rd = [e \in Ends |-> "none"]
    /\ fds = [e \in Ends |-> 0]
-----------------------------------------------------------------------------
\* Input for end e has come: an "m" that asked for SIGIO gets the signal,
\* which kills it while it has no handler.
Signalled(e) ==
    [rd EXCEPT ![e] = IF prog[e] = "m" /\ @ = "owner" THEN "ended"
                      ELSE IF prog[e] = "m" /\ @ = "sleep" THEN "handler"
                      ELSE @]

\* What e's program can read.
Available(e) == line[e] - rest[e]

\* A full line takes nothing more, except that a canonical port full of text
\* without a newline lets its last input be written over.
Room(e) == line[e] < LINE_CAP \/ rest[e] = LINE_CAP

\* A unit arrives at end e, whose port may have to echo it; owed is what
\* else is to be echoed.
Arrives(e, newline, owed) ==
    /\ Room(e)
    /\ line' = [line EXCEPT ![e] = IF @ < LINE_CAP THEN @ + 1 ELSE @]
    /\ rest' = [rest EXCEPT ![e] = IF newline \/ ~cooked[e] THEN 0
                                   ELSE IF @ < LINE_CAP THEN @ + 1 ELSE @]
    /\ echo' = [owed EXCEPT ![e] = @ \/ cooked[e]]
    /\ rd' = Signalled(e)

\* The port of end e echoes what came; several units may become one, so that
\* it may end with a newline or not.
Echo(e) ==
    /\ up /\ echo[e]
    /\ \E newline \in BOOLEAN :
          Arrives(Other(e), newline, [echo EXCEPT ![e] = FALSE])
    /\ UNCHANGED <<prog, up, cooked, said, wr, fds>>

\* write: the unit goes out, or the call fails and the writer goes to
\* failed, or it blocks.
Write(e, newline, next, failed) ==
    LET o == Other(e) IN
    /\ \/ /\ up /\ said[e] < MaxSend
          /\ Arrives(o, newline, echo)
          /\ said' = [said EXCEPT ![e] = @ + 1]
          /\ wr' = [wr EXCEPT ![e] = next]
       \/ /\ ~up \/ (~Room(o) /\ "O_NONBLOCK" \in Flags[prog[e]])
          /\ wr' = [wr EXCEPT ![e] = failed]
          /\ UNCHANGED <<port, said, rd>>
    /\ UNCHANGED <<prog, up, cooked, fds>>

\* read: some of what is available, or 0 (also of a line that was cut), or a
\* failure or, of a port without O_NONBLOCK, a wait.
Read(e, next, failed) ==
    LET fails == Available(e) = 0 /\ up /\ Port[prog[e]].min > 0 IN
    /\ fails => "O_NONBLOCK" \in Flags[prog[e]]
    /\ rd' = [rd EXCEPT ![e] = IF fails THEN failed ELSE next]
    /\ \E n \in 0..Available(e) :
          /\ n = 0 => Available(e) = 0
          /\ line' = [line EXCEPT ![e] = @ - n]
    /\ UNCHANGED <<prog, up, rest, echo, cooked, said, wr, fds>>

\* select for reading returns with the descriptor set.
Readable(e) == Available(e) > 0 \/ ~up

ReaderGoes(e, from, to) ==
    /\ rd[e] = from
    /\ rd' = [rd EXCEPT ![e] = to]
    /\ UNCHANGED <<prog, up, port, cooked, said, wr, fds>>

\* open and the calls that set the port up: they fail on a line that was cut.
\* What a port held back can be read once it is raw; flushed input is gone.
Open(e, w, r, flush) ==
    LET raw == Port[prog[e]].raw IN
    /\ wr[e] = "none" /\ rd[e] = "none"
    /\ wr' = [wr EXCEPT ![e] = IF up THEN w ELSE "ended"]
    /\ rd' = [rd EXCEPT ![e] = IF up THEN r ELSE "ended"]
    /\ fds' = [fds EXCEPT ![e] = IF up THEN 1 ELSE 0]
    /\ cooked' = [cooked EXCEPT ![e] = @ /\ ~(up /\ raw)]
    /\ line' = [line EXCEPT ![e] = IF up /\ flush THEN 0 ELSE @]
    /\ rest' = [rest EXCEPT ![e] = IF up /\ (flush \/ raw) THEN 0 ELSE @]
    /\ echo' = [echo EXCEPT ![e] = @ /\ ~(up /\ flush)]
    /\ UNCHANGED <<prog, up, said>>
-----------------------------------------------------------------------------
\* m1.c and m2.c. main opens the port and starts two threads that share its
\* descriptor; they have no lock and neither tells the other anything.
TwoThreads == {"m1", "m2"}

main(e) == prog[e] \in TwoThreads /\ Open(e, "select", "select", FALSE)

\* Faulty variant: the descriptor is in the set for writing, as the thread
\* that writes would have it.
WriterSelect_Writable(e) == up => Room(Other(e))

\* The set select is given is for reading.
WriterSelect(e) == Readable(e)

\* thread_w: it waits for input, without a timeout, and writes a line; an
\* error of write ends it. Whether it sees the input depends on thread_r.
thread_w(e) ==
    \/ /\ wr[e] = "select" /\ WriterSelect(e)
       /\ wr' = [wr EXCEPT ![e] = "write"]
       /\ UNCHANGED <<prog, up, port, cooked, said, rd, fds>>
    \/ wr[e] = "write" /\ Write(e, TRUE, "select", "ended")

\* Faulty variant: the thread does not wait for input before it reads.
thread_r_ReadFirst(e) ==
    \/ ReaderGoes(e, "select", "read")
    \/ rd[e] = "read" /\ Read(e, "select", "ended")

\* Faulty variant: no threads, and what is to be written is written before
\* anything is read.
thread_r_Serial(e) ==
    /\ wr[e] # "write"
    /\ \/ Readable(e) /\ ReaderGoes(e, "select", "read")
       \/ rd[e] = "read" /\ Read(e, "select", "ended")

\* thread_r: it waits for input, without a timeout, and reads it; an error of
\* read ends it, the 0 of a line that was cut does not.
thread_r(e) ==
    \/ Readable(e) /\ ReaderGoes(e, "select", "read")
    \/ rd[e] = "read" /\ Read(e, "select", "ended")

m1_main(e) == prog[e] = "m1" /\ main(e)
m1_thread_w(e) == prog[e] = "m1" /\ thread_w(e)
m1_thread_r(e) == prog[e] = "m1" /\ thread_r(e)
m2_main(e) == prog[e] = "m2" /\ main(e)
m2_thread_w(e) == prog[e] = "m2" /\ thread_w(e)
m2_thread_r(e) == prog[e] = "m2" /\ thread_r(e)
-----------------------------------------------------------------------------
\* m.c. main opens the port, asks for SIGIO and sleeps.
m_main(e) == prog[e] = "m" /\ Open(e, "ended", "opened", FALSE)

\* fcntl makes the process the owner of the port's signals ("owner") before
\* sigaction installs the handler.
set_async_mode(e) ==
    /\ prog[e] = "m"
    /\ ReaderGoes(e, "opened", "owner") \/ ReaderGoes(e, "owner", "sleep")

\* The handler's argument is the number of the signal. As a descriptor it is
\* one nobody has opened: read fails and the input stays where it is.
signal_handler_IO(e) == prog[e] = "m" /\ ReaderGoes(e, "handler", "sleep")
-----------------------------------------------------------------------------
\* The "cells" programs (enet_chat_module): open the port, write one command,
\* then read for ever. src/dev/include/cells.c keeps the attributes it finds
\* and flushes the port.
OpenFor(e) ==
    /\ prog[e] \in Chats
    /\ Open(e, "write", "wait", prog[e] = "cells")

\* Whether the command ends with a newline is the caller's choice of
\* src/dev/include/cells.c alone.
CommandNewline(e) == IF prog[e] = "cells" THEN BOOLEAN ELSE {TRUE}

\* More bytes than the command are written: the rest of a buffer of 50 that
\* holds what it held before, or, by lib/cells.c, the string's NUL.
TailNewline(e) == IF prog[e] = "lib" THEN {FALSE} ELSE BOOLEAN

\* write_serial_port; an error ends the program, a short count does not.
\* Only then does it read.
Command(e) ==
    /\ prog[e] \in Chats
    /\ \/ /\ wr[e] = "write"
          /\ \E newline \in CommandNewline(e) : Write(e, newline, "tail", "failed")
       \/ /\ wr[e] = "tail"
          /\ \E newline \in TailNewline(e) : Write(e, newline, "ended", "ended")
       \/ wr[e] = "ended" /\ ReaderGoes(e, "wait", "loop")
       \/ wr[e] = "failed" /\ ReaderGoes(e, "wait", "ended")

\* read_serial_port of cells-pts.c and lib/cells.c. A timeout of select
\* leads back to the loop.
read_serial_port(e) ==
    \/ Readable(e) /\ ReaderGoes(e, "loop", "read")
    \/ rd[e] = "read" /\ Read(e, "loop", "ended")

\* That of src/dev/include/cells.c fills the set and does not call select.
cells_read_serial_port(e) ==
    /\ prog[e] = "cells"
    /\ rd[e] = "loop" /\ Read(e, "loop", "ended")

pts_read_serial_port(e) == prog[e] = "pts" /\ read_serial_port(e)
lib_read_serial_port(e) == prog[e] = "lib" /\ read_serial_port(e)
pts_enet_chat_module(e) == prog[e] = "pts" /\ (OpenFor(e) \/ Command(e))
lib_main(e) == prog[e] = "lib" /\ (OpenFor(e) \/ Command(e))
cells_enet_chat_module(e) == prog[e] = "cells" /\ (OpenFor(e) \/ Command(e))
-----------------------------------------------------------------------------
\* rs.c: one select with a timeout, one read, and the end.
rs(e) ==
    /\ prog[e] = "rs"
    /\ \/ Open(e, "ended", "select", FALSE)
       \/ Readable(e) /\ ReaderGoes(e, "select", "read")
       \/ ~Readable(e) /\ ReaderGoes(e, "select", "ended")
       \/ rd[e] = "read" /\ Read(e, "ended", "ended")

\* Faulty variant: the loop does not stop when open fails.
forsel_open_Unchecked(e) ==
    /\ rd[e] = "loop"
    /\ rd' = [rd EXCEPT ![e] = "select"]
    /\ fds' = [fds EXCEPT ![e] = @ + 1]
    /\ UNCHANGED <<prog, up, port, cooked, said, wr>>

\* forsel-read-serial.c opens the port at every turn and never closes it;
\* the program ends when open or a call that sets the port up fails.
forsel_open(e) ==
    LET opens == up /\ fds[e] < MAX_FDS IN
    /\ rd[e] = "loop"
    /\ rd' = [rd EXCEPT ![e] = IF opens THEN "select" ELSE "ended"]
    /\ fds' = [fds EXCEPT ![e] = IF opens THEN @ + 1 ELSE @]
    /\ UNCHANGED <<prog, up, port, cooked, said, wr>>

\* Its main: open, select without a timeout, read, and again.
forsel(e) ==
    /\ prog[e] = "forsel"
    /\ \/ Open(e, "ended", "select", FALSE)
       \/ forsel_open(e)
       \/ Readable(e) /\ ReaderGoes(e, "select", "read")
       \/ rd[e] = "read" /\ Read(e, "loop", "ended")

\* sel.c, whose line is its standard input: an error of read does not end it.
sel(e) ==
    /\ prog[e] = "sel"
    /\ \/ Open(e, "ended", "select", FALSE)
       \/ Readable(e) /\ ReaderGoes(e, "select", "read")
       \/ rd[e] = "read" /\ Read(e, "select", "select")
-----------------------------------------------------------------------------
\* The device: it speaks unasked and takes whatever comes.
Device(e) ==
    /\ prog[e] = "device"
    /\ \/ Open(e, "write", "loop", FALSE)
       \/ /\ wr[e] = "write"
          /\ \E newline \in BOOLEAN : Write(e, newline, "write", "ended")
       \/ rd[e] = "loop" /\ Available(e) > 0 /\ Read(e, "loop", "loop")

\* The line is cut: what was on it is lost, and stays cut.
Cut ==
    /\ up
    /\ up' = FALSE
    /\ line' = [e \in Ends |-> 0] /\ rest' = [e \in Ends |-> 0]
    /\ echo' = [e \in Ends |-> FALSE]
    /\ UNCHANGED <<prog, cooked, said, wr, rd, fds>>

TwoThreadsNext(e) ==
    \/ m1_main(e) \/ m1_thread_w(e) \/ m1_thread_r(e)
    \/ m2_main(e) \/ m2_thread_w(e) \/ m2_thread_r(e)
AsyncNext(e) == m_main(e) \/ set_async_mode(e) \/ signal_handler_IO(e)
ChatNext(e) ==
    \/ pts_enet_chat_module(e) \/ lib_main(e) \/ cells_enet_chat_module(e)
    \/ pts_read_serial_port(e) \/ lib_read_serial_port(e)
    \/ cells_read_serial_port(e)
Next ==
    \/ \E e \in Ends :
          \/ TwoThreadsNext(e) \/ AsyncNext(e) \/ ChatNext(e)
          \/ rs(e) \/ forsel(e) \/ sel(e) \/ Device(e) \/ Echo(e)
    \/ Cut

\* A thread that can run does, once its program has been started. Nobody is
\* obliged to start a program, and the device is to read, not to speak.
Spec ==
    /\ Init /\ [][Next]_vars
    /\ \A e \in Ends :
          /\ WF_vars(m1_thread_w(e) \/ m2_thread_w(e))
          /\ WF_vars(m1_thread_r(e) \/ m2_thread_r(e))
          /\ WF_vars(AsyncNext(e) /\ rd[e] # "none")
          /\ WF_vars(ChatNext(e) /\ rd[e] # "none")
          /\ WF_vars((rs(e) \/ forsel(e) \/ sel(e)) /\ rd[e] # "none")
          /\ WF_vars(Device(e) /\ rd' = rd /\ line'[e] < line[e])
-----------------------------------------------------------------------------
\* Every variable has its type: a line holds what its buffers can, only a
\* canonical port holds input back, and a program has no more descriptors
\* than it may have.
TypeOK ==
    /\ prog \in Casts /\ up \in BOOLEAN
    /\ line \in [Ends -> 0..LINE_CAP] /\ rest \in [Ends -> 0..LINE_CAP]
    /\ cooked \in [Ends -> BOOLEAN] /\ echo \in [Ends -> BOOLEAN]
    /\ \A e \in Ends : rest[e] <= line[e] /\ (rest[e] > 0 => cooked[e])
    /\ said \in [Ends -> 0..MaxSend]
    /\ wr \in [Ends -> {"none", "select", "write", "tail", "failed", "ended"}]
    /\ rd \in [Ends -> {"none", "opened", "owner", "sleep", "handler", "wait",
                        "loop", "select", "read", "ended"}]
    /\ fds \in [Ends -> 0..MAX_FDS]

\* While the line is up a program ends only for the reason its code gives:
\* rs has read once, forsel has used up its descriptors, SIGIO found m
\* without a handler after the other end had spoken, and the writing thread
\* of m2, but never m1's, met a full line. In particular the reading threads
\* of m1 and m2 never read where there is nothing to be read (it would end
\* m2's), although another thread selects on the same descriptor and is
\* woken by the same input.
EndsForAReason ==
    up => \A e \in Ends :
        /\ rd[e] = "ended" =>
              \/ prog[e] = "rs"
              \/ prog[e] = "m" /\ said[Other(e)] > 0
              \/ prog[e] = "forsel" /\ fds[e] = MAX_FDS
        /\ prog[e] \in TwoThreads =>
              /\ wr[e] = "ended" => prog[e] = "m2" /\ said[Other(e)] > 0
              /\ rd[e] = "read" => Available(e) > 0

\* m1 and m2 never speak first: thread_w waits until it could read, and what
\* a canonical port at the other end echoes is not there before. Two of them
\* on one line, or one of them and a program that only listens, are silent
\* for ever.
SpokenToFirst ==
    \A e \in Ends : prog[e] \in TwoThreads /\ said[e] > 0 => said[Other(e)] > 0

\* The program on end e is one that reads for ever and has come to that.
ReadsOn(e) == prog[e] \notin {"rs", "forsel"} /\ rd[e] \in {"loop", "select", "read"}

\* Input that a program which reads for ever could read is not left on a line
\* that stays up: also when both ends write more than the lines hold, so that
\* both writing threads block, and when a canonical port keeps echoing. Text
\* that a canonical port holds back for want of a newline is not claimed.
EverythingRead ==
    \A e \in Ends :
        <>[](up /\ ReadsOn(e) /\ Available(e) > 0) => []<><<line'[e] < line[e]>>_vars
=============================================================================
