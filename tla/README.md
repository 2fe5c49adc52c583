# A verification development for usks

The repository holds small C programs around serial ports and Unix datagram
sockets: a bridge that writes datagrams to a serial line, two servers that queue
and cache requests, the queues they are built on, and a number of
demonstrations. What is hard in them is concurrency. Threads share rings, lists
and buffers under mutexes and condition variables, some of which are shared by
waiters of two kinds; there are timed waits, work done with a mutex released in
between, and processes that leave files behind when they die.

This directory holds TLA+ modules that model those programs, TLC configurations
that check them on small instances, and proofs, checked by the TLA+ proof
system, of what holds for every instance. `PROJECT.json` lists the runs, the
faulty variants each property is tested against, the source lines of every
definition, and the hazards the properties are aimed at.

## The system's parts

| component | source | state it keeps | operations | hard behaviour |
|---|---|---|---|---|
| blocking ring queue | `src/src/block-mode/include/queue.c` | ring of pointers, head, tail, count | `init_queue`, `enqueue`, `dequeue` | many threads on one mutex and two condition variables; one signal per call; arrays read after the mutex is released |
| block-mode process | `src/src/block-mode/main.c` | its three threads, the socket and its file, the port's descriptor | start, receive, write, print, exit | a full pipeline, the device going away, exits from a thread, a stale socket file |
| caching echo server | `src/dev/qlinktime.c` | request queue, list of responses with their ages | `handle_client`, `process_queue`, `aging_list` | one condition variable for two conditions, a timed wait, a search and an update in two holds of the list's mutex, three threads |
| multi-device serial server | `src/dev/q1.c` | a queue and a list per device | `handle_client`, `process_device`, `init_devices` | the same, devices that were never opened, unlocked reads, results sent to the wrong descriptor |
| timed string queue | `src/dev/lkq/lkq.c` | ring of strings, front, rear, size | `queue_push` with or without a deadline, `queue_pop`, `queue_search` | a pusher that leaves the wait by its deadline while it may have been meant by a signal |
| thread-per-datagram server | `src/dev/us.c` | one receive buffer, detached threads, a timed string queue | receive, spawn, copy, push | the buffer is shared without a lock; nothing ever pops |
| two-device serial server | `src/dev/q2.c` | a ring without a size and a list per device, detached threads | `handle_client_request`, `enqueue`, `device_thread` | `enqueue` started as a thread with one argument of two; any number of threads waiting for room |
| named pipe chat | `src/named-pipe/piper.c`, `pipew.c` | one named pipe, opened by turns for reading and writing | open, read, write, close | who opens first; a program that reads its own line; one that is killed |
| serial line programs | `src/dev/serial-async/`, `src/dev/lib/cells-pts.c`, `cells.c`, `forsel-read-serial.c`, `sel.c`, `src/dev/include/cells.c`, `src/dev/rs.c` | a descriptor, its flags and attributes; in `m1.c` and `m2.c` two threads that share it, in `m.c` a SIGIO handler | open, select, write, read | two threads in `select` on one descriptor, the writing one waiting for input; full lines; a signal before its handler is there; a descriptor that is never closed |
| pipe server | `src/dev/lib/pipe_select.c` | three named pipes and their descriptors | make, open, select, read | an argument of `select` computed from one that was not passed; clients that come and go between `select` and `read` |
| demonstrations | `src/dev/full.c`, `src/dev/lib/` | a ring, a list, a counter | | see "Not modelled" |

The block-mode process is built on the ring queue, and `us.c` on the timed
string queue. The two servers carry their queues in themselves. Programs talk to
the outside through datagrams, which the kernel keeps in order and does not lose
on a Unix socket, and through serial lines, which may vanish.

What makes each part correct:

- *Queues.* First in, first out; nothing lost, duplicated or altered; never more
  than the ring holds; nobody asleep who could be served; a result that is true.
- *Block-mode.* The line carries the datagrams in the order the kernel took
  them, with no gap; what the kernel took is written while the device is there;
  the process can be started again over what it left behind.
- *Servers.* Each request is in one place and is answered once, also when a
  timeout races the worker; the list is consistent between the threads that
  search, insert and age; no thread waits for ever.
- *Serial line programs and the pipe server.* They end only for the reason their
  code gives, and what is sent to them is read, also when both ends of a line
  have filled it, or when one pipe is always ready.

## The modules

`BoundedFIFO` is the abstract specification that four modules share: what a
blocking bounded queue promises its callers. A producer asks (`Ask`), its value
enters while there is room (`Put`), a consumer gets the oldest (`Get`) and keeps
it unchanged until it is done (`Done`); an impatient producer may give up before
its value has entered (`GiveUp`). `SyncQueue`, `LkQueue` and `Q2` are shown to
implement it, and `BlockMode` is built on it.

`SerialBridge` is what a process between datagrams and a serial line promises,
without threads or buffers: it takes what it can hold (`Take`), writes it in that
order (`Pass`), loses what follows once its line is broken (`Break`), and forgets
all when it ends (`End`). `BlockMode` is shown to implement it: `Backlog` maps what
the writer, the ring, the server's buffer and the kernel hold to one queue, and a
descriptor that is dead is a broken line.

`SyncQueue` is `queue.c`. The ring's fields are touched only with the mutex
held, and the mutex is given up only in `pthread_cond_wait` or on return, so a
step is what a thread does between two such points: `Enqueue` is either `Sleep`
(full) or `Insert` (the rest of the function, signal included), `Dequeue` is
`Sleep` or `Remove`. `pc` says where a thread is; a signal moves one of the
waiting threads, any of them, from `waiting` to `woken`, and a woken thread
competes for the mutex with those `entering`. `SpuriousWakeup` is the wakeup
POSIX allows. The `malloc` of each element is modelled by addresses and a heap,
because `dequeue` returns a pointer that the slot keeps and the caller reads
after the mutex is released: whether that is safe is a property (`Ownership`).
Nobody frees an array, so the program leaks; the model reuses addresses no
pointer is left to.

A module `XProofs` holds the theorems about the module `X`: `SyncQueueProofs`,
`BlockModeProofs`, `LinkTimeProofs`, `Q1Proofs`, `LkQueueProofs` (with those about
`UsServer`), `Q2Proofs`, `SerialLineProofs`, and `PipeProofs` for `FifoChat` and
`PipeSelect`.

`BlockMode` is `main.c` of block-mode: the process's phases, its server thread
(bind, receive, `enqueue`), its writer thread (`dequeue`, `write`) and the thread
that prints what the port receives (`thread_read_serial`), the kernel's
queue for the socket, the file the socket is bound to, and the device. The
queue is `BoundedFIFO`, so that a full queue makes the server wait, which makes
the kernel's queue fill, which makes clients wait. The process can be killed at
any time, may exit from the server thread, and can be started again on what is
left: the file. `unlink` and `bind` are two steps, for the name is not the
process's own: the program may be started a second time beside it
(`OtherProcess`), which removes the file, whoever listens on it, binds its own
socket, and reads the same port. `bind` then fails when the other was first. The
process that has lost its name goes on with what the kernel holds for it and
gets no more. The device can go and come back; a descriptor open on it stays
dead. What the port receives counts as printed (`EverythingPrinted`) when either
process has read it.

`LinkTime` is `qlinktime.c`: the main thread (`handle_client`), the worker
(`process_queue`) and the aging thread. The worker holds `queue_mutex` through a
batch, so the main thread's steps that need it wait (`QueueFree`); within the
batch it takes `list_mutex` twice for each request, once in `search_list` and
once in `reset_aging_time` or `insert_list`, and the aging thread and the main
thread can come between (`SearchResponse`, `Answer`). The one condition
variable is waited on by the worker (queue empty) and by the main thread (queue
full, with a timeout). The timeout may come at any time, also when the main
thread gets the mutex back only after the queue has been emptied (`TimeOut`). The
worker and the main thread send answers with `queue_mutex` held (`sendto` at lines
146 and 226; that of line 213 is without it), and the model takes every `sendto` to
return. A client that does not read its answers could stop both threads for
everybody, so `EveryRequestAnswered` is about clients that read theirs. A response is its request with one letter more, so a message is its length; the
one that fills the buffer is its own response. Ages count in seconds, and the
scan runs every half AGING_TIME. What the scan leaves (`aging_list`) is stated by
the places of the nodes it keeps (`Kept`), taken in increasing order.

`Q1` is `q1.c`: the main thread, the one device thread, the queues of a device
that was opened and of one that was not, and the list of results, of which the
main thread reads the head without the lock (`seen`). The serial exchange
returns an arbitrary text. `outcome` and `answered` record what became of each
request, for the properties.

`LkQueue` is `lkq.c`, in the manner of `SyncQueue`. A pusher that passed a
deadline may leave the wait for `expired` and then returns -1 without another
look at the ring (`TimeOut`). A signal may still be given to one that is
`expired` (POSIX allows it), which makes it `spent` and wakes nobody. On two
slots with one pusher of each kind whoever still waits is served all the same,
which is what the run shows. On a ring of one slot it is not so. There the signal for the only slot can leave with the pusher
that timed out, and the other stays asleep before an empty ring, so that
`ImplementsFIFO` would fail. No program of the repository mixes the two kinds:
`us.c` pushes with a deadline only. `Contents` is what `queue_search` walks. Strings
are shorter than MAX_STRING_LENGTH.

`UsServer` is `us.c`. It extends `LkQueue`, whose pushers are the threads it starts
and which has no poppers; `CallPush`, `InPush`, `Deadline`, `GivesUp` and
`WokenForNothing` are the queue's steps in a thread of the server, and the other
actions leave the queue alone. The receive buffer is shared by the main thread and those it starts without a lock: the
kernel fills it in two steps, and what a thread copies in between is a `MIX`.
`pthread_create` may fail, and `recvfrom` may, in which case only the main
thread ends.

`Q2` is `q2.c`. The main thread searches the list (`Request`) and starts a
thread on `enqueue` (`StartEnqueue`), whose second argument nobody passes: the
model lets it be any text, or an address that ends the process (`BAD`). The ring
keeps no size; `is_queue_full` leaves one slot free. `Exchange` is all of
`device_thread` between two calls of `dequeue`. A node of the list is the set of
the texts it contains, for the search is by `strstr`. One device is enough: the
two share only the main thread, which waits for neither.

`FifoChat` is `piper.c` and `pipew.c`, which differ in where they begin
(`First`). The model of the pipe is external: `open` waits until the other end
has been opened since (`met`), also when it has been closed again; the pipe keeps
its lines while anybody has it open; `read` returns nothing without a writer and
`write` ends the program without a reader. A read of 80 bytes takes a whole line
and may leave the next one, or a part of it, which is only possible after a kill:
`Read` takes any number of lines but none. A program may be killed and started
again.

`SerialLine` is every program that does nothing but talk on one serial line, any
two of them on its ends (`Casts`): `m1.c` and `m2.c` with their two threads, `m.c`
with its signal handler, the three "cells" programs, `rs.c`,
`forsel-read-serial.c`, `sel.c`, and a device that speaks when it likes. What
makes them differ for the kernel is whether the descriptor blocks (`Flags`, from
the flags of `open`), how many bytes a read waits for, and whether the port is raw
(`Port`, from the attributes each program sets; VMIN is 1 where a program leaves
it, as it is of a new port). What a call then does (`Open`, `Write`, `Read`,
`Readable`) is external and shared. `wr` and `rd` say where the writing and the
reading part of a program are. A write is a unit; the line holds LINE_CAP of them
each way and keeps their order, so that their number is enough; it may be cut at
any time. The two lines behave as those of a pseudo-terminal pair: what is written
at one end is input of the other's port.

A new port is canonical: it gives up input only at a newline, and echoes it to the
other end. `src/dev/include/cells.c` and `sel.c` leave the attributes as they are,
and every other program changes them only once it is started, so a port begins
canonical or raw, as a program before may have left it (`cooked`). A unit ends
with a newline or does not; those after the last newline are held back (`rest`),
and `Available` is what can be read. Input of a canonical port makes it owe an
echo (`echo`), which reaches the other end as a unit of its own, perhaps several
in one (`Echo`); two canonical ports echo each other without end. Setting the port
raw lets what was held back be read; the TCIOFLUSH of `src/dev/include/cells.c`
(`Open`'s last argument) throws input and echo away. The "cells" programs write
more than their command: what the rest of a buffer of 50 bytes happens to hold, or
in `lib/cells.c` the string's NUL. That is a unit of its own (`"tail"`), which may
have no newline, and is then held back by a canonical port until one comes. Control
characters, which a canonical port would act on, are left out.

`EverythingRead` is about what can be read, and about a program that has come to
reading for ever: not about text that a port holds back for want of a newline, nor
what TCIOFLUSH throws away before the program has come to that, nor a "cells"
program that two canonical ports, by echoing each other, keep in its write. The
reading of `rs.c` and `forsel-read-serial.c` ends by their code.

The two threads of `m1.c` and `m2.c` share the descriptor and nothing else: both
are woken by the same input, and whether the writing one sees it depends on
whether the reading one has read it. SIGIO kills `m.c` between `F_SETOWN` and
`sigaction`; its handler gets the signal's number as its argument and reads from
that descriptor, so that no input is ever taken.

`PipeSelect` is `pipe_select.c`. `Nfds` is the argument of `select` as C computes
it: `max_of_ints` takes `fd1` for the number of its arguments and reads one that
was not passed, which may be any int, and the sum may wrap. The server may have
been started with some of its standard descriptors closed (`Stds`), which decides
what its pipes get. `Select` remembers what was ready, and `ServePipe` reads one
pipe after the other, while clients open, write and close in between.

A definition whose name ends in `_Something` and whose comment says "faulty
variant" is the program with a plausible mistake. It is used by no specification;
put in the place of the definition it varies, it must break the property that
`PROJECT.json` names with it.

## The runs

| run | instance | what it shows |
|---|---|---|
| `queue` | 2 producers, 2 consumers, 2 slots, 1 value, 5 arrays | type, ownership, no lost wakeup, every step one of the bounded queue, and nobody who could be served stays asleep (refinement with liveness) |
| `block_mode` | ring of 2, kernel queue of 1, 6 datagrams, 2 starts | order on the line, no gap after a loss, the whole one bridge (refinement with liveness), every datagram written, everything the device says read and printed; all this beside a second start of the program |
| `linktime` | 3 clients, queue of 2, 3 lengths, AGING_TIME 2 | requests in one place and answered, one node a message, only the old forgotten |
| `q1` | 2 devices, queue of 2, 4 requests | requests in one place, the unlocked search is safe, the server comes back, what is queued is done |
| `lkqueue` | 2 pushers (1 timed), 2 poppers, 2 slots | refinement with liveness although a pusher may leave, timed pushes return, true results |
| `us_server` | 4 datagrams, 2 slots | no thread hangs, only a full ring refuses |
| `q2` | 4 requests, ring of 3 slots, 2 texts | the ring without a size is a bounded queue of one less, every thread started on `enqueue` gets its turn |
| `fifo_chat` | 2 programs, 1 kill | every line is read once and by the other program, nobody writes to nobody, the turns pass |
| `serial_line` | all 100 pairs of programs, 3 units each way, 5 units from each end, 3 descriptors | programs end for a reason, `m1.c` and `m2.c` never speak first, everything a port gives to a program that reads for ever is read |
| `pipe_select` | 3 pipes of 1 message, 3 messages, 3 openings, 4-bit int, any standard descriptors | select watches every pipe, the first client of a pipe cannot end the server, no pipe starves |
| `us_server_own` | 2 datagrams | finding 1 below |
| `linktime_remembered` | 1 client | finding 2 |

**Why the bounds are enough.** Two threads of each kind and two slots are the
smallest instance in which a woken thread loses its slot to one that has just
arrived while another of its kind still sleeps, in which the ring wraps, and in
which two slots or two consumers could share an array; five arrays are what two slots,
two consumers and a producer hold at most, and a sixth never comes into use. One
value is enough for what depends on when threads sleep; that values are neither
swapped nor lost holds by the proofs for any values, as they remove every other
bound. Six datagrams are more than the line, the writer, the ring of two, the
server's buffer and the kernel's queue of one hold together, so that the whole
pipeline is full at once; two starts give one restart. Three clients with room
for two fill the server's queue and leave one that has to wait, and three
lengths give a list of two nodes, one of which can be reset while the other ages.
Four requests fill one device's queue, wait for room in it, and leave one more.
Four datagrams with two slots leave two threads waiting at once, and so do four
threads on `q2.c`'s ring of three slots, which holds two. The two programs on the
pipe run without end; lines are numbered modulo three, which tells the last one
from those before and after it, and one kill at any point is what brings a second
line into the pipe, or lines of both programs. On the serial line an end writes
more than the line holds, so that both lines are full at once with both writers
blocked, or failing, in the middle of their work; three descriptors are one to
begin with and more than one to lose. Three openings are a pipe's first client,
one that comes when it has left, and one of another pipe; three messages are more
than one pipe holds; an int of four bits holds the descriptors 3 to 5 and can
wrap after them, as the real one can after its own.

TLC runs with deadlock checking except for `Q1`, `UsServer`, `Q2`, `FifoChat`,
`SerialLine` and `PipeSelect`. In the first three the requests or datagrams are
bounded by a guard and run out, which is an end the model adds (in `UsServer` the
main thread may also end, and in `Q2` the process crash). The others really may
stop: after a kill both programs of `FifoChat` can wait for each other in `open`,
see below; two programs on a line may both wait for input, which is what
`SpokenToFirst` is about; the pipe server may have ended, or have no clients.

**Fairness.** Every fairness condition says that a thread that can run does, or
that time passes. Weak fairness stands for the scheduler. It is strong in two
places, where a timed wait can be interrupted again and again by wakeups: its
deadline is absolute and computed once, so that the wait ends by it at last
(`Expire` in `LkQueue` and `UsServer`, `TimeOut` in `Q1`). In `SyncQueue` and
`LkQueue` weak fairness of `Enqueue(p)`, `Push(p)` and their like says a thread
that waits for the mutex gets it in the end; the refinement asks no more than
that some producer and some consumer proceeds, because the code promises nothing
to a single thread: one that is woken can lose its slot every time. `BlockMode`
assumes that `write` returns, the driver draining the line. `Q2` assumes fairness
of each thread's `enqueue`: every thread gets the mutex in the end, and since the
requests are bounded no thread loses its slot for ever. `SerialLine` and
`PipeSelect` assume it of each thread that has been started, and of the device's
reading, not of its speaking. Nobody is obliged to send,
to type, to start a program, or to plug in the device. The aging thread is taken
to be on time to within the second its sleep has.

## What is proved

The theorems of eight modules, each for every value of the constants that the
named assumption of its module allows, and from nothing else. Between them they
state every invariant that a run checks. The assumptions say
that sizes and bounds are positive natural numbers, that `NULL` is none of the
values it stands beside, and what is listed below. All theorems follow from an
invariant proved inductive, `IInv` where nothing else is said.

### The ring queue of block-mode (`SyncQueueProofs`)

From `QueueAssumption` (QUEUE_SIZE is a positive natural number, the sets of
threads are finite and disjoint, `NULL` is no value and no address), for any
threads, values, addresses and size of the ring:

- `TypeCorrect`, `OwnershipCorrect`, `WakeupCorrect`: `TypeOK`, `Ownership` and
  `NoLostWakeup` hold always.
- `Inductive`: so does `IInv`, the conjunction they follow from (no run checks it as a
  whole; `TypeOK`, `Ownership` and `NoLostWakeup`, its other parts, are in `queue`).
- `Implements`: every behaviour of the ring is one of `BoundedFIFO` (its safety
  half).

The argument: none of the three is inductive alone. `IInv` adds two shapes.
`RingShape` says that `tail` is `count` slots after `head` (modulo the size) and
that no slot in use is empty; without it nothing prevents an insertion from
overwriting a slot in use. `CallsShape` says that a producer's bytes are there
exactly while it is in a call and that a consumer holds an array only outside
one. The part about the ring rests on lemmas on arithmetic modulo the size
(`ModRing`, `SlotFacts`, `WindowGrows`, `WindowShrinks`): the slots in use are
distinct, an insertion adds one at the end, a removal takes the first. The part
about wakeups counts: `WokenBySignal` and `WokenByReturn` say what a signal and a
return do to the number of woken threads. A signal adds one woken thread if one
was waiting and the slot or element it stands for adds one on the other side of
the inequality; when no thread is waiting the inequality has nothing to say; a
woken thread that finds its slot taken goes back to sleep, and then the ring is
full, which makes the inequality true again.

The refinement maps the in-progress argument to `pending`, the heap contents of
the slots in use to `queue`, and the heap contents of what a consumer holds to
`delivered`. `EnqueueCall` maps to `Ask`, `Insert` to `Put` (`InsertIsPut`),
`Remove` to `Get` (`RemoveIsGet`), `Drop` to `Done` (`DropIsDone`), and
everything else to a stutter. Ownership is what makes the mapping work:
`delivered` is read from the heap at the moment of looking, so an array that was
queued again or written over would show as a step the abstract queue does not
have.

### The other two rings (`LkQueueProofs`, `Q2Proofs`)

From `LkQueueAssumption`: `TypeCorrect`, `ResultsTrue` (`ResultIsTrue`: what
`queue_push` returns is what happened) and `Implements` (the safety half of
`BoundedFIFO`, `TimeOut` mapped to `GiveUp`). From `Q2Assumption`: `Implements`
(`ImplementsFIFO`). Both invariants say that a thread has its string exactly while
it is in a call, and that the slots in use hold strings. `LkQueue`'s adds that
`rear` is `size` slots after `front`. `Q2` has no size: `Size` is the distance of
the indices modulo MAX_QUEUE_SIZE, and `SlotFacts` shows that it is 0 exactly when
`is_queue_empty` says so and MAX_QUEUE_SIZE - 1 exactly when `is_queue_full` does,
which is what the free slot is for. `StoreAppends` and `LoadTakes` then say what a
call does to the strings queued. `MAX_QUEUE_SIZE >= 2` is needed: a ring of one
slot is empty and full at once. `LkQueueAssumption` says of the threads what
`QueueAssumption` does, and that the timed ones are pushers.

### The servers (`BlockModeProofs`, `LinkTimeProofs`, `Q1Proofs`, `LkQueueProofs`)

From `BlockModeAssumption`: `TypeCorrect`, `OrderKept` (`InOrder`), `NoGap`
(`NoGapOnLine`) and `Implements` (the safety half of `SerialBridge`). What has been taken
from the kernel, the buffer, the queue and what the writer holds form one
sequence (`Chain`). A step moves a boundary within it (the lemmas `MoveInto...`) or
empties it with the process. With it goes what each phase of the process says of
the rest (`Phases`), and that whatever was handled was written as long as the
descriptor is good (`LineShape`).
In the refinement, to receive and to move through the ring are stutters, because
they leave the backlog as it is (`BacklogMoves`, `BridgeStays`); a client's `Send`
maps to `Take` (`BridgeTakes`), `Write` to `Pass` (`BridgePasses`), the loss of a device
with a descriptor open on it to `Break`, and whatever stops the process to `End`
(`BridgeEnds`).

From `Q1Assumption` (device 0 is one of the devices): `TypeCorrect`, `AccountedAlways` (`Accounted`) and
`SearchSafeAlways` (`SearchSafe`). The invariant numbers the requests: those sent
are 1 to `Count`, the one in hand is the last (`Numbered`), and `Queued` says the same
as `Accounted` of the places of the queues rather than of the sequence `Pending`,
which is what an insertion and the progress of the batch can be argued about
(`PendingIsPlaces` joins the two). A request that is queued is put behind those of
its device because every number in a queue is smaller than the one in hand.
`SearchSafe` is inductive with the types: an insertion moves each node of the list
by one, and nothing takes any away.

From `LinkTimeAssumption` (AGING_TIME is at least 2, the clients are finitely many):
`TypeCorrect`, `AccountedAlways` (`Accounted`), `OneNodeAlways`
(`OneNodePerMessage`) and `OnlyOldForgottenAlways` (`OnlyOldForgotten`). The
invariant says of the places the worker has not reached, and of the request in
hand, that each asks for what its client awaits (`Asked`), that no client has two
(`OneEach`) nor, while it waits, none (`Present`), and that there are as many as
clients that wait (`Counted`); `UnansweredPlaces` reads `Accounted` off that. One
node for a message is not inductive alone: the worker inserts by what
`search_list` told it in an earlier hold of `list_mutex`. `NotFound` says that
what it was told is still true when it was "no": nobody else inserts, and the
aging thread only takes away. ("Yes" may be stale, which is finding 2.)
`AgingKeeps` and `TickAges`, `ResetAges`, `InsertAdds` say what each operation
does to the list; that the scan keeps every node that is not too old rests on an
injection between finite sets of one size being onto.

From `UsServerAssumption` (the queue's pushers are numbered and all have a
deadline, there are no poppers): `ServerUsesQueue`, every behaviour of the server
is one of `LkQueue`, so that `TypeCorrect`, `ResultsTrue` and `Implements` hold of
it (`ServerFIFO`); the invariant is `Fed`, what a thread has copied is a string.
And `OnlyFullRefusesAlways` (`OnlyFullRefuses`). `StaysFull`
says that who sleeps, gave up or was told to has been shown a full queue, and a
queue nobody pops from cannot be left by any string once it is full.

### The serial line and the pipes (`SerialLineProofs`, `PipeProofs`)

From `SerialLineAssumption` (`Casts` gives each end a program): `TypeCorrect`, `SilentUntilSpokenTo` (`SpokenToFirst`)
and `EndsWithReason` (`EndsForAReason`), for any pair of programs and any capacity.
The invariant says that nothing is on the line or to be echoed before one of the
two ends has spoken (`Spoken`), that `m.c` never does (`Mute`), and that `m1.c` and
`m2.c` have been spoken to before they write (`Heard`): while such an end is silent,
what is there for it, an echo too, goes back to something the other has said. `Reasons` has the reason each
program has for its end, with the fact it rests on: only the reading thread of
`m1.c` and `m2.c` takes input, so that what `select` told it still holds.

From `FifoChatAssumption` (MaxKills is a natural number): `ChatTypeCorrect` (`TypeOK`, in
particular at most k + 1 lines in the pipe after k kills, and none when nobody has it
open), `TurnsKept` (`InTurn`) and `NobodyMissingAlways` (`NobodyMissing`). None of
them is inductive. `ChatInv` adds who has which end open (`Ends`), who is let in by
`open` and that two who are let in are let in to different ends (`Meet`), and counts
`Lines`: those in the pipe and those a program owes, which is one that writes before
it reads again. To read moves a line from the pipe to what the reader owes, to
write moves it back; a kill may make a program owe one that did not. So `Lines`
would be 1 + `kills` at most, but for a read that returns nothing, after which the
reader owes a line too. `Budget` therefore says that there is one line less
whenever the pipe is empty and a program is about to find it so (`Starved`). While
nobody is killed there is exactly one line, and `OneLine` says where it is: with a
program that types it for one that waits (`HasReader`), or in the pipe with the
other program let in to read it (`LetIn`). There is one lemma for each action
(`OpenRKeeps`, `CloseKeeps`, ...).

From `PipeSelectAssumption` (INT_MAX is more than 5): `EveryPipeWatched` (`AllWatched`), for every width of
`int` and whatever is read for the missing argument, from the pipes' descriptors
being 3, 4 and 5 (`Descriptors`); and `FirstClientNeverFatal` (`FirstClientSafe`),
from `ReadInv`: what `select` found ready is still so unless a client has left and
another has come.

**Only model-checked:** all liveness (the prover has no rule for `ENABLED` and
fairness), that is `EveryDatagramWritten`, `EverythingPrinted`,
`EveryRequestAnswered`, `ServerReturns`, `QueuedDone`, `TimedPushReturns`,
`ThreadsEnd`, `EnqueueReturns`, `TurnsPass`, `EverythingRead` and `EveryMessageRead`,
and with it the fair half of the refinements (`ImplementsFIFO` of `SyncQueue` and
`LkQueue`, `ImplementsBridge` of `BlockMode`).

## Findings

1. `us.c` hands every thread a pointer to the one receive buffer. The next
   datagram can overwrite it before the thread has copied it: one datagram is
   pushed twice, or mixed with another, and one is lost (`us_server_own`).
2. In `qlinktime.c` the aging thread can delete a node between `search_list` and
   `reset_aging_time`: the response is sent but not in the list, against the
   comment that it is reset or inserted (`linktime_remembered`).

Also seen while reading, and part of the models, though no run is spent on them:

- `q1.c` sends results with `sendto` on the serial port's descriptor (`q1.c:201`),
  which fails: no client of a queued request is answered, against the comment
  above the call. In the model `Exchange` sends nothing.
- `q1.c` lets the indices 1 to 9 pass (`q1.c:238`), because the descriptor of a
  device that was never opened is the 0 of a global and the test is for -1. Their
  requests are queued for nobody; once such a queue is full each further request
  holds the one main thread up for TIMEOUT (`ServerReturns` holds all the same).
- `q1.c` defines `aging_list` and never calls it, as `q2.c` does
  `remove_old_nodes`: the lists only grow. Calling `aging_list` as it is would
  break `SearchSafe`, which is what `Clear_WithAging` shows.
- `q2.c` starts `enqueue` without its second argument (`q2.c:237`), and answers
  with `send` on a socket that is not connected, which reaches nobody.
- `piper.c` and `pipew.c` do not recover from a kill: a program that is started
  again begins with its first step, so that both may wait in `open` for the same
  end, or one may find its own earlier line. `InTurn`, `NobodyMissing` and `TurnsPass`
  are about runs without a kill; `TypeOK` bounds what a kill can leave in the pipe.
- `m1.c` and `m2.c` set a timeout of three seconds (the comment says one) and pass
  NULL to `select`, which waits for ever: two of them never say a word. `thread_w`
  may write more often than it was spoken to, as long as the input is unread.
- The comment at `m1.c:140` says the port is opened non-blocking; the flags of line
  141 do not say so, and it blocks (those of `m2.c:141` do, with the same comment).
  The model follows the flags. `EndsForAReason` says what it means: a full line
  ends the writing thread of `m2.c` and never that of `m1.c`, which waits.
- The command of a "cells" program leaves a unit without a newline behind it, which
  a canonical port at the other end gives up only when a newline follows, and the
  program writes nothing more.
- `m.c` does not read anything: its handler takes the signal's number for a
  descriptor (`m.c:56`).
- `src/dev/include/cells.c` fills a descriptor set and does not call `select`.
  `cells-pts.c` writes all 50 bytes of its buffer, of which the command is the
  first part. Several programs put a terminator one byte past a buffer that a read
  has filled.
- `pipe_select.c` ends at its second start, because the pipes are still there
  (`mkfifo` fails; the comment at line 41 says "if they don't exist"); line 69 tests
  `fd2` where `fd3` is meant. Passing `fd1` as the count works only because the
  descriptors are 3, 4 and 5: `AllWatched` is about a server started with its three
  standard descriptors, and does not hold of others.

## Not modelled

- *Within the modelled parts.* `destroy_queue` and `queue_destroy`, which nobody
  calls; "dump" requests of `qlinktime.c` and `q2.c`, which change nothing; strings
  longer than the buffer they are copied to, except where a cut changes what
  happens (`LinkTime`'s `Response`); the bytes within one write on a serial line,
  of which a read may take a part, and control characters on it.
- *Demonstrations.* `full.c` is a ring like that of `lkq.c` without deadlines, used
  by one producer and one consumer, and `LkQueue` with no timed pushers is its
  code; `cell_pthread.c` and `ph.c` are one counter under one mutex; `clist.c`
  builds, prints and frees one fixed list; `max_int.c` is the function of
  `pipe_select.c`.
- *Parts with nothing to relate*: `wrs.c`, which calls a function that is defined
  nowhere, `lib/us.c` and `lib/uc.c`, which send or print one datagram after
  another, and the `c-dev` and `c-udev` programs, which list devices, are
  single-threaded and keep no state.
- *Copies*: `src/dev/include/queue.c` is block-mode's, `block-mode/include/cells.c`
  is `src/dev/include/cells.c`.

## The plan

Done, in this order: `BoundedFIFO`, `SyncQueue`, `SyncQueueProofs`, `BlockMode`,
`LinkTime`, `Q1`, `LkQueue`, `UsServer`, `Q2`, `FifoChat`, the third thread of
`BlockMode`, `SerialLine`, `PipeSelect`, and the proofs about `PipeSelect`,
`SerialLine`, `BlockMode` (with `SerialBridge`), `LkQueue`, `UsServer`, `Q1`, `Q2`, `LinkTime`
and `FifoChat`.

To prove more:

- An abstract request server, a set of clients that wait and are answered once,
  which `LinkTime` implements: the step form of `Accounted`.
