\* Two starts of the program; more datagrams than the ring, the kernel and
\* the threads can hold together.
CONSTANTS
    QUEUE_SIZE = 2
    SOCK_BACKLOG = 1
    MaxSend = 6
    MaxSay = 2
    MaxStarts = 2
    NULL = NULL
SPECIFICATION Spec
INVARIANTS TypeOK InOrder NoGapOnLine
PROPERTIES ImplementsBridge EveryDatagramWritten EverythingPrinted
CHECK_DEADLOCK TRUE
