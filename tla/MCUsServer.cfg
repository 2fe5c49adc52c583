\* Four datagrams and room for two. TLC stops when the main thread is gone or
\* the datagrams are used up, and the threads have ended.
CONSTANTS
    MaxRecv = 4
    Pushers = {1, 2, 3, 4}
    Timed = {1, 2, 3, 4}
    Poppers = {}
    Strings = {1, 2, 3, 4, MIX}
    MAX_QUEUE_SIZE = 2
    MIX = MIX
    NULL = NULL
SPECIFICATION ServerSpec
INVARIANT OnlyFullRefuses
PROPERTY ThreadsEnd
CHECK_DEADLOCK FALSE
