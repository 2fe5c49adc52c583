\* What a thread pushes when the next datagram comes before it has run.
CONSTANTS
    MaxRecv = 2
    Pushers = {1, 2}
    Timed = {1, 2}
    Poppers = {}
    Strings = {1, 2, MIX}
    MAX_QUEUE_SIZE = 2
    MIX = MIX
    NULL = NULL
SPECIFICATION ServerSpec
INVARIANT OwnDatagram
CHECK_DEADLOCK FALSE
