\* One device that may open and one that never does; enough requests to fill
\* a queue of two and wait for room in it. TLC stops when the requests are
\* used up.
CONSTANTS
    Devices = {0, 1}
    Texts = {x, y}
    MAX_QUEUE_SIZE = 2
    MaxReq = 4
    NULL = NULL
SPECIFICATION Spec
INVARIANTS TypeOK Accounted SearchSafe
PROPERTIES ServerReturns QueuedDone
CHECK_DEADLOCK FALSE
