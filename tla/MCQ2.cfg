\* Four requests for a queue that holds two, with and without a thread that
\* empties it. TLC stops when the requests are used up or the process crashes.
CONSTANTS
    MaxReq = 4
    Texts = {x, timeout}
    TIMEOUT = timeout
    MAX_QUEUE_SIZE = 3
    BAD = BAD
    NULL = NULL
SPECIFICATION Spec
PROPERTIES ImplementsFIFO EnqueueReturns
CHECK_DEADLOCK FALSE
