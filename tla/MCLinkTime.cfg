\* Three clients, a queue of two requests, messages of three lengths of which
\* the longest fills the buffer, and a list that forgets after two seconds.
CONSTANTS
    Clients = {c1, c2, c3}
    LongestMsg = 2
    MAX_QUEUE_SIZE = 2
    AGING_TIME = 2
    NULL = NULL
SPECIFICATION Spec
INVARIANTS TypeOK Accounted OneNodePerMessage
PROPERTIES OnlyOldForgotten EveryRequestAnswered
CHECK_DEADLOCK TRUE
