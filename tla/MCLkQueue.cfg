\* A pusher with a deadline and one without, and two poppers, on a ring of two
\* strings.
CONSTANTS
    Pushers = {p1, p2}
    Poppers = {c1, c2}
    Timed = {p1}
    Strings = {x, y}
    MAX_QUEUE_SIZE = 2
    NULL = NULL
SPECIFICATION Spec
INVARIANT TypeOK
PROPERTIES ImplementsFIFO TimedPushReturns ResultIsTrue
CHECK_DEADLOCK TRUE
