\* Two threads on each side compete for two slots. One value is enough where
\* the addresses tell the elements apart; the proofs are for any values.
CONSTANTS
    Producers = {p1, p2}
    Consumers = {c1, c2}
    Values = {u}
    Arrays = {a1, a2, a3, a4, a5}
    QUEUE_SIZE = 2
    NULL = NULL
SPECIFICATION Spec
INVARIANTS TypeOK Ownership NoLostWakeup
PROPERTY ImplementsFIFO
CHECK_DEADLOCK TRUE
