\* Two clients for each pipe, one after the other or together, and an int of
\* four bits, which holds the descriptors.
CONSTANTS
    Stds <- AnyStds
    PIPE_CAP = 1
    MaxSend = 3
    MaxOpens = 3
    INT_MAX = 6
SPECIFICATION ServerSpec
INVARIANTS AllWatched FirstClientSafe
PROPERTY EveryMessageRead
\* The server may end, or wait for clients that do not come.
CHECK_DEADLOCK FALSE
