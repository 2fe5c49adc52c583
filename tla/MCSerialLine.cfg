\* Any two programs on the two ends. A line holds less than one end
\* writes, so that it can be full while the writer has more to write.
CONSTANTS
    Casts <- AllCasts
    LINE_CAP = 3
    MaxSend = 5
    MAX_FDS = 3
SPECIFICATION Spec
INVARIANTS TypeOK EndsForAReason SpokenToFirst
PROPERTY EverythingRead
\* Every thread may be waiting for input that nobody sends.
CHECK_DEADLOCK FALSE
