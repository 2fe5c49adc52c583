\* The two programs without end, and one kill. After the kill both may wait for
\* each other in open.
CONSTANT MaxKills = 1
SPECIFICATION Spec
INVARIANTS TypeOK InTurn NobodyMissing
PROPERTY TurnsPass
CHECK_DEADLOCK FALSE
