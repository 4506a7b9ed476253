\* Two workers that start, fail, are killed and end over one database and one
\* Qdrant address.
SPECIFICATION RuntimeSpec
CONSTANTS
  Worker = {w1, w2}
  Settings = {{w1}, {w1, w2}}
  Collections = 1
  Processes = 3
  MaxFaults = 2
INVARIANTS NoOrphan ServesComplete
PROPERTIES LoneServes ShutdownEnds
CHECK_DEADLOCK FALSE
