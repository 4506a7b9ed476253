\* What two workers do not keep (check one at a time; not among the
\* regular runs): Qdrant stays while one serves, and all serve in the end.
SPECIFICATION RuntimeSpec
CONSTANTS
  Worker = {w1, w2}
  Settings = {{w1}, {w1, w2}}
  Collections = 1
  Processes = 3
  MaxFaults = 2
INVARIANT QdrantWhileServing
PROPERTY AllServe
CHECK_DEADLOCK FALSE
