SPECIFICATION Spec
CONSTANTS
  Worker = {1, 2}
  MaxCluster = 2
  MaxSocket = 3
  MaxPending = 3
INVARIANTS BeliefConverges EntryHasHandler
\* Sockets and clusters are numbered and run out.
CHECK_DEADLOCK FALSE
