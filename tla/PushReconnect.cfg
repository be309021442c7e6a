SPECIFICATION Spec
CONSTANTS
  Worker = {1}
  MaxCluster = 1
  MaxSocket = 2
  MaxPending = 2
PROPERTIES AssignedIsPushed
\* Sockets and clusters are numbered and run out.
CHECK_DEADLOCK FALSE
