SPECIFICATION Spec
CONSTANTS
  a1 = a1
  a2 = a2
  w1 = w1
  w2 = w2
  w3 = w3
  k1 = k1
  k2 = k2
  Null = Null
  Account = {a1, a2}
  Worker = {w1, w2, w3}
  Owner <- OwnerOfTwo
  Key = {k1, k2}
  KeyOwner <- KeysOfTwo
  Rings <- RingsOfTwo
  Reports <- RankReports
  Unit = 12
  MaxCluster = 2
  MaxRequest = 2
  MaxTime = 1
INVARIANTS SharesAddUp StatsAddUp
PROPERTIES EndedIsSettled
\* Workers, clusters and requests run out.
CHECK_DEADLOCK FALSE
