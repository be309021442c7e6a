SPECIFICATION Spec
CONSTANTS
  k1 = k1
  k2 = k2
  m1 = m1
  m2 = m2
  Key = {k1, k2}
  Model = {m1}
  MaxSubnet = 1
  FixedKey = TRUE
  MaxCluster = 1
  MaxRequest = 1
  MaxStart = 1
INVARIANTS NoZeroEntries
\* Clusters, requests and keys run out.
CHECK_DEADLOCK FALSE
