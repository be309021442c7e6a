SPECIFICATION FairSpec
CONSTANTS
  a1 = a1
  m1 = m1
  m2 = m2
  Account = {a1}
  Model = {m1, m2}
  Required <- TwoModelsNeed
  Sizes = {1}
  MaxWorkersPerAccount = 4
  MaxSubnet = 1
  Grace = TRUE
  Restless = {}
  MaxWorker = 2
  MaxCluster = 2
  MaxFaults = 0
INVARIANT TypeOK
PROPERTIES SilenceEndsCluster QuorumIsUsed
\* Every worker id may have been used and revoked: the bounded pool then stops.
CHECK_DEADLOCK FALSE
