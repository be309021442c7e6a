SPECIFICATION Spec
CONSTANTS
  a1 = a1
  m1 = m1
  m2 = m2
  Account = {a1}
  Model = {m1}
  Required <- OneModelNeeds
  Sizes = {1, 2}
  MaxWorkersPerAccount = 4
  MaxSubnet = 2
  Grace = FALSE
  Restless = {}
  MaxWorker = 3
  MaxCluster = 2
  MaxFaults = 0
INVARIANTS MemberIntact ServesWhole
PROPERTIES ImplementsContract
\* Every worker id may have been used and revoked: the bounded pool then stops.
CHECK_DEADLOCK FALSE
