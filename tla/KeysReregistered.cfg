SPECIFICATION Spec
CONSTANTS
  a1 = a1
  a2 = a2
  d1 = d1
  d2 = d2
  d3 = d3
  k1 = k1
  k2 = k2
  k3 = k3
  Account = {a1, a2}
  Device = {d1, d2, d3}
  Owner <- TwoAccounts
  KeyOf <- OwnKeys
  Reregisters = {d1, d2, d3}
  Roaming = FALSE
  MaxWorker = 3
  MaxCluster = 2
INVARIANTS AttributedToCaller
\* Worker ids run out and keys are revoked for good.
CHECK_DEADLOCK FALSE
