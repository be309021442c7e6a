SPECIFICATION Spec
CONSTANTS
  a1 = a1
  a2 = a2
  a3 = a3
  Account = {a1}
  First = a1
  MayBeUnset = FALSE
  Switches <- OpenOrNot
  Patch <- FewFlags
  Provider = {}
  MaxCrashes = 1
INVARIANTS OperatorExists
\* A pool in which nothing is left to do may stop.
CHECK_DEADLOCK FALSE
