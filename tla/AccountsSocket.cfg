SPECIFICATION Spec
CONSTANTS
  a1 = a1
  a2 = a2
  a3 = a3
  Account = {a1, a2}
  First = a1
  MayBeUnset = FALSE
  Switches <- OpenOrNot
  Patch <- FewFlags
  Provider = {a2}
  MaxCrashes = 0
PROPERTIES BannedIsGone
\* A pool in which nothing is left to do may stop.
CHECK_DEADLOCK FALSE
