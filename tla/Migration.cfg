SPECIFICATION FairSpec
CONSTANTS
  a1 = a1
  a2 = a2
  w1 = w1
  w2 = w2
  c1 = c1
  c2 = c2
  Null = Null
  Account = {a1, a2}
  Worker = {w1, w2}
  Cluster = {c1, c2}
  Past <- Pasts
  MaxCrashes = 2
INVARIANT ServesCurrent
PROPERTIES ContentKept StartsAgain
