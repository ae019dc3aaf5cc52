SPECIFICATION FairSpec
CONSTANTS
  None = None
  w1 = w1
  w2 = w2
  r1 = r1
  Drafts = {d1}
  Digests = {1}
  Cards = {k1}
  Grants = {g1}
  Attempts = {a1}
  Handles <- MCHandles
  MaxRevision = 1
  MaxVersion = 1
  MaxTurn = 0
  Workers = {w1, w2}
  Reconcilers = {r1}
  Calls = {i1}
  MaxOrderVersion = 1
  Settings <- LeaseLost
PROPERTIES
  EveryAttemptCloses
CHECK_DEADLOCK FALSE
