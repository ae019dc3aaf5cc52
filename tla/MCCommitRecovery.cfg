SPECIFICATION FairSpec
CONSTANTS
  None = None
  w1 = w1
  w2 = w2
  r1 = r1
  Drafts = {d1}
  Digests = {1, 2}
  Cards = {k1, k2}
  Grants = {g1, g2}
  Attempts = {a1, a2}
  Handles <- MCHandles
  MaxRevision = 2
  MaxVersion = 2
  MaxTurn = 0
  Workers = {w1, w2}
  Reconcilers = {r1}
  Calls = {i1}
  MaxOrderVersion = 2
  Settings <- Recovery
PROPERTIES
  EveryAttemptCloses
  LostAnswersSettle
CHECK_DEADLOCK FALSE
