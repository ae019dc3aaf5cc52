SPECIFICATION Spec
CONSTANTS
  None = None
  Drafts = {d1}
  Digests = {c1, c2}
  Cards = {k1, k2}
  Grants = {g1, g2}
  Attempts = {a1, a2}
  Handles = {h1, h2}
  MaxRevision = 2
  MaxVersion = 1
  MaxTurn = 0
SYMMETRY Symmetry
INVARIANTS
  AtMostOneOpenAttempt
  NothingFollowsSuccess
  CommittedHasSuccessReceipt
  ConsumedGrantClosesChain
  IndInv
PROPERTIES
  NoResurrection
  ImplementsSubmissionLedger
CHECK_DEADLOCK FALSE
