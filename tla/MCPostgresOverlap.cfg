SPECIFICATION PgSpec
CONSTANTS
  None = None
  Drafts = {d1}
  Digests = {c1, c2}
  Cards = {k1}
  Grants = {g1, g2}
  Attempts = {a1, a2}
  Handles = {h1}
  Sessions = {s1, s2}
  MaxRevision = 2
  MaxVersion = 1
  MaxTurn = 0
  GivenRows <- MCGivenRows
SYMMETRY Symmetry
INVARIANTS
  AtMostOneOpenAttempt
CHECK_DEADLOCK FALSE
