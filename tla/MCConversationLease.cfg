SPECIFICATION FairSpec
CONSTANTS
  None = None
  t1 = t1
  t2 = t2
  t3 = t3
  p1 = p1
  p2 = p2
  Turns <- MCTurns
  ProcessOf <- MCProcessOf
  Processes = {p1, p2}
  Backends = {"sqlite", "postgres"}
  Ttl = 1
  MaxWrites = 1
  Unreleased = {t1}
INVARIANTS
  TypeOK
  CheckpointsBuildOnTheLast
  FinishedTurnsOwnedTheirWrites
PROPERTIES
  LeaseSeparatesTurns
  TokensGrow
  LeaseEndsByItsTurn
  ImplementsTurnRegister
  EveryTurnEnds
CHECK_DEADLOCK FALSE
