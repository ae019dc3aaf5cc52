SPECIFICATION FairSpec
CONSTANTS
  JobCount = 2
  Workers = {w1, w2}
  Backends = {"sqlite", "postgres"}
  MaxAttempts = 2
  Limit = 2
  Ttl = 2
  MaxCrashes = 1
INVARIANTS
  TypeOK
  NoJobIsStuck
PROPERTIES
  ClaimEndsByItsWorker
  ImplementsJobContract
  EveryJobEnds
