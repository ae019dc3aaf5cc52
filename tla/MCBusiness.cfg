SPECIFICATION Spec
CONSTANTS
  None = None
  Calls = {i1, i2, i3}
  change = change
  cancel = cancel
  inv1 = inv1
  inv2 = inv2
  urge1 = urge1
  urge2 = urge2
  app1 = app1
  app2 = app2
  Commands = {change, cancel, inv1, inv2, urge1, urge2, app1, app2}
  KindOf <- MCKindOf
  ExpectedVersion <- MCExpectedVersion
  MaxOrderVersion = 2
  Databases = {"sqlite", "postgres"}
SYMMETRY Symmetry
INVARIANTS
  TypeOK
  AppliedOnce
  VersionsAreSpentOnce
  OneInvoice
  ChecksHold
PROPERTIES
  RefusalMeansNoEffect
  ImplementsCommandService
