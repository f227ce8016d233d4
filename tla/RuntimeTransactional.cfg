SPECIFICATION FairSpec
CONSTANTS
  p1 = p1
  p2 = p2
  m1 = m1
  m2 = m2
  m3 = m3
  other1 = other1
  other2 = other2
  idA = idA
  idB = idB
  idC = idC
  idD = idD
  EmptyId = EmptyId
  None = None
  Runner <- MCRunner
  Migration <- LinearMigration
  VersionOf <- MCVersionOf
  IdOf <- MCIdOf
  SizeOf <- MCSizeOf
  Ddl <- MCDdl
  Repeatable <- MCRepeatable
  Builds <- LinearBuilds
  Backend = "postgres"
  I32Max = 9
  MaxStarts = 3
  MaxFaults = 1
CHECK_DEADLOCK FALSE
INVARIANTS TypeOK ExactlyOnce HistoryIsComplete
PROPERTIES ImplementsLedger
