CONSTANTS
  p1 = p1
  p2 = p2
  a = a
  b = b
  Dialects = {"sqlite", "postgres"}
  MayFail = TRUE
  Processes <- Both
  Ids = {1, 2}
  Columns <- TwoColumns
  Vectors = {"v", "w"}
  Contents <- SomeContents
  Jobs <- Divisions
  History <- Releases
  MigrationId = 1
  LegacyHash = "old"
  Disciplined = TRUE
  MaxFaults = 2
  MaxWrites = 1
SPECIFICATION FairSpec
INVARIANTS
  TypeOK
  VectorsKept
  OkMeansRepaired
  RepairedLedgerIsTaken
PROPERTIES
  RepairFinishes
