CONSTANTS
  r1 = r1
  r2 = r2
  r3 = r3
  RecordSet <- ThreeRecords
  CheckpointEvery = 2
  MaxStarts = 2
SPECIFICATION FairSpec
INVARIANTS
  TablesIntact
  NoSilentLoss
  ReadyMeansStored
PROPERTIES
  TrailSpec
  LogProgresses
CHECK_DEADLOCK FALSE
