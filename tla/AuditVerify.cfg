CONSTANTS
  RecordSet = {r1, r2}
  CheckpointEvery = 1
  MaxStarts = 2
  verifyPage = 1
  MaxVerifies = 1
  MaxEdits = 1
SPECIFICATION VerifySpec
SYMMETRY RecordSymmetry
INVARIANTS
  NoFalseAlarm
  IntactMeansUntouched
CHECK_DEADLOCK FALSE
