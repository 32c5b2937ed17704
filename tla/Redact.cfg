CONSTANTS
  a = a
  b = b
  m = m
  Bytes <- SomeBytes
  MaskBytes <- SomeMasks
  NeedleSets <- SomeNeedles
  MaxLength = 7
SPECIFICATION RedactSpec
INVARIANTS
  MaskedAsAWhole
  NoNeedleGetsOut
CHECK_DEADLOCK FALSE
