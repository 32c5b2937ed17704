CONSTANTS
  Inits = {i1, i2}
  Servers = {s1}
  None = None
  Migrations = 2
SPECIFICATION Spec
INVARIANTS
  SealKeyReachable
  DoneIsComplete
  CredentialReachable
PROPERTIES
  SigningKeyKept
SYMMETRY Symmetric
CHECK_DEADLOCK FALSE
