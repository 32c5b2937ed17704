CONSTANTS
  NoLimit = NoLimit
  None = None
  AgentTokens = {"tok1", "tok2"}
  Secret = "secret"
  maxListReads = 2
  maxLocations = 3
  MaxEntries = 2
  MaxPath = 5
  MaxItems = 2
  MaxRecords = 3
SPECIFICATION Questions
INVARIANTS
  OneEntryAllows
  StaysInside
  CredentialsInPlace
  NothingSlipsThrough
  ListsExactly
  AcceptedIsSound
CHECK_DEADLOCK FALSE
