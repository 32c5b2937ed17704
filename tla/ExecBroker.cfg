CONSTANTS
  None = None
  Jobs = {j1, j2}
  Handlers = {h1}
  Dispatchers = {d1}
  maxJobs = 1
  maxWorkers = 1
  maxConnections = 2
  MaxBytes = 1
  MaxSessions = 2
SPECIFICATION FairSpec
INVARIANTS
  AtMostOnce
  LimitsHold
PROPERTIES
  CommandsEnd
CHECK_DEADLOCK FALSE
