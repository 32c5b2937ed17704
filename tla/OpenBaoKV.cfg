CONSTANTS
  NoClient = NoClient
  Absent = Absent
  Other = other
  Callers = {c1}
  MaxLaunches = 2
  casRetries = 1
  MaxCalls = 2
  MaxVersion = 2
SPECIFICATION FairSpec
INVARIANTS
  NoProcessLeft
  AnswersAreTrue
PROPERTIES
  NoLostUpdate
  SupervisorActs
CHECK_DEADLOCK FALSE
