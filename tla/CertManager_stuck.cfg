CONSTANTS
  d1 = d1
  d2 = d2
  Domains <- OneDomain
  Lifetime = 3
  Backdates = {0}
  MaxTime = 5
  MaxCerts = 2
  MaxStarts = 1
SPECIFICATION FairSpec
PROPERTIES
  UnusableIsReplaced
CHECK_DEADLOCK FALSE
