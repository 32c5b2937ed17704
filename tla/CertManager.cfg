CONSTANTS
  d1 = d1
  d2 = d2
  Domains <- TwoDomains
  Lifetime = 3
  Backdates <- AnyDate
  MaxTime = 4
  MaxCerts = 3
  MaxStarts = 2
SPECIFICATION FairSpec
INVARIANTS
  ServedIsStored
  OrdersSpaced
PROPERTIES
  CertificateComes
CHECK_DEADLOCK FALSE
