CONSTANTS
  None = None
  sub = sub
  apex = apex
  resolver = resolver
  Resolvers <- MCResolvers
  Zones <- MCZones
  Public = apex
  Authzs = {a1, a2}
  Foreign = foreign
  Servers = {s1, s2}
  Accounts = {k1, k2}
  MaxOrders = 2
SPECIFICATION Spec
INVARIANTS
  ValidationCanSucceed
  NothingLeft
  OneAccount
PROPERTIES
  OthersKept
SYMMETRY Symmetric
CHECK_DEADLOCK FALSE
