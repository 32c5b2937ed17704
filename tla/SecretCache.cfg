CONSTANTS
  Names = {n1}
  Places = {p1, p2}
  Requests = {q1, q2}
  TTLs = {0, 1, 2}
  Absent = Absent
  NoEntry = NoEntry
  MaxTime = 3
  LastFetch = 1
  MaxReloads = 2
  MaxRotations = 1
SPECIFICATION Spec
SYMMETRY CacheSymmetry
INVARIANTS
  CacheFollowsConfig
  BuffersOwned
  HitIsFresh
CHECK_DEADLOCK FALSE
