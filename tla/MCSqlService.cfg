SPECIFICATION FairSpec
CONSTANTS
  Requests = {r1, r2}
  Backends = {b1, b2}
  Databases = {d1}
  Admins = {a1}
  NoBackend = NoBackend
  PoolMax = 1
  MaxPools = 2
INVARIANTS PoolsFollowSettings PoolIsClean FailuresWriteNothing
PROPERTIES EverythingEnds
CHECK_DEADLOCK FALSE
