CONSTANTS
  r2 = r2
  t1 = t1
  s1 = s1
  s2 = s2
  c1 = c1
  c2 = c2
  SyncProducers = {r2}
  AsyncProducers = {t1}
  Consumers = {pump}
  Pump = pump
  Managers = {m1}
  Sessions = {s1, s2}
  SessionOf <- TwoSessions
  Limit = 4
  Low = 2
  Chunk = 2
  CleanupCap = 0
  Sizes = {3}
  Batches = {2}
  Budgets = {1, 4}
  MaxPushes = 1
  MaxOps = 2
  NoOne = NoOne
SPECIFICATION FairSpec
PROPERTIES
  CancelReleases
  PushReturns
CHECK_DEADLOCK FALSE
