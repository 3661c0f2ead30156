CONSTANTS
  r2 = r2
  t1 = t1
  s1 = s1
  s2 = s2
  c1 = c1
  c2 = c2
  SyncProducers = {r2}
  AsyncProducers = {t1}
  Consumers = {c1, c2}
  Pump = pump
  Managers = {m1}
  Sessions = {s1, s2}
  SessionOf <- TwoSessions
  Limit = 4
  Low = 2
  Chunk = 2
  CleanupCap = 1
  Sizes = {3}
  Batches = {2}
  Budgets = {1}
  MaxPushes = 1
  MaxOps = 3
  NoOne = NoOne
SPECIFICATION Spec
SYMMETRY ConsumerSymmetry
INVARIANTS
  StreamIntact
  CancelledIsSilent
  ConsumerIsWoken
CHECK_DEADLOCK FALSE
