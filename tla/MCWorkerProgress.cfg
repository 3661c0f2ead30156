CONSTANTS
  r2 = r2
  s1 = s1
  s2 = s2
  Out = out
  Hnd = hnd
  Host = s1
  SyncProducers = {r2}
  AsyncProducers = {out, hnd}
  Consumers = {pump}
  Pump = pump
  Managers = {m1}
  Sessions = {s1, s2}
  SessionOf <- OneWorker
  Limit = 1
  Low = 0
  Chunk = 1
  CleanupCap = 0
  Sizes = {1}
  Batches = {2}
  Budgets = {1}
  MaxPushes = 9
  MaxOps = 0
  NoOne = NoOne
  ReadSizes = {2}
  EarlySizes = {0}
  Extras = {1}
  MaxReads = 1
  MaxInputs = 1
  MaxOthers = 1
  Integration = FALSE
  PostLogin = FALSE
  CanArm = TRUE
SPECIFICATION WorkerSpec
INVARIANTS
  TurnReturned
  BytesAccounted
PROPERTIES
  OverloadEndsUnlessSelfBlocked
CHECK_DEADLOCK FALSE
