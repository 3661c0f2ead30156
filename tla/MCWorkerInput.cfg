CONSTANTS
  r2 = r2
  s1 = s1
  s2 = s2
  Out = out
  Hnd = hnd
  Host = s1
  SyncProducers = {}
  AsyncProducers = {out, hnd}
  Consumers = {pump}
  Pump = pump
  Managers = {m1}
  Sessions = {s1, s2}
  SessionOf <- OneWorker
  Limit = 1
  Low = 0
  Chunk = 1
  CleanupCap = 0
  Sizes = {1}
  Batches = {2}
  Budgets = {1}
  MaxPushes = 9
  MaxOps = 1
  NoOne = NoOne
  ReadSizes = {1}
  EarlySizes = {2}
  Extras = {0}
  MaxReads = 2
  MaxInputs = 1
  MaxOthers = 1
  Integration = TRUE
  PostLogin = TRUE
  CanArm = FALSE
SPECIFICATION WorkerSpec
INVARIANTS
  TurnReturned
  BytesAccounted
PROPERTIES
  CloseEndsWorker
  InputReleased
CHECK_DEADLOCK FALSE
