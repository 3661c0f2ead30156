CONSTANTS
  user = user
  transfer = transfer
  Threads = {user, transfer}
  Transfers = {transfer}
  Plan <- TwoSenders
  NopSender = writer_thread
  NopCost = 1
  MaxNops = 2
  ByteLimit = 4
  ItemLimit = 2
SPECIFICATION Spec
INVARIANTS
  Counters
  WrittenInOrder
  FramesPreserved
  WriterIsWoken
PROPERTIES
  KeepsBudget
  StopEndsWriter
  TransferProceeds
CHECK_DEADLOCK FALSE
