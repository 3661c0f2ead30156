\* A message may be handled any time after it was sent.
CONSTANTS
  MAX_PENDING_RESPONSES = 4
  MAX_QUEUED_COMMANDS = 3
  PENDING_PANE_OUTPUT_MAX = 1
  Failing = {}
  Lag = TRUE
  MaxChunks = 1
  MaxEvents = 0
  MaxTicks = 1
SPECIFICATION Spec
INVARIANT NothingLost
CHECK_DEADLOCK FALSE
