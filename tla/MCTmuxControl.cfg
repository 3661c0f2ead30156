CONSTANTS
  MAX_PENDING_RESPONSES = 4
  MAX_QUEUED_COMMANDS = 3
  PENDING_PANE_OUTPUT_MAX = 1
  Failing = {"capture", "cursor"}
  Lag = FALSE
  MaxChunks = 2
  MaxEvents = 2
  MaxTicks = 1
SPECIFICATION FairSpec
INVARIANTS
  TypeOK
  Correlated
  NothingLost
PROPERTIES
  PausedResumes
  Painted
CHECK_DEADLOCK FALSE
