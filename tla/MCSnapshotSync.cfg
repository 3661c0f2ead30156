\* Every operation; any listing may be out of date, except that a device sees
\* its own head when the clock it starts from does not record it.
CONSTANTS
  Desktop = Desktop
  Laptop = Laptop
  Device = {Desktop, Laptop}
  MaxEdits = 2
  MaxRevisions = 3
  Operations = {"push", "pull", "keepLocal", "keepCloud", "recover", "gc", "reserve", "wipe", "cancel"}
  StaleAfterUnrecorded = FALSE
SPECIFICATION Spec
SYMMETRY DeviceSymmetry
INVARIANTS
  TypeOK
  CountersNameCommits
  CausalOrderIsHistory
  BranchesReadable
  StagedSnapshotKept
PROPERTIES
  NoSilentLoss
  CancelIsFinal
CHECK_DEADLOCK FALSE
