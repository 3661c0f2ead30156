\* A listing may also hide a device's own unrecorded publication from it.
CONSTANTS
  Desktop = Desktop
  Laptop = Laptop
  Device = {Desktop, Laptop}
  MaxEdits = 2
  MaxRevisions = 3
  Operations = {"push", "pull"}
  StaleAfterUnrecorded = TRUE
SPECIFICATION Spec
SYMMETRY DeviceSymmetry
PROPERTIES
  NoSilentLoss
CHECK_DEADLOCK FALSE
