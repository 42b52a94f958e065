SPECIFICATION LiveSpec
CONSTANTS
  CmdTries = 2
  StartTries = 2
  DataTries = 2
  StatusTries = 2
  MaxCalls = 2
  MaxServed = 1
  MaxReady = 1
  Lateness = 1
  Cuts = TRUE
  MayFail = TRUE
  LinkMayDrop = TRUE
INVARIANTS Delivered
PROPERTIES SendCallSpec Returns
