SPECIFICATION LiveSpec
CONSTANTS
  CmdTries = 3
  StartTries = 2
  DataTries = 2
  StatusTries = 2
  MaxCalls = 1
  MaxServed = 1
  MaxReady = 0
  Lateness = 1
  Cuts = TRUE
  MayFail = TRUE
  LinkMayDrop = TRUE
PROPERTY SuccessReturned
