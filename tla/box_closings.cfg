SPECIFICATION Spec
CONSTANTS
  QueueCap = 2
  NoDataLimit = 0
  CloseTries = 2
  MaxCopies = 1
  ServerKinds = {"Open"}
  MaxServed = 1
  MaxClosings = 2
  WriteOutcomes <- Either
  StatusWhenUp <- Works
  LinkMayDrop = TRUE
  MaxLeft = 0
  PinBefore <- Either
  LockMayFail = FALSE
  SensorMayFail = FALSE
  NapYields = FALSE
INVARIANT OneStartPerClosing
