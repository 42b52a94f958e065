SPECIFICATION Spec
CONSTANTS
  QueueCap = 2
  NoDataLimit = 0
  CloseTries = 2
  MaxCopies = 1
  ServerKinds = {"Open"}
  MaxServed = 2
  MaxClosings = 2
  WriteOutcomes <- Works
  StatusWhenUp <- Works
  LinkMayDrop = FALSE
  MaxLeft = 0
  PinBefore <- Shut
  LockMayFail = FALSE
  SensorMayFail = FALSE
  NapYields = FALSE
INVARIANT OwnVerdict
