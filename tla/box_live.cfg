SPECIFICATION LiveSpec
CONSTANTS
  QueueCap = 1
  NoDataLimit = 0
  CloseTries = 2
  MaxCopies = 1
  ServerKinds = {"Open", "Heart"}
  MaxServed = 2
  MaxClosings = 1
  WriteOutcomes <- Works
  StatusWhenUp <- Works
  LinkMayDrop = FALSE
  MaxLeft = 0
  PinBefore <- Either
  LockMayFail = TRUE
  SensorMayFail = FALSE
  NapYields = TRUE
INVARIANT LockFollowsThread
PROPERTIES Relocked HeartAnswered ClosingReported MainListens
