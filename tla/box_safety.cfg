SPECIFICATION Spec
CONSTANTS
  QueueCap = 2
  NoDataLimit = 1
  CloseTries = 1
  MaxCopies = 1
  ServerKinds = {"Open", "OpenBad", "Junk", "Heart"}
  MaxServed = 2
  MaxClosings = 1
  WriteOutcomes <- Either
  StatusWhenUp <- Either
  LinkMayDrop = TRUE
  MaxLeft = 2
  PinBefore <- Either
  LockMayFail = TRUE
  SensorMayFail = TRUE
  NapYields = FALSE
INVARIANTS TypeOK ModemExclusion CommandOrder OneLiveCommand NoClosingLost
PROPERTY ServiceSpec
