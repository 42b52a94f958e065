SPECIFICATION LiveSpec
CONSTANTS
  Reads = 2
  MaxSent = 2
  SentKinds = {"Open", "Heart", "Junk"}
  MaxPieces = 3
  Talk = TRUE
  Silence = TRUE
  LinkMayDrop = TRUE
  Fills = TRUE
INVARIANT TypeOK
PROPERTIES ReceiveCallSpec Reassembled
