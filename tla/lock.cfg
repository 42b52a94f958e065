SPECIFICATION Spec
CONSTANTS
  Locks = {reset, door}
  MayFail = TRUE
  Reopens = TRUE
INVARIANTS TypeOK OpenKnown
PROPERTY LatchSpec
