CONSTANTS
  Users = {ann}
  Phantoms = {ghost}
  Gui = gui
  Readers = {gui, mic}
  Net = net
  Nobody = nobody
  MaxNodes = 3
  MaxCalls = 1
  MaxEvents = 2
  MayRecord = TRUE
  Orderly = TRUE
  Reuse = FALSE
SPECIFICATION FairSpec
INVARIANTS LockIsReleased PhantomsGoToo RowsMatch
PROPERTIES StableUnderLock LookUpReturns
CHECK_DEADLOCK FALSE
