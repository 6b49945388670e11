CONSTANTS
  Users = {ann}
  Phantoms = {}
  Gui = gui
  Readers = {gui, mic}
  Net = net
  Nobody = nobody
  MaxNodes = 1
  MaxCalls = 1
  MaxEvents = 1
  MayRecord = FALSE
  Orderly = TRUE
  Reuse = FALSE
SPECIFICATION Spec
INVARIANT CopyIsOfUser
CHECK_DEADLOCK FALSE
