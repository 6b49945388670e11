CONSTANTS
  Clients = {ui}
  MaxSessions = 1
  MaxCmds = 1
  MaxEvents = 0
  PipeCap = 1
  Eager = FALSE
SPECIFICATION Spec
INVARIANT NotifiedOnce
CHECK_DEADLOCK FALSE
