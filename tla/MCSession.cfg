CONSTANTS
  Clients = {ui, mic}
  MaxSessions = 2
  MaxCmds = 3
  MaxEvents = 1
  PipeCap = 2
  Eager = FALSE
SPECIFICATION FairSpec
INVARIANTS EndIsNotified SendqReleased AllOrNothing
PROPERTIES ImplementsChannel QuietAfterNotice AcceptedIsServed LogoutIsServed
CHECK_DEADLOCK FALSE
