SPECIFICATION FairSpec
CONSTANTS
  Keys = {"Key"}
  Inputs = {i1, i2}
  None = None
  MaxSessions = 2
  MaxFails = 1
CHECK_DEADLOCK FALSE
INVARIANTS
  NoHotMic
  Bracketed
PROPERTY ReleaseIsHeard
