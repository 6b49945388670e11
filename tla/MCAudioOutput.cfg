SPECIFICATION FairSpec
CONSTANTS
  Users = {ann, bob}
  Streams = {s1, s2}
  None = None
  Prefill = 2
  MaxPieces = 3
  MaxSessions = 2
  MaxFails = 1
CHECK_DEADLOCK FALSE
INVARIANTS
  HeldIsAlive
  PlayedInFull
PROPERTY FinishedEnds
