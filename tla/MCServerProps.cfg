CONSTANTS
  Finish = 8
  Skipped = {4, 6}
  MaxAsked = 4
  MaxSessions = 2
SPECIFICATION SPFairSpec
INVARIANTS TransfersAreWhole CutOnlyLate FormIsCurrent
PROPERTY FormUnlocks
CHECK_DEADLOCK FALSE
