SPECIFICATION KASpec
CONSTANTS
  Second = 3
  Interval = 2
  MaxTime = 14
CHECK_DEADLOCK FALSE
INVARIANTS
  KeepsTime
