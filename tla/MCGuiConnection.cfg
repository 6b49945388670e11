SPECIFICATION FairSpec
CONSTANTS
  MaxThreads = 4
  Delay = 2
CHECK_DEADLOCK FALSE
INVARIANTS
  ButtonTells
PROPERTIES InTurn WaitEnds
