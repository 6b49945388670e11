CONSTANTS
  Producers = {net, api}
  Blocking = {player}
  Polling = {player}
  MaxQueued = 5
  Spurious = TRUE
SPECIFICATION FairSpec
INVARIANTS NeverNull NoneStranded NonblockReturns
PROPERTIES ImplementsFifo EventIsTaken
CHECK_DEADLOCK FALSE
