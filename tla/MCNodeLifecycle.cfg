SPECIFICATION FairSpec
CONSTANTS
  Workers = {w1, w2}
  Commands <- AllCommands
  MaxCopies = 2
  MaxRestarts = 1
  MaxCommands = 1
  MaxLaunches = 1
  MaxCrashes = 1
CHECK_DEADLOCK FALSE
INVARIANTS
  NodeInv
PROPERTIES
  StopIsNotUndone
  StartingIsLeft
