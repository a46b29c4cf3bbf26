SPECIFICATION Spec
CONSTANTS
  Validators = 2
  Lead = 2
  MaxCommands = 4
  MaxUpsets = 2
  MaxBlocks = 1
INVARIANTS ResumeInv SwitchesAtHeight CompletedMeansUpgraded
PROPERTIES StagesInOrder RunEnds
CHECK_DEADLOCK FALSE
