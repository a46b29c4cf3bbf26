SPECIFICATION FairSpec
CONSTANTS
  Workers = {w1, w2}
  Validators = 2
  FullNodes = 1
  Default = "old"
  Offset = 1
  MaxHeight = 1
  MaxCommands = 1
  MaxUpsets = 0
  MaxRetries = 8
  MaxCopies = 4
PROPERTIES UpgradeProceeds
CHECK_DEADLOCK FALSE
