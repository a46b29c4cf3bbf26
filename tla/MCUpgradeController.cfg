SPECIFICATION Spec
CONSTANTS
  Workers = {w1, w2}
  Validators = 2
  FullNodes = 1
  Default = "old"
  Offset = 1
  MaxHeight = 2
  MaxCommands = 4
  MaxUpsets = 2
  MaxRetries = 8
  MaxCopies = 4
INVARIANTS UpgradeInv SwitchesAfterHeight CompletedMeansSwitched CancelledSwitchesNothing
CHECK_DEADLOCK FALSE
