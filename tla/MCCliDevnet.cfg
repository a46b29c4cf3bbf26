SPECIFICATION Spec
CONSTANTS
  Validators = 2
  MaxPids = 5
  MaxCommands = 5
  MaxUpsets = 2
INVARIANTS CliInv RemovalStopsNodes OrderlyUseLosesNothing
CHECK_DEADLOCK FALSE
