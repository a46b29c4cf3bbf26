SPECIFICATION Spec
CONSTANTS
  Processes = {p1, p2}
  Names = {a, b}
  First = 1
  Last = 7
  PortsPerValidator = 2
  Published = 2
  MaxValidators = 2
  Subnets = {20, 21}
  HostPorts <- MCHostPorts
  MaxCalls = 3
  MaxFaults = 1
INVARIANTS DeployInv RangesDisjoint FirstFit RollbackLeavesNothing
SYMMETRY Symmetry
CHECK_DEADLOCK FALSE
