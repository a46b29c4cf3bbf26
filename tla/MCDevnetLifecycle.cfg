SPECIFICATION Spec
CONSTANTS
  Workers = {w1, w2}
  NoWorker = NoWorker
  Stages = 1
  MaxNodes = 2
  Subnets = {1}
  MaxEvents = 3
  MaxUpsets = 1
  MaxRetries = 2
  MaxCopies = 2
INVARIANTS DevnetInv ReportedNodesAreThere DeletedLeavesNothing
PROPERTIES ProvisioningEnds
CHECK_DEADLOCK FALSE
