SPECIFICATION FairSpec
CONSTANTS
  Keys = {k1, k2}
  Workers = {w1, w2, w3}
  MaxFailures = 2
INVARIANTS
  QueueInv
  NoLostItem
  WorkConserving
  SingleFlightUntilFailure
PROPERTIES
  EventuallyServed
  ShutdownCompletes
