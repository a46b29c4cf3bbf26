SPECIFICATION RuntimeFairSpec
CONSTANTS
  Sups = {s1, s2}
  NoSup = NoSup
  Policy = "on-failure"
  MaxRestarts = 1
CHECK_DEADLOCK FALSE
INVARIANTS
  RuntimeInv
PROPERTIES
  FailureIsRetried
