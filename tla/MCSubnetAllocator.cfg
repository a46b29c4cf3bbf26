SPECIFICATION SubnetFairSpec
CONSTANTS
  Devnets <- MCDevnets
  Hash <- MCHash
  MinSubnet = 252
  MaxSubnet = 254
INVARIANTS
  AllocatorInv
  FullOnlyWhenFull
PROPERTY
  ProbeTerminates
