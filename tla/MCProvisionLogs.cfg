SPECIFICATION LogsSpec
CONSTANTS
  Streams = {s1, s2}
  Broadcasters = {b1, b2}
  Buffer = 1
  MaxEntries = 2
INVARIANTS LogsInv LogsInOrder NoSilentLoss
PROPERTIES BroadcastEnds
CHECK_DEADLOCK FALSE
