SPECIFICATION Spec
CONSTANTS
  Clients = {c1, c2, c3}
  Edits = {e1, e2, e3}
  Keepers = {c1}
  NoRec = NoRec
  Checked = TRUE
  MaxIncarnations = 2
CHECK_DEADLOCK FALSE
INVARIANTS
  StoreInv
PROPERTIES
  AtomicUpdates
