CONSTANTS
  h1 = h1
  h2 = h2
  global = global
  local = local
  b0 = b0
  b1 = b1
  Handler = {h1}
  Chain <- MCChain
  LastChain = local
  Body <- MCBody
  NoBody = b0
  Port <- MCPort
  DefaultPort = 51820
  Faults = {}
  Overlap = TRUE
  MaxEdits = 1
  Absent = Absent
  Foreign = Foreign
  Closed = Closed
  Emergency = Emergency
  Empty = Empty
  None = None
SPECIFICATION Spec
INVARIANT StoredIsApplied
