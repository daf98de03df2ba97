CONSTANTS
  h1 = h1
  h2 = h2
  global = global
  local = local
  b0 = b0
  b1 = b1
  Handler = {h1}
  Chain <- MCChain
  LastChain = local
  Body <- MCBody
  NoBody = b0
  Port <- OnePort
  DefaultPort = 51820
  Faults = {"nft", "list", "disk", "db", "delete"}
  Overlap = FALSE
  MaxEdits = 1
  Absent = Absent
  Foreign = Foreign
  Closed = Closed
  Emergency = Emergency
  Empty = Empty
  None = None
SPECIFICATION Spec
INVARIANTS
  TypeOK
  EmergencyMeansLockdown
