CONSTANTS
  a1 = a1
  a2 = a2
  e1 = e1
  e2 = e2
  e3 = e3
  Entry <- MCEntry
  ResultOf <- MCResultOf
  Genesis = Genesis
  MaxClock = 4
  BatchSize = 2
  MaxWipes = 1
  Appender = {a1}
SPECIFICATION FairSyncSpec
INVARIANTS
  SyncTypeOK
  SyncedUpToCursor
  PrevIsOlder
  Linear
PROPERTIES
  ImplementsHashChain
  NewRowBringsAll
CHECK_DEADLOCK FALSE
