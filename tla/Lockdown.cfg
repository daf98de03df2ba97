CONSTANTS
  Acker = {a1, a2}
  Timeout = 1
SPECIFICATION LockFairSpec
INVARIANTS
  LockedHasReason
PROPERTIES
  SettledStickyStays
  SilenceLocks
  OutageLocks
  AckReleases
