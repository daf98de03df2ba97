CONSTANTS
  u1 = u1
  u2 = u2
  Updater = {u1}
  Version <- MCVersion
  First = 1
  Stays <- MCStays
  Healthy <- MCHealthy
  Latest = 3
  Tls = FALSE
  Overlap = FALSE
  Torn = Torn
  Nothing = Nothing
SPECIFICATION FairSpec
PROPERTY FailedStartIsUndone
