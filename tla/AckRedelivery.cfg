CONSTANTS
  h1 = h1
  h2 = h2
  early = early
  late = late
  ack = ack
  forged = forged
  Handler <- MCHandler
  Envelope <- MCEnvelope
  Genuine <- MCGenuine
  Ack <- MCAck
  Stamp <- MCStamp
  Skew = 1
  Retention = 3
  Stall = 1
  MaxTime = 7
SPECIFICATION Spec
INVARIANT AcksRunOnce
