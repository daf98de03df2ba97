CONSTANTS
  h1 = h1
  h2 = h2
  i1 = i1
  c1 = c1
  c2 = c2
  Handler = {h1}
  Image = {i1}
  DefaultImage = DefaultImage
  Config = {c1, c2}
  Foreign = Foreign
  Faults = {}
  MaxClock = 2
  None = None
SPECIFICATION FairSpec
PROPERTY StoppedIsRedeployed
