CONSTANTS
  h1 = h1
  h2 = h2
  t1 = t1
  t2 = t2
  p1 = p1
  p2 = p2
  c1 = c1
  c2 = c2
  Torn = Torn
  None = None
  Handler <- MCHandler
  Tenant <- MCTenant
  Project <- MCProject
  OwnerOf <- MCOwnerOf
  Compose <- MCCompose
  MinStart = 100000
  Taken = 1065536
  Count = 65536
  Faults = {"usermod", "podman", "db"}
  Overlap = FALSE
SPECIFICATION Spec
SYMMETRY MCSymmetry
INVARIANTS
  RangesDisjoint
  AnswerIsDesired
  AnswerIsActual
