CONSTANTS
  Handler = {h1, h2}
  Key = {k1, k2, k3}
  FirstKey = k1
  Password = {p1, p2, p3}
  FirstPassword = p1
  Faults = {}
  Overlap = FALSE
  Torn = Torn
  None = None
SPECIFICATION Spec
INVARIANT NeverLocksItself
CHECK_DEADLOCK FALSE
