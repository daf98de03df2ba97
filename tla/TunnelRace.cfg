CONSTANTS
  h1 = h1
  h2 = h2
  h3 = h3
  t1 = t1
  t2 = t2
  a = a
  b = b
  i1 = i1
  i2 = i2
  p1 = p1
  Handler = {h1, h2}
  Tunnel = {t1, t2}
  Params = {a, b}
  Iface = {i1, i2}
  IfaceOf <- Apart
  Peer = {p1}
  Faults = {}
  Overlap = TRUE
  Torn = Torn
  None = None
SPECIFICATION TunnelSpec
INVARIANT GoneIsDown
