CONSTANTS
  r1 = r1
  Request = {r1}
  Ws = Ws
  Limit = 2
  Window = 2
SPECIFICATION Spec
INVARIANT EffectIsAudited
