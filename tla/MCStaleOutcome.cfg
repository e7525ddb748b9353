SPECIFICATION Spec
CONSTANTS
  p1 = p1
  p2 = p2
  c1 = c1
  c2 = c2
  c3 = c3
  none = none
  Providers = {p1, p2}
  Callers = {c1, c2, c3}
  NoProvider = none
  FailureThreshold = 2
  CooldownMs = 2
PROPERTY HalfOpenDecidedByProbe
