CONSTANTS
  Messages = {m1, m2}
  Daemons = {d1, d2}
  None = None
  FailThreshold = 2
  Strays = {m2}
  Late = {}
  MaxKills = 2
SPECIFICATION Spec
INVARIANT NoDuplicate
CHECK_DEADLOCK FALSE
