CONSTANTS
  Messages = {m1, m2}
  Daemons = {d1, d2}
  None = None
  FailThreshold = 2
  Strays = {m2}
  Late = {m2}
  MaxKills = 2
SPECIFICATION FairSpec
INVARIANTS TypeOK AtMostOnce TruthfulStatus
PROPERTY EveryMessageEnds
CHECK_DEADLOCK FALSE
