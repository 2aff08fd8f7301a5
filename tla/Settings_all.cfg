SPECIFICATION Spec
CONSTANTS
  Intervals = {9, 10, 3600, 3601}
  IntervalMin = 10
  IntervalMax = 3600
  IntervalDefault = 60
  home = home
  office = office
  Networks = {home, office}
  None = None
  Fails = TRUE
  MaxSets = 3
INVARIANTS
  KnownInterval
  KnownNetwork
  AnsweredIsInForce
