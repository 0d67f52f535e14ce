SPECIFICATION FairSpec
CONSTANTS
  w1 = w1
  w2 = w2
  e1 = e1
  e2 = e2
  e3 = e3
  Workers = {w1}
  Events = {e1, e2, e3}
  Verdict <- MCVerdict
  Budget = 1
  MaxStops = 0
CHECK_DEADLOCK FALSE
INVARIANTS
  TypeOK
PROPERTIES
  RunsConclude
