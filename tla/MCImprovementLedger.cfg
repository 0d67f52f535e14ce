SPECIFICATION Spec
CONSTANTS
  w1 = w1
  w2 = w2
  e1 = e1
  e2 = e2
  e3 = e3
  Workers = {w1, w2}
  Events = {e1}
  Verdict <- MCVerdict
  Budget = 1
  MaxStops = 1
SYMMETRY Symmetric
CHECK_DEADLOCK FALSE
INVARIANTS
  AttemptsRunOnce
  PreparedWasCertified
  AcceptedOnce
PROPERTIES
  GovernsAsPromised
