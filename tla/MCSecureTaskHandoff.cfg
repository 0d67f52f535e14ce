\* Two workers on one node, two tasks that carry the same request.
CONSTANTS
  x = x
  w1 = w1
  w2 = w2
  Tasks = {1, 2}
  Tenants = {x}
  TenantOf <- MCTenantOf
  Priority <- MCPriority
  MaxQueue = 2
  MaxTtl = 2
  RateWindow = 0
  MaxPerWindow = 2
  MaxAttempts = 2
  LeaseDurations = {1}
  BusyTimeout = 0
  Horizon = 3
  Workers = {w1, w2}
  Requests <- MCRequests
  RequestOf <- MCSameRequest

SYMMETRY Symmetry

SPECIFICATION HSpec

INVARIANTS
  HTypeOK
  AckedWasExecuted
  OneRunPerLease
  BrokenJournalStops

PROPERTY LiveLeaseKept
