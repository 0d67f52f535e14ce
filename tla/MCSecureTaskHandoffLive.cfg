\* One worker that may crash at any point, two tasks whose requests clash.
CONSTANTS
  x = x
  w1 = w1
  w2 = w2
  Tasks = {1, 2}
  Tenants = {x}
  TenantOf <- MCTenantOf
  Priority <- MCPriority
  MaxQueue = 2
  MaxTtl = 2
  RateWindow = 0
  MaxPerWindow = 2
  MaxAttempts = 2
  LeaseDurations = {1}
  BusyTimeout = 0
  Horizon = 4
  Workers = {w1}
  Requests <- MCRequests
  RequestOf <- MCChangedRequest

SPECIFICATION FairHSpec

INVARIANT AckedIsEvidenced
PROPERTY WorkSettles
