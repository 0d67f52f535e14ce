\* One worker and one task: does a crash run an identical request again?
CONSTANTS
  x = x
  w1 = w1
  w2 = w2
  Tasks = {1}
  Tenants = {x}
  TenantOf <- MCTenantOf
  Priority <- MCPriority
  MaxQueue = 2
  MaxTtl = 2
  RateWindow = 0
  MaxPerWindow = 2
  MaxAttempts = 2
  LeaseDurations = {1}
  BusyTimeout = 0
  Horizon = 4
  Workers = {w1}
  Requests <- MCRequests
  RequestOf <- MCSameRequest

SPECIFICATION HSpec

INVARIANT IdenticalRunsOnce
