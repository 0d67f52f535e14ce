\* The durable queue: safety, progress, and the refinement of the delivery promise.
CONSTANTS
  x = x
  y = y
  Tasks = {1, 2, 3}
  Tenants = {x, y}
  TenantOf <- MCTenantOf
  Priority <- MCPriority
  MaxQueue = 2
  MaxTtl = 2
  RateWindow = 0
  MaxPerWindow = 1
  MaxAttempts = 2
  LeaseDurations = {2}
  BusyTimeout = 1
  Horizon = 5

SPECIFICATION FairSpec

INVARIANTS
  TypeOK
  LeaseSound
  QueueBounded
  AuditTellsAll
  RateLimited

PROPERTIES
  AckedInTime
  DeliversAsPromised
  EveryTaskSettles
