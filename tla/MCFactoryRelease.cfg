SPECIFICATION FairSpec
CONSTANTS
  c1 = c1
  c2 = c2
  qa = qa
  attestation = attestation
  database = database
  Candidates = {c1, c2}
  Gates = {qa, attestation, database}
  QaGate = qa
  AttestationGate = attestation
  ServerGates = {database}
  Policies <- MCPolicies
  AdapterStates = {"ready", "inactive", "unconfigured"}
  MaxAttempts = 2
INVARIANTS
  TypeOK
  ReleasedWasCleared
  JobsMatchReleases
PROPERTIES
  NeverOverruled
  ClearsAsPromised
  ValidationConcludes
  PromotionConcludes
