SPECIFICATION FairSpec
CONSTANTS
  c1 = c1
  c2 = c2
  qa = qa
  attestation = attestation
  database = database
  Candidates = {c1, c2}
  Gates = {qa, attestation}
  QaGate = qa
  AttestationGate = attestation
  ServerGates = {}
  Policies <- TrimmedPolicies
  AdapterStates = {"ready"}
  MaxAttempts = 2
PROPERTY ExpiredLeaseReclaimed
