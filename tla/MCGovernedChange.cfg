CONSTANTS
    Workloads = {"ebkl"}
    MaxAge = 0
    Sources <- MCSources
    Collected <- MCCollected
    Proposals <- MCProposals
    Trials <- MCTrials
    Consumers = {w1, w2}
    Keys = {k1, k2}
    Words = {"APPROVE", "REJECT"}
    Lifetimes = {1}
    MaxPushes = 2
    MaxReceipts = 2
    MaxLedger = 2
    Horizon = 1
SPECIFICATION Spec
INVARIANTS
    GTypeOK
    PreparedFromSafeEvidence
    OnlyBoundedChangesReachAHuman
    ConsumedWasApproved
    ConsumedOnce
PROPERTIES
    ConsumesAsPromised
SYMMETRY Symmetric
CHECK_DEADLOCK FALSE
