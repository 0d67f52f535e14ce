------------------------ MODULE MCSecureTaskHandoff ------------------------
(* Values of SecureTaskHandoff's constants for TLC. *)
EXTENDS SecureTaskHandoff, TLC

CONSTANTS x, w1, w2

MCTenantOf == [t \in Tasks |-> x]
MCPriority == [t \in Tasks |-> 0]

\* Both tasks ask for action 1, with the same input or with different ones.
MCRequests == [action : {1}, input : {1, 2}]
MCSameRequest == [t \in Tasks |-> [action |-> 1, input |-> 1]]
MCChangedRequest == [t \in Tasks |-> [action |-> 1, input |-> t]]

Symmetry == Permutations(Workers)

=============================================================================
