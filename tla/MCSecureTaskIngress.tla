------------------------ MODULE MCSecureTaskIngress ------------------------
(* Values of SecureTaskIngress's constants for TLC. *)
EXTENDS SecureTaskIngress

CONSTANTS x, y

\* Tasks 1 and 2 compete within tenant x, 3 is y's and more urgent than 2.
MCTenantOf == [t \in Tasks |-> IF t <= 2 THEN x ELSE y]
MCPriority == [t \in Tasks |-> IF t = 2 THEN 0 ELSE 1]

=============================================================================
