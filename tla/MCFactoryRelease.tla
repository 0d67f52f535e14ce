------------------------- MODULE MCFactoryRelease -------------------------
EXTENDS FactoryRelease

CONSTANTS c1, c2, qa, attestation, database

\* The profile requires the attestation, or a gate the database judges.
MCPolicies == {{attestation}, {qa, database}}

\* The profile requires both gates, or is trimmed to the build's own.
TrimmedPolicies == {{qa, attestation}, {qa}}

=============================================================================
