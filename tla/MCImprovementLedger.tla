------------------------ MODULE MCImprovementLedger ------------------------
EXTENDS ImprovementLedger, TLC

CONSTANTS w1, w2, e1, e2, e3

\* Two sound events, and one a human has to look at.
MCVerdict == [e \in Events |-> IF e = e3 THEN "ESCALATE" ELSE "ACCEPT"]

Symmetric == Permutations(Workers)

=============================================================================
