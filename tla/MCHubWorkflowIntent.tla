------------------------ MODULE MCHubWorkflowIntent -------------------------
\* Instance of HubWorkflowIntent for TLC.
EXTENDS HubWorkflowIntent, TLC

CONSTANTS w1, w2, d1, d2, r1, r2, a1, a2

Symmetry ==
  Permutations({w1, w2}) \cup Permutations({d1, d2}) \cup Permutations({r1, r2})
    \cup Permutations({a1, a2})
=============================================================================
