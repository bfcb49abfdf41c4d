------------------- MODULE MCPaymentGatewayReconciliation -------------------
\* Instance of PaymentGatewayReconciliation for TLC.
EXTENDS PaymentGatewayReconciliation, TLC

CONSTANTS k1, k2, t1, t2, v1, v2, c1, q1, q2

Symmetry ==
  Permutations({k1, k2}) \cup Permutations({t1, t2}) \cup Permutations({v1, v2})
    \cup Permutations({q1, q2})
=============================================================================
