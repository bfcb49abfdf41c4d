--------------------------- MODULE MCPartnerLedger --------------------------
\* Instance of PartnerLedger for TLC: requests that retry, change or replay one
\* another, and withdrawals that only fit the balance one at a time.
EXTENDS PartnerLedger

Request(key, transaction, customer, amount, direction) ==
  [key |-> key, transaction |-> transaction, customer |-> customer,
   amount |-> amount, direction |-> direction]

MCRequests ==
  { Request("k1", "t1", "c1", 2, "CASH_OUT"),
    Request("k1", "t1", "c1", 3, "CASH_OUT"),
    Request("k2", "t1", "c1", 2, "CASH_OUT"),
    Request("k2", "t2", "c1", 3, "CASH_OUT"),
    Request("k3", "t3", "c1", 1, "CASH_IN"),
    Request("k3", "t3", "c2", 1, "CASH_IN") }
=============================================================================
