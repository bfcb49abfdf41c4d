---------------------------- MODULE PartnerLedger ---------------------------
(***************************************************************************)
(* MockPartnerFI behind TransactionService in one process: a submitted     *)
(* request is answered from the recorded results, or checked against the   *)
(* customer's eligibility, posted and saved.  Saves fail and the process   *)
(* stops; the ledger file survives.                                        *)
(***************************************************************************)
EXTENDS Integers, FiniteSets, FiniteSetsExt

CONSTANTS
  Requests,        \* records with key, transaction, customer, amount (at least 1) and direction
  Opening,         \* balance of an account that has none (100 000 in the code)
  MaxFailedSaves,
  MaxRestarts

Keys == {r.key : r \in Requests}
Customers == {r.customer : r \in Requests}

VARIABLES
  ledger,       \* memory: balances and [Keys -> {} or {[request, state]}]
  ledgerFile,
  outcome,      \* of the running process: "accept", "reject" or "reconcile"
  eligible,     \* [Customers -> BOOLEAN]: assertTransactionEligible, now
  told,         \* results that callers of submit have been given
  failedSaves,
  restarts

ledgerVars == <<ledger, ledgerFile, outcome, eligible, told, failedSaves, restarts>>

States == {"PARTNER_ACCEPTED", "PARTNER_REJECTED", "RECONCILIATION_REQUIRED"}
Results == [request : Requests, state : States]

Init ==
  /\ ledger = [balance |-> [c \in Customers |-> Opening], result |-> [k \in Keys |-> {}]]
  /\ ledgerFile = ledger
  /\ outcome \in {"accept", "reject", "reconcile"}
  /\ eligible \in [Customers -> BOOLEAN]
  /\ told = {}
  /\ failedSaves = 0 /\ restarts = 0

-----------------------------------------------------------------------------
Recorded(request) == {r \in ledger.result[request.key] : r.request = request}

\* TRANSACTION_REPLAY: the transaction has been posted, under whatever key.
Replay(request) ==
  \E k \in Keys : \E r \in ledger.result[k] : r.request.transaction = request.transaction

Effect(request) == IF request.direction = "CASH_IN" THEN request.amount ELSE -request.amount

Authorized(request) ==
  /\ outcome # "reject"
  /\ request.direction = "CASH_IN" \/ ledger.balance[request.customer] >= request.amount

StateOf(request) ==
  IF ~Authorized(request) THEN "PARTNER_REJECTED"
  ELSE IF outcome = "reconcile" THEN "RECONCILIATION_REQUIRED" ELSE "PARTNER_ACCEPTED"

\* Mutant: a result that needs reconciliation already moves the balance.
PostedMut(request) ==
  [balance |-> [ledger.balance EXCEPT ![request.customer] =
                  IF StateOf(request) = "PARTNER_REJECTED" THEN @ ELSE @ + Effect(request)],
   result |-> [ledger.result EXCEPT ![request.key] = {[request |-> request, state |-> StateOf(request)]}]]

\* The ledger with the request's result, and its effect when it is accepted.
Posted(request) ==
  [balance |-> [ledger.balance EXCEPT ![request.customer] =
                  IF StateOf(request) = "PARTNER_ACCEPTED" THEN @ + Effect(request) ELSE @],
   result |-> [ledger.result EXCEPT ![request.key] = {[request |-> request, state |-> StateOf(request)]}]]

\* submit goes on to postTransaction, which goes on to post.
Postable(request) ==
  ledger.result[request.key] = {} /\ eligible[request.customer] /\ ~Replay(request)

SaveFails == failedSaves < MaxFailedSaves /\ failedSaves' = failedSaves + 1

\* Mutant: the result is only in memory when the caller is told.
PostMut(request) ==
  /\ Postable(request)
  /\ ledger' = Posted(request)
  /\ UNCHANGED <<ledgerFile, outcome, eligible, restarts>>

\* The request is posted and saved.
Post(request) ==
  /\ Postable(request)
  /\ ledger' = Posted(request) /\ ledgerFile' = ledger'
  /\ UNCHANGED <<outcome, eligible, restarts>>

\* It is posted, the save throws, and the caller gets an error.
PostUnsaved(request) ==
  /\ Postable(request) /\ SaveFails
  /\ ledger' = Posted(request)
  /\ UNCHANGED <<ledgerFile, outcome, eligible, restarts>>

\* A retry gets the recorded result.
Recall(request) ==
  /\ Recorded(request) # {}
  /\ UNCHANGED <<ledger, ledgerFile, outcome, eligible, restarts>>

\* A conflict, a replay or a customer who is not eligible.
Refused(request) == ~Postable(request) /\ Recorded(request) = {}

Submit(request) ==
  \/ /\ Post(request) \/ Recall(request)
     /\ told' = told \cup ledger'.result[request.key]
     /\ UNCHANGED failedSaves
  \/ PostUnsaved(request) /\ UNCHANGED told
  \/ Refused(request) /\ UNCHANGED ledgerVars

\* KYC, phone or risk state of a customer changes.
ChangeEligibility(c) ==
  /\ eligible' = [eligible EXCEPT ![c] = ~@]
  /\ UNCHANGED <<ledger, ledgerFile, outcome, told, failedSaves, restarts>>

\* The process stops and another is constructed from the file.
Restart ==
  /\ restarts < MaxRestarts /\ restarts' = restarts + 1
  /\ ledger' = ledgerFile
  /\ outcome' \in {"accept", "reject", "reconcile"}
  /\ UNCHANGED <<ledgerFile, eligible, told, failedSaves>>

Next ==
  \/ \E request \in Requests : Submit(request)
  \/ \E c \in Customers : ChangeEligibility(c)
  \/ Restart

Spec == Init /\ [][Next]_ledgerVars

-----------------------------------------------------------------------------
LedgerTypes ==
  [balance : [Customers -> Int], result : [Keys -> SUBSET Results]]

TypeOK ==
  /\ ledger \in LedgerTypes /\ ledgerFile \in LedgerTypes
  /\ outcome \in {"accept", "reject", "reconcile"}
  /\ eligible \in [Customers -> BOOLEAN]
  /\ told \subseteq Results
  /\ failedSaves \in 0..MaxFailedSaves /\ restarts \in 0..MaxRestarts

Accepted(l, c) ==
  {r \in UNION {l.result[k] : k \in Keys} : r.state = "PARTNER_ACCEPTED" /\ r.request.customer = c}

\* A balance is the opening balance and the effects of the accepted results that
\* are kept beside it, each once, in memory and on file, whatever was retried, and never overdrawn.
BalanceIsExplained ==
  \A l \in {ledger, ledgerFile} : \A c \in Customers :
    /\ l.balance[c] = Opening + MapThenSumSet(LAMBDA r : Effect(r.request), Accepted(l, c))
    /\ l.balance[c] >= 0

\* A transaction has one result, although every retry may choose its key.
OneResultPerTransaction ==
  \A l \in {ledger, ledgerFile} : \A k, m \in Keys : \A r \in l.result[k], q \in l.result[m] :
    r.request.transaction = q.request.transaction => k = m /\ r = q

\* As long as no save has failed, what callers were told is on file.
ToldIsDurable ==
  failedSaves = 0 => \A r \in told : r \in ledgerFile.result[r.request.key]

\* "restart preserves accepted synthetic transaction/idempotency records and
\* account simulation state" (P0_B_PLAN.md): an accepted result a caller was
\* told of is known to every later process.
AcceptedSurvivesRestart ==
  \A r \in told : r.state = "PARTNER_ACCEPTED" => r \in ledger.result[r.request.key]
=============================================================================
