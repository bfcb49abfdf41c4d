-------------------- MODULE PaymentGatewayReconciliation --------------------
(***************************************************************************)
(* PaymentGatewayReconciliationService beside the gateway of the same      *)
(* process: reconcile asks the provider for the status of a recorded       *)
(* checkout and records the answer.  The check for a terminal state and    *)
(* the recording are on two sides of an await.                             *)
(***************************************************************************)
EXTENDS PaymentGateway

CONSTANT Queries      \* reconcile calls that may be under way at once

VARIABLES
  status,      \* [Transactions -> {} or {state}]: the service's records
  statusFile,  \* the same in its file
  query,       \* [Queries -> the reconcile call under way]
  provider     \* [Transactions -> the state of the session at the provider]

statusVars == <<status, statusFile, query, provider>>
allVars == <<vars, statusVars>>

TerminalStates == {"GATEWAY_CONFIRMED", "GATEWAY_FAILED", "GATEWAY_CANCELED", "GATEWAY_EXPIRED"}
ProviderStates == {"PAYMENT_PENDING"} \cup TerminalStates
Statuses == ProviderStates \cup {"OUTCOME_UNCERTAIN"}

NoQuery == [transaction |-> {}, answer |-> {}]

InitReconciliation ==
  /\ Init
  /\ status = [t \in Transactions |-> {}]
  /\ statusFile = status
  /\ query = [q \in Queries |-> NoQuery]
  /\ provider = [t \in Transactions |-> "PAYMENT_PENDING"]

-----------------------------------------------------------------------------
\* The provider concludes a session it has been asked to open.
Conclude(t) ==
  /\ posts[t] > 0 /\ provider[t] = "PAYMENT_PENDING"
  /\ \E s \in TerminalStates : provider' = [provider EXCEPT ![t] = s]
  /\ UNCHANGED <<vars, status, statusFile, query>>

\* getRecordedResultByTransactionId found a checkout of the customer with a
\* session reference; any other lookup ends the call with an error.
CheckoutFound(t, customer) ==
  \E k \in KeysOf(t) : \E r \in memory[k] :
    r.request.variant = customer /\ r.state = "CHECKOUT_CREATED"

\* reconcile up to its await.
Ask(q, t, customer) ==
  /\ query[q] = NoQuery
  /\ status[t] \cap TerminalStates = {}
  /\ CheckoutFound(t, customer)
  /\ query' = [query EXCEPT ![q].transaction = {t}]
  /\ UNCHANGED <<vars, status, statusFile, provider>>

\* A transaction whose recorded state is terminal keeps it: no query is sent.
Recall(q, t) ==
  /\ query[q] = NoQuery
  /\ status[t] \cap TerminalStates # {}
  /\ UNCHANGED allVars

\* Mutant: a session that cannot be read has expired.
ReadMut(t) == {provider[t], "GATEWAY_EXPIRED"}

\* getC2BStatus: the session's state, or uncertainty when it cannot be told
\* (timeout, network error, 404, 401, 403, 5xx, a malformed answer).
Read(t) == {provider[t], "OUTCOME_UNCERTAIN"}

ProviderAnswers(q) ==
  /\ query[q].answer = {}
  /\ \E t \in query[q].transaction : \E s \in Read(t) :
       query' = [query EXCEPT ![q].answer = {s}]
  /\ UNCHANGED <<vars, status, statusFile, provider>>

StatusFits(records) == Cardinality({t \in Transactions : records[t] # {}}) <= MaxRecords

\* reconcile from its await: the answer replaces what is recorded, whatever that
\* is by now, and the records are saved.
Record(q) ==
  /\ \E t \in query[q].transaction, s \in query[q].answer : status' = [status EXCEPT ![t] = {s}]
  /\ \/ StatusFits(status') /\ statusFile' = status' /\ UNCHANGED faults
     \/ ~StatusFits(status') /\ UNCHANGED <<statusFile, faults>>
     \/ faults < MaxFaults /\ faults' = faults + 1 /\ UNCHANGED statusFile
  /\ query' = [query EXCEPT ![q] = NoQuery]
  /\ UNCHANGED <<memory, file, call, network, posts, provider>>

\* Mutant: the service starts empty, its file is not loaded.
RestartBothMut ==
  /\ Restart
  /\ status' = [t \in Transactions |-> {}]
  /\ query' = [q \in Queries |-> NoQuery]
  /\ UNCHANGED <<statusFile, provider>>

\* Both adapters are constructed again, each from its file.
RestartBoth ==
  /\ Restart
  /\ status' = statusFile
  /\ query' = [q \in Queries |-> NoQuery]
  /\ UNCHANGED <<statusFile, provider>>

NextReconciliation ==
  \/ CheckoutNext /\ UNCHANGED statusVars
  \/ \E t \in Transactions : Conclude(t)
  \/ \E q \in Queries :
       \/ \E t \in Transactions : Recall(q, t) \/ \E customer \in Variants : Ask(q, t, customer)
       \/ ProviderAnswers(q) \/ Record(q)
  \/ RestartBoth

SpecReconciliation == InitReconciliation /\ [][NextReconciliation]_allVars

-----------------------------------------------------------------------------
TypeOKReconciliation ==
  /\ TypeOK
  /\ status \in [Transactions -> SUBSET Statuses]
  /\ statusFile \in [Transactions -> SUBSET Statuses]
  /\ query \in [Queries -> [transaction : SUBSET Transactions, answer : SUBSET Statuses]]
  /\ provider \in [Transactions -> ProviderStates]

\* A terminal state, in memory or on file, is the state the provider's session
\* ended in: neither a late answer nor an unreadable one makes up a confirmation.
TerminalIsTrue ==
  \A t \in Transactions : \A s \in status[t] \cup statusFile[t] :
    s \in TerminalStates => s = provider[t]

\* A status is only ever recorded of a transaction that was posted, exactly
\* once, and that the gateway's own file knows of.
StatusNeedsPost ==
  \A t \in Transactions : status[t] \cup statusFile[t] # {} =>
    /\ posts[t] = 1
    /\ \E k \in Keys : \E r \in file[k] : r.request.transaction = t

\* A step keeps every saved terminal state of which no query is under way.
TerminalKept ==
  \A t \in Transactions :
    /\ status[t] = statusFile[t] /\ status[t] \cap TerminalStates # {}
    /\ \A q \in Queries : t \notin query[q].transaction
    => status'[t] = status[t] /\ statusFile'[t] = status[t]

\* A terminal state that is saved stays once the queries that were under way
\* when it was recorded are gone.
StickyOnceQuiet == [][TerminalKept]_allVars

\* "A terminal gateway state is sticky and is never allowed to regress to
\* pending/uncertain or another terminal state" (paymentGatewayReconciliation.ts).
TerminalIsSticky ==
  [][\A t \in Transactions :
       status[t] \cap TerminalStates # {} => status'[t] = status[t]]_allVars
=============================================================================
