--------------------------- MODULE PaymentGateway ---------------------------
(***************************************************************************)
(* DurablePaymentGatewayAdapter around ArifPaySandboxAdapter in one        *)
(* process: the submission intent is saved before the provider is called,  *)
(* the result after it answered.  Calls interleave at their awaits, saves  *)
(* fail, and the process may stop at any step; what the file holds         *)
(* survives.                                                               *)
(***************************************************************************)
EXTENDS Naturals, FiniteSets

CONSTANTS
  Keys,          \* idempotency keys
  Transactions,
  Variants,      \* the other fields of a request: customer, amount, currency
  Calls,         \* createC2BCheckout calls that may be under way at once
  MaxRecords,    \* capacity of a snapshot (10 000 in the code)
  MaxFaults      \* bound on failed saves and process stops

ASSUME PaymentGatewayAssumption == MaxRecords \in Nat /\ MaxFaults \in Nat

VARIABLES
  memory,   \* [Keys -> {} or {[request, state]}]: the adapter's records
  file,     \* the same in payment-gateway.json
  call,     \* [Calls -> the call under way]
  network,  \* networkEnabled of the running process
  posts,    \* [Transactions -> how many checkout requests the provider got]
  faults

vars == <<memory, file, call, network, posts, faults>>

Requests == [key : Keys, transaction : Transactions, variant : Variants]
Intent == "SUBMISSION_INTENT_RECORDED"
Outcomes == {"CHECKOUT_CREATED", "GATEWAY_REJECTED", "OUTCOME_UNCERTAIN", "RECONCILIATION_REQUIRED"}
Records == [request : Requests, state : Outcomes \cup {Intent}]

Idle == [stage |-> "idle", request |-> {}]

Init ==
  /\ memory = [k \in Keys |-> {}]
  /\ file = memory
  /\ call = [c \in Calls |-> Idle]
  /\ network \in BOOLEAN
  /\ posts = [t \in Transactions |-> 0]
  /\ faults = 0

-----------------------------------------------------------------------------
\* persist(): the whole map replaces the file.  It throws beyond the capacity,
\* or when writing fails, and then the file stays as it is.
Fits(records) == Cardinality({k \in Keys : records[k] # {}}) <= MaxRecords
Saved(records) == Fits(records) /\ file' = records /\ faults' = faults
NotSaved(records) ==
  /\ file' = file
  /\ \/ ~Fits(records) /\ faults' = faults
     \/ faults < MaxFaults /\ faults' = faults + 1

\* transactionKeys: the keys a transaction is recorded under.
KeysOf(transaction) == {k \in Keys : \E r \in memory[k] : r.request.transaction = transaction}

\* Mutant: a transaction is not tied to its key.
AdmissibleMut(request) == memory[request.key] = {}

\* Neither recorded, nor another key's transaction.
Admissible(request) ==
  /\ memory[request.key] = {}
  /\ KeysOf(request.transaction) \subseteq {request.key}

Recorded(request, state) ==
  [memory EXCEPT ![request.key] = {[request |-> request, state |-> state]}]

\* createC2BCheckout up to its await.  The record stays in memory when its save fails.
Checkout(c, request) ==
  /\ call[c].stage = "idle" /\ Admissible(request)
  /\ memory' = Recorded(request, Intent)
  /\ \/ /\ Saved(memory')
        /\ call' = [call EXCEPT ![c] = [stage |-> "intended", request |-> {request}]]
     \/ /\ NotSaved(memory')
        /\ UNCHANGED call
  /\ UNCHANGED <<network, posts>>

\* A request that is recorded, or whose transaction is, gets the recorded result
\* or one of IDEMPOTENCY_CONFLICT, TRANSACTION_REPLAY and
\* GATEWAY_RECOVERY_RECONCILIATION_REQUIRED; nothing changes.
Repeat(c, request) ==
  /\ call[c].stage = "idle" /\ ~Admissible(request)
  /\ UNCHANGED vars

\* The inner adapter throws before it submits; the intent is left behind.
NetworkDisabled(c) ==
  /\ call[c].stage = "intended" /\ ~network
  /\ call' = [call EXCEPT ![c] = Idle]
  /\ UNCHANGED <<memory, file, network, posts, faults>>

\* submit: the request reaches the provider.
Post(c) ==
  /\ call[c].stage = "intended" /\ network
  /\ call' = [call EXCEPT ![c].stage = "posted"]
  /\ posts' = [t \in Transactions |->
                 IF \E r \in call[c].request : r.transaction = t THEN posts[t] + 1 ELSE posts[t]]
  /\ UNCHANGED <<memory, file, network, faults>>

\* The provider's answer begins; from here on no timer runs (clearTimeout).
Answer(c) ==
  /\ call[c].stage = "posted"
  /\ call' = [call EXCEPT ![c].stage = "answered"]
  /\ UNCHANGED <<memory, file, network, posts, faults>>

\* Mutant: no timeout, so that a request that never arrived has no outcome.
OutcomeMut(c) ==
  IF call[c].stage = "answered" THEN Outcomes ELSE {}

\* What submit returns.  Before an answer: only uncertainty, by timeout or network
\* error, whether the request arrived or not.  A 5xx, a malformed body or another
\* amount than asked is uncertain too.
Outcome(c) ==
  IF call[c].stage = "answered" THEN Outcomes ELSE {"OUTCOME_UNCERTAIN"}

\* The result is recorded and saved; when the save fails the caller gets an
\* error although the result is in memory.
Respond(c) ==
  /\ call[c].stage # "idle" /\ network
  /\ \E request \in call[c].request, state \in Outcome(c) :
       /\ memory' = Recorded(request, state)
       /\ Saved(memory') \/ NotSaved(memory')
  /\ call' = [call EXCEPT ![c] = Idle]
  /\ UNCHANGED <<network, posts>>

\* The process stops and a new one is constructed from the file.
Restart ==
  /\ faults < MaxFaults /\ faults' = faults + 1
  /\ memory' = file
  /\ call' = [c \in Calls |-> Idle]
  /\ network' \in BOOLEAN
  /\ UNCHANGED <<file, posts>>

CheckoutNext ==
  \E c \in Calls :
    \/ \E request \in Requests : Checkout(c, request) \/ Repeat(c, request)
    \/ NetworkDisabled(c) \/ Post(c) \/ Answer(c) \/ Respond(c)

Next == CheckoutNext \/ Restart

Spec == Init /\ [][Next]_vars

\* The timer aborts a fetch that has not been answered.  Nothing makes the
\* provider answer, nor finish the answer it began.
TimeOut(c) == call[c].stage # "answered" /\ Respond(c)
FairSpec == Spec /\ \A c \in Calls : WF_vars(NetworkDisabled(c) \/ TimeOut(c))

-----------------------------------------------------------------------------
\* Types, and: a record is kept under the key of its request.
TypeOK ==
  /\ memory \in [Keys -> SUBSET Records]
  /\ file \in [Keys -> SUBSET Records]
  /\ call \in [Calls -> [stage : {"idle", "intended", "posted", "answered"}, request : SUBSET Requests]]
  /\ network \in BOOLEAN
  /\ posts \in [Transactions -> Nat]
  /\ faults \in 0..MaxFaults
  /\ \A k \in Keys : \A r \in memory[k] \cup file[k] : r.request.key = k

\* A transaction is never posted to the provider twice, whatever callers retry,
\* with whichever keys, through failed saves and restarts.
AtMostOnePost ==
  \A t \in Transactions : posts[t] <= 1

\* What has been posted is on file under a key of its transaction, so that the
\* process constructed after any stop knows about it.
PostedIsOnFile ==
  \A t \in Transactions : posts[t] > 0 => \E k \in Keys : \E r \in file[k] : r.request.transaction = t

\* The file forgets nothing: a record stays, keeps its request, and its result
\* once it has one.
FileOnlyGrows ==
  [][\A k \in Keys : \A r \in file[k] : \E q \in file'[k] :
       q.request = r.request /\ (r.state # Intent => q.state = r.state)]_vars

\* A checkout call ends unless the provider began to answer: one that never
\* answers cannot hold a caller.
UnansweredCheckoutsEnd ==
  \A c \in Calls : call[c].stage # "idle" ~> call[c].stage \in {"idle", "answered"}
=============================================================================
