---------------------------- MODULE MCServerStores --------------------------
(***************************************************************************)
(* Stores of the server that share neither state nor files, for TLC.  All  *)
(* start together and one of them moves: what each can reach is the same   *)
(* as beside the others, whose states would only multiply its own.  The    *)
(* jobs move twice: with a session and an intent of few revisions, and     *)
(* with an intent alone of one more.  The record store moves while the     *)
(* discipline of its lease is kept.                                        *)
(***************************************************************************)
EXTENDS PartnerReconciliation, TLC

CONSTANTS
  Phones, MaxRequests, MaxStops,                       \* CustomerKyc
  Keys, Payments, Variants, PaymentStores, MaxRecords, MaxFaults,   \* PaymentAttemptStore
  Workers, ReviewRequests, ReviewRoles, HistoryLimit,        \* HumanReview
  Sessions, Intents, Jobs, MaxRevision,                \* SessionShadow
  LeaseMs, WaitMs, MaxTime, MaxLocks, None,            \* LeasedRecordStore
  p1, p2                                               \* processes: the stores, the jobs, and the lease's

ASSUME ServerStoresAssumption ==
  /\ MaxFaults \in Nat /\ MaxRevision \in Nat
  /\ Phones # {} /\ MaxRequests \in Nat \ {0} /\ MaxStops \in Nat
  /\ ReviewRoles \subseteq {"SUPERVISOR", "OPERATIONS"}
  /\ \A asked \in ReviewRequests : asked.action \in
       {"CLAIM", "UNCLAIM", "ESCALATE", "RETURN_TO_REVIEW", "REQUIRE_EXTERNAL_AUTHORITY",
        "RECORD_EXTERNAL_RESPONSE", "RESOLVE", "CLOSE"}
  /\ Sessions \cap Intents = {}
  /\ LeaseMs \in Nat \ {0} /\ {WaitMs, MaxTime, MaxLocks} \subseteq Nat /\ None \notin 1..MaxLocks

VARIABLES
  moving,
  kyc, kycFile, kycRunning, kycStops, kycFailedSaves,
  attempts, store, granted, grants, faults,
  review, loaded, call, answered,
  mode, sessionFile, expired, row, job, start, request,
  clock, leaseFaults, made, written, expiresAt, mtime, lockPath, aside, pc,
  mine, nowMs, startedAtMs, observedRaw, observedFile, breach,
  revision, expected, section, result, writes

C == INSTANCE CustomerKyc WITH
       memory <- kyc, file <- kycFile, running <- kycRunning,
       stops <- kycStops, failedSaves <- kycFailedSaves
A == INSTANCE PaymentAttemptStore WITH file <- attempts, Transactions <- Payments,
       Stores <- PaymentStores
H == INSTANCE HumanReview WITH record <- review, Requests <- ReviewRequests
S == INSTANCE SessionShadow WITH file <- sessionFile, MaxRevision <- MaxRevision + 1
R == INSTANCE LeasedRecordStoreProofs WITH faults <- leaseFaults, Procs <- {p1, p2}, MaxFaults <- 2

kycVars == <<kyc, kycFile, kycRunning, kycStops, kycFailedSaves>>
attemptVars == <<attempts, store, granted, grants, faults>>
reviewVars == <<review, loaded, call, answered>>
sessionVars == <<mode, sessionFile, expired, row, job, start, request>>
recordVars == <<clock, leaseFaults, made, written, expiresAt, mtime, lockPath, aside, pc, mine, nowMs,
                startedAtMs, observedRaw, observedFile, breach, revision, expected, section, result, writes>>
serverVars == <<moving, vars, kycVars, attemptVars, reviewVars, sessionVars, recordVars>>

ServerInit ==
  /\ moving \in {"callbacks", "customer", "attempts", "review", "sessions", "intents", "records"}
  /\ Init /\ C!Init /\ A!Init /\ H!Init /\ S!Init /\ R!RecordInit
  /\ moving = "review" \/ review.owner = "EXTERNAL"

ServerNext ==
  /\ UNCHANGED moving
  /\ \/ moving = "callbacks" /\ Next /\ UNCHANGED <<kycVars, attemptVars, reviewVars, sessionVars, recordVars>>
     \/ moving = "customer" /\ C!Next /\ UNCHANGED <<vars, attemptVars, reviewVars, sessionVars, recordVars>>
     \/ moving = "attempts" /\ A!Next /\ UNCHANGED <<vars, kycVars, reviewVars, sessionVars, recordVars>>
     \/ moving = "review" /\ H!Next /\ UNCHANGED <<vars, kycVars, attemptVars, sessionVars, recordVars>>
     \/ moving = "sessions" /\ S!Next /\ (\A i \in Intents : sessionFile'[i] <= MaxRevision)
          /\ UNCHANGED <<vars, kycVars, attemptVars, reviewVars, recordVars>>
     \/ moving = "intents" /\ S!Next /\ (\A s \in Sessions : start'[s] = "not yet")
          /\ UNCHANGED <<vars, kycVars, attemptVars, reviewVars, recordVars>>
     \/ moving = "records" /\ R!RecordNext /\ breach' = {}
          /\ UNCHANGED <<vars, kycVars, attemptVars, reviewVars, sessionVars>>

ServerSpec == ServerInit /\ [][ServerNext]_serverVars

Symmetry == Permutations({p1, p2})

-----------------------------------------------------------------------------
Callback(id, transaction, event, sequence) ==
  [id |-> id, transaction |-> transaction, event |-> event, sequence |-> sequence]

\* Alternatives of what the partner may send, one of them under the id of another.
MCCallbacks ==
  { Callback("i1", "t1", "AUTHORIZATION_ACCEPTED", 1),
    Callback("i2", "t1", "OUTCOME_UNCERTAIN", 2),
    Callback("i2", "t1", "RECONCILIATION_REQUIRED", 3),
    Callback("i3", "t1", "SETTLED", 3),
    Callback("i4", "t1", "AUTHORIZATION_REJECTED", 4),
    Callback("i5", "t2", "AUTHORIZATION_REJECTED", 1),
    Callback("i6", "t2", "SETTLED", 2) }

Request(key, role, action, loadedRevision) ==
  [key |-> key, role |-> role, action |-> action, expected |-> loadedRevision, scoped |-> TRUE]

\* What two reviewers may ask of a case: alternatives at every revision, one key
\* used twice, and a response that is not of the case's scope.
MCReviewRequests ==
  { Request("k1", "OPERATIONS", "CLAIM", 1),
    Request("k2", "SUPERVISOR", "CLAIM", 1),
    [Request("k3", "OPERATIONS", "RECORD_EXTERNAL_RESPONSE", 1) EXCEPT !.scoped = FALSE],
    Request("k4", "OPERATIONS", "UNCLAIM", 2),
    Request("k5", "OPERATIONS", "REQUIRE_EXTERNAL_AUTHORITY", 2),
    Request("k5", "OPERATIONS", "RESOLVE", 2),
    Request("k6", "OPERATIONS", "ESCALATE", 2),
    Request("k7", "OPERATIONS", "RECORD_EXTERNAL_RESPONSE", 3),
    Request("k8", "SUPERVISOR", "RECORD_EXTERNAL_RESPONSE", 3),
    Request("k8", "OPERATIONS", "RETURN_TO_REVIEW", 3),
    Request("k9", "OPERATIONS", "RESOLVE", 4),
    Request("k9", "OPERATIONS", "CLOSE", 3) }

-----------------------------------------------------------------------------
\* The types of the store that moves.
TypeOKStores ==
  CASE moving = "callbacks" -> TypeOK
    [] moving = "customer" -> C!TypeOK
    [] moving = "attempts" -> A!TypeOK
    [] moving = "review" -> H!TypeOK
    [] moving \in {"sessions", "intents"} -> S!TypeOK
    [] OTHER -> TRUE   \* of the record store, whose proofs have them

\* A customer who may transact has confirmed a challenge for their phone, and the
\* provider's file is never behind the customer's.
EligibleIsConfirmed == C!EligibleIsConfirmed

\* The outcome a partner was answered for holds; settlement is its own word, and the
\* latest callback is the one that counts.
PartnerIsBelieved == AcknowledgedOutcomeHolds /\ SettledByPartnerOnly /\ LatestWins

\* A transaction is granted to one reservation and recorded once, by stores whose
\* copies are the file's when their numbers are.
AtMostOneGrant == A!AtMostOneGrant /\ A!RevisionVouches

\* What a reviewer was told is what the record says, and a key has one event.
ToldHolds == H!ToldHolds

\* Whatever was done to a case was done by the reviewer who held it.
ReviewerActs == H!ReviewerActs

\* A session in use has a row that agrees, and a row that a logout removed does not
\* come back.
SessionsAreKept == S!LiveSessionIsServed /\ S!RemovedStaysRemoved

\* What is on file or in a row never goes back: outcomes and numbers of callbacks,
\* revisions of intents, and attempts, of which only the reserver adds the evidence.
NothingIsUndone == FileNeverRegresses /\ S!IntentNeverRegresses /\ A!EvidenceByTheReserver

\* Through the lease, calls with crashes and failed writes at any step look like
\* atomic compare-and-set operations.
ImplementsAtomicStore == R!ImplementsAtomicStore
=============================================================================
