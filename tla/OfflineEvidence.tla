-------------------------- MODULE OfflineEvidence --------------------------
(***************************************************************************)
(* Evidence about intents that were captured offline: a device queues an   *)
(* intent and tries to send it; the server evaluates the queue record,     *)
(* whether it was received or not, by a reservation and a certified        *)
(* replay in the store of workflow intents, and keeps what it found as     *)
(* evidence, from which the traces of each correlation are made.           *)
(***************************************************************************)
EXTENDS Naturals, Sequences, FiniteSets, FiniteSetsExt

CONSTANTS
  Requests,      \* [scope, hub, digest, route, assignment, expires, correlation, capturedAt]
  Assignments,   \* operator assignments; an authorization gives one, or "none"
  MaxTimeline,   \* events of a trace, 256 in the code
  MaxTime, MaxRecords, MaxAttempts, MaxEvidence

VARIABLES
  now,
  queue,        \* records of the device: [request, queuedAt, attempts]
  reservation,  \* [scope -> {} or {[...]}]: the store
  evidence,     \* of the evaluations
  repeated      \* an evaluation gave the same evidence as an earlier one

vars == <<now, queue, reservation, evidence, repeated>>

Store == INSTANCE HubWorkflowIntent WITH
  Scopes <- {r.scope : r \in Requests}, Workers <- {}, Digests <- {r.digest : r \in Requests},
  Routes <- {r.route : r \in Requests}, MaxRevision <- 1,
  record <- reservation, call <- <<>>, opened <- <<>>, marks <- {}

-----------------------------------------------------------------------------
TransportStates == {"CAPTURED_OFFLINE", "QUEUED", "TRANSPORT_ATTEMPTED", "RECEIVED"}

AuthorityStates ==
  { "UNTRUSTED_INTENT", "AUTHORIZATION_PENDING", "SYNTHETIC_AUTHORIZED", "DUPLICATE_NOOP",
    "REJECTED", "RECONCILIATION_REQUIRED" }

Outcomes ==
  { "QUEUED_UNTRUSTED", "AUTHORIZED_SYNTHETIC", "DUPLICATE_NOOP", "CONFLICT_REVIEW_REQUIRED",
    "STALE_INTENT_REJECTED", "REPLAY_AUTHORIZATION_DENIED", "ASSIGNMENT_CHANGED_REVIEW_REQUIRED",
    "ROUTE_CHANGE_REVIEW_REQUIRED", "ROUTE_FALLBACK_REJECTED", "RECONCILIATION_REQUIRED",
    "CAPTURE_AUTHORIZATION_DENIED", "NO_RESERVATION" }

Stages == TransportStates \cup {"AUTHORIZATION_PENDING", "AUTHORIZED", "DUPLICATE_NOOP", "REJECTED", "RECONCILIATION_REQUIRED"}

QueueRecords == [request : Requests, queuedAt : 1..MaxTime, attempts : 0..MaxAttempts]

\* What the schema of the evidence admits; receivedAt is 0 without a remote receipt.
Evidence ==
  [record : 1..MaxRecords, correlation : {r.correlation : r \in Requests}, scope : {r.scope : r \in Requests},
   hub : {r.hub : r \in Requests}, attempts : 0..MaxAttempts, at : 1..MaxTime, receivedAt : 0..MaxTime,
   transport : TransportStates, authority : AuthorityStates, outcome : Outcomes, timeline : Seq(Stages)]

Init ==
  /\ now = 1 /\ queue = <<>> /\ evidence = {} /\ repeated = FALSE
  /\ reservation = [s \in {r.scope : r \in Requests} |-> {}]

Tick == now < MaxTime /\ now' = now + 1 /\ UNCHANGED <<queue, reservation, evidence, repeated>>

\* createOfflineQueueRecord; queueing may come after the capture.
Enqueue(r) ==
  /\ Len(queue) < MaxRecords /\ r.capturedAt <= now
  /\ queue' = Append(queue, [request |-> r, queuedAt |-> now, attempts |-> 0])
  /\ UNCHANGED <<now, reservation, evidence, repeated>>

Attempt(i) ==
  /\ queue[i].attempts < MaxAttempts
  /\ queue' = [queue EXCEPT ![i].attempts = @ + 1]
  /\ UNCHANGED <<now, reservation, evidence, repeated>>

\* authorityForOutcome.
AuthorityFor(outcome) ==
  CASE outcome = "AUTHORIZED_SYNTHETIC" -> "SYNTHETIC_AUTHORIZED"
    [] outcome \in {"DUPLICATE_NOOP", "RECONCILIATION_REQUIRED"} -> outcome
    [] outcome = "QUEUED_UNTRUSTED" -> "UNTRUSTED_INTENT"
    [] OTHER -> "REJECTED"

\* terminalStage.
TerminalStage(authority) ==
  CASE authority = "SYNTHETIC_AUTHORIZED" -> "AUTHORIZED"
    [] authority \in {"DUPLICATE_NOOP", "RECONCILIATION_REQUIRED"} -> authority
    [] OTHER -> "REJECTED"

\* How far the record came on its way, by the device's word.
Sent(i) ==
  <<"CAPTURED_OFFLINE", "QUEUED">> \o IF queue[i].attempts = 0 THEN <<>> ELSE <<"TRANSPORT_ATTEMPTED">>

\* And once it has a remote receipt.
Received(i) == Sent(i) \o <<"RECEIVED", "AUTHORIZATION_PENDING">>

\* evidenceCore: the id of the evidence is a digest of all its fields, so the same
\* evaluation at the same time is the same evidence.
Keep(i, receivedAt, outcome) ==
  LET e == [record |-> i, correlation |-> queue[i].request.correlation, scope |-> queue[i].request.scope,
            hub |-> queue[i].request.hub, attempts |-> queue[i].attempts, at |-> now,
            receivedAt |-> receivedAt,
            transport |-> IF receivedAt = 0 THEN Sent(i)[Len(Sent(i))] ELSE "RECEIVED",
            timeline |-> IF receivedAt = 0 THEN Sent(i)
                         ELSE Append(Received(i), TerminalStage(AuthorityFor(outcome))),
            authority |-> AuthorityFor(outcome), outcome |-> outcome]
  IN evidence' = evidence \cup {e} /\ repeated' = (repeated \/ e \in evidence)

NotReceived(i) ==
  /\ Keep(i, 0, "QUEUED_UNTRUSTED") /\ UNCHANGED reservation

CaptureDenied(i, receivedAt) ==
  /\ Keep(i, receivedAt, "CAPTURE_AUTHORIZATION_DENIED") /\ UNCHANGED reservation

\* store.reserve.
Decision(r) ==
  IF reservation[r.scope] = {} THEN {"RESERVED_NEW"}
  ELSE {Store!DecisionForExisting(existing, r) : existing \in reservation[r.scope]}
Reserved(r, assignment) ==
  IF reservation[r.scope] = {} THEN {Store!NewRecord([r EXCEPT !.assignment = assignment])}
  ELSE reservation[r.scope]

\* Mutant: a duplicate goes on to the replay.
AnsweredMut(r) == Decision(r) \cap {"CONFLICT_REVIEW_REQUIRED"}

\* A conflict or a duplicate is answered without a replay.
Answered(r) == Decision(r) \cap {"CONFLICT_REVIEW_REQUIRED", "DUPLICATE_NOOP"}

KnownAlready(i, receivedAt) ==
  /\ \E outcome \in Answered(queue[i].request) : Keep(i, receivedAt, outcome)
  /\ UNCHANGED reservation

\* store.certifyReplay at the time of the evaluation.
Replay(r, existing, assignment) ==
  IF assignment = "none" THEN "REPLAY_AUTHORIZATION_DENIED"
  ELSE Store!Certify(existing, [r EXCEPT !.assignment = assignment], now)

OutcomeOf(decision) ==
  IF decision = "SYNTHETIC_DISPATCH_ELIGIBLE" THEN "AUTHORIZED_SYNTHETIC" ELSE decision

\* Reserved, or known under another route or for reconciliation, and replayed.
Replayed(i, receivedAt, capturer, replayer) ==
  LET r == queue[i].request IN
    /\ Answered(r) = {}
    /\ \E existing \in Reserved(r, capturer) :
         /\ reservation' = [reservation EXCEPT ![r.scope] = {existing}]
         /\ Keep(i, receivedAt, OutcomeOf(Replay(r, existing, replayer)))

\* An eligible replay whose external outcome stays unknown: marked at the time of
\* receipt, recorded and certified again.  The mark throws when the replayer was not
\* authorized at that time, and leaves the reservation behind without evidence.
Ambiguous(i, receivedAt, capturer, replayer) ==
  LET r == queue[i].request IN
    /\ Answered(r) = {}
    /\ \E existing \in Reserved(r, capturer) :
         /\ Replay(r, existing, replayer) = "SYNTHETIC_DISPATCH_ELIGIBLE"
         /\ \/ LET marked == [existing EXCEPT !.state = "RECONCILIATION_REQUIRED", !.markedAt = receivedAt]
               IN /\ reservation' = [reservation EXCEPT ![r.scope] = {marked}]
                  /\ Keep(i, receivedAt, OutcomeOf(Replay(r, marked, replayer)))
            \/ /\ reservation' = [reservation EXCEPT ![r.scope] = {existing}]
               /\ UNCHANGED <<evidence, repeated>>

\* evaluateOfflineQueueRecord.
Evaluate(i) ==
  /\ Cardinality(evidence) < MaxEvidence
  /\ \/ NotReceived(i)
     \/ \E receivedAt \in queue[i].queuedAt..now :
          \/ CaptureDenied(i, receivedAt)
          \/ KnownAlready(i, receivedAt)
          \/ \E capturer \in Assignments, replayer \in Assignments \cup {"none"} :
               \/ Replayed(i, receivedAt, capturer, replayer)
               \/ Ambiguous(i, receivedAt, capturer, replayer)
  /\ UNCHANGED <<now, queue>>

Next ==
  \/ Tick
  \/ \E r \in Requests : Enqueue(r)
  \/ \E i \in DOMAIN queue : Attempt(i) \/ Evaluate(i)

Spec == Init /\ [][Next]_vars

-----------------------------------------------------------------------------
\* What a correlation's trace says; of evaluations at one time any may be the latest.
Of(c) == {e \in evidence : e.correlation = c}
Latest(c) == {e \in Of(c) : \A d \in Of(c) : d.at <= e.at}
Project(e) == [record |-> e.record, at |-> e.at, receivedAt |-> e.receivedAt, outcome |-> e.outcome]
Trace(c, latest) ==
  [correlation |-> c, hub |-> latest.hub, records |-> {Project(e) : e \in Of(c)}, last |-> latest.at,
   attempts |-> MapThenSumSet(LAMBDA e : e.attempts, Of(c)),
   transport |-> latest.transport, authority |-> latest.authority, outcome |-> latest.outcome,
   duplicate |-> \E e \in Of(c) : e.outcome = "DUPLICATE_NOOP",
   conflict |-> \E e \in Of(c) : e.outcome = "CONFLICT_REVIEW_REQUIRED",
   reconciliation |-> \E e \in Of(c) : e.outcome = "RECONCILIATION_REQUIRED"]

Traces ==
  [correlation : {r.correlation : r \in Requests}, hub : {r.hub : r \in Requests},
   records : SUBSET [record : 1..MaxRecords, at : 1..MaxTime, receivedAt : 0..MaxTime, outcome : Outcomes],
   last : 1..MaxTime, attempts : Nat, transport : TransportStates, authority : AuthorityStates,
   outcome : Outcomes, duplicate : BOOLEAN, conflict : BOOLEAN, reconciliation : BOOLEAN]

\* createHubOfflineEvidenceReadModel: none at all when two evaluations are the same
\* evidence, a correlation spans two hubs or its timeline grows too long.
ReadModelFails ==
  \/ repeated
  \/ \E d, e \in evidence : d.correlation = e.correlation /\ d.hub # e.hub
  \/ \E d \in evidence : MapThenSumSet(LAMBDA e : Len(e.timeline), Of(d.correlation)) > MaxTimeline
ReadModel ==
  IF ReadModelFails THEN {} ELSE UNION {{Trace(e.correlation, l) : l \in Latest(e.correlation)} : e \in evidence}

\* searchHubOfflineEvidence in the scope of a hub.
Search(hub) == {t \in ReadModel : t.hub = hub}

TypeOK ==
  /\ now \in 1..MaxTime
  /\ \A i \in DOMAIN queue : queue[i] \in QueueRecords /\ queue[i].queuedAt <= now
  /\ \A s \in DOMAIN reservation : Cardinality(reservation[s]) <= 1
  /\ \A e \in evidence : e \in Evidence /\ e.record \in DOMAIN queue /\ e.receivedAt <= e.at
  /\ ReadModel \subseteq Traces

\* However often, from whichever queue record and under whichever correlation an
\* intent is evaluated, its key is authorized at most once, and never when its
\* outcome is unknown; an unknown outcome is in the traces of its hub for as long as
\* there are traces at all.
AuthorizedOnce ==
  /\ \A d, e \in evidence :
       /\ d.outcome = "AUTHORIZED_SYNTHETIC" /\ d.scope = e.scope
       /\ e.outcome \in {"AUTHORIZED_SYNTHETIC", "RECONCILIATION_REQUIRED"}
       => d = e
  /\ \A s \in DOMAIN reservation : \A existing \in reservation[s] :
       existing.state = "RECONCILIATION_REQUIRED" /\ ~ReadModelFails =>
         \E e \in evidence : e.scope = s /\ \E t \in Search(e.hub) : t.reconciliation /\ e.correlation = t.correlation
=============================================================================
