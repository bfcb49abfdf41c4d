-------------------------- MODULE HubWorkflowIntent -------------------------
(***************************************************************************)
(* HubWorkflowIntentCertificationStore over a compare-and-set store:       *)
(* reserve, certifyReplay, markPossibleExternalMutation and                *)
(* recordAmbiguousExternalOutcome called by several workers.  Each load    *)
(* and each compareAndSet is a step of its own; the store is the atomic    *)
(* one that LeasedRecordStore implements.                                  *)
(***************************************************************************)
EXTENDS Naturals

CONSTANTS
  Scopes,      \* tenant|hub|partner|idempotencyKey
  Workers,
  Digests,     \* business-intent digests
  Routes,      \* a route together with its adapter
  Assignments, \* operator assignments that authorization may resolve to
  MaxTime,     \* times are 1..MaxTime, 0 is null
  MaxRevision  \* bound on the revision of a record

ASSUME HubWorkflowIntentAssumption ==
  /\ MaxTime \in Nat
  /\ MaxRevision \in Nat \ {0}

VARIABLES
  record,  \* [Scopes -> {} or {[revision, digest, route, ...]}]: the stored record
  call,    \* [Workers -> the call under way]
  opened,  \* history: [Scopes -> how many callers were told RESERVED_NEW]
  marks    \* history: the <<scope, request, time>> of every mark that was stored

vars == <<record, call, opened, marks>>

Times == 1..MaxTime
Requests ==
  [scope : Scopes, digest : Digests, route : Routes, assignment : Assignments, expires : Times]
States == {"RESERVED_SYNTHETIC", "POSSIBLE_EXTERNAL_MUTATION", "RECONCILIATION_REQUIRED"}
Records ==
  [revision : 1..MaxRevision, digest : Digests, route : Routes, assignment : Assignments,
   expires : Times, state : States, markedAt : 0..MaxTime]

\* The request, the time and the record a call works with; none when it is over.
Idle(result) == [stage |-> "idle", request |-> {}, at |-> 0, seen |-> {}, result |-> result]
Busy(stage, request, at, seen) ==
  [stage |-> stage, request |-> {request}, at |-> at, seen |-> seen, result |-> "none"]

Init ==
  /\ record = [s \in Scopes |-> {}]
  /\ call = [w \in Workers |-> Idle("none")]
  /\ opened = [s \in Scopes |-> 0]
  /\ marks = {}

Continue(w, stage, request, at, seen) ==
  call' = [call EXCEPT ![w] = Busy(stage, request, at, seen)]
Return(w, result) == call' = [call EXCEPT ![w] = Idle(result)]

-----------------------------------------------------------------------------
\* decisionForExisting.
DecisionForExisting(existing, request) ==
  CASE existing.digest # request.digest -> "CONFLICT_REVIEW_REQUIRED"
    [] existing.digest = request.digest /\ existing.state = "RECONCILIATION_REQUIRED" ->
         "RECONCILIATION_REQUIRED"
    [] OTHER ->
         IF existing.route = request.route THEN "DUPLICATE_NOOP"
         ELSE IF existing.state = "POSSIBLE_EXTERNAL_MUTATION" THEN "ROUTE_FALLBACK_REJECTED"
         ELSE "ROUTE_CHANGE_REVIEW_REQUIRED"

\* certifyReplay of an authorized request, at time at.
Certify(existing, request, at) ==
  CASE existing.digest # request.digest -> "CONFLICT_REVIEW_REQUIRED"
    [] existing.digest = request.digest /\ at > existing.expires -> "STALE_INTENT_REJECTED"
    [] OTHER ->
         IF existing.state = "RECONCILIATION_REQUIRED" THEN "RECONCILIATION_REQUIRED"
         ELSE IF existing.assignment # request.assignment
           THEN "ASSIGNMENT_CHANGED_REVIEW_REQUIRED"
         ELSE IF existing.route = request.route THEN "SYNTHETIC_DISPATCH_ELIGIBLE"
         ELSE IF existing.state = "POSSIBLE_EXTERNAL_MUTATION" THEN "ROUTE_FALLBACK_REJECTED"
         ELSE "ROUTE_CHANGE_REVIEW_REQUIRED"

\* reserve, up to its first load.
Reserve(w, request) ==
  /\ call[w].stage = "idle"
  /\ IF record[request.scope] = {}
       THEN Continue(w, "create", request, 0, {})
       ELSE \E existing \in record[request.scope] :
              Return(w, DecisionForExisting(existing, request))
  /\ UNCHANGED <<record, opened, marks>>

NewRecord(request) ==
  [revision |-> 1, digest |-> request.digest, route |-> request.route,
   assignment |-> request.assignment, expires |-> request.expires,
   state |-> "RESERVED_SYNTHETIC", markedAt |-> 0]

\* Mutant: create does not look whether a record is there.
CreateMut(w) ==
  /\ call[w].stage = "create"
  /\ \E request \in call[w].request :
       /\ record' = [record EXCEPT ![request.scope] = {NewRecord(request)}]
       /\ opened' = [opened EXCEPT ![request.scope] = @ + 1]
       /\ Return(w, "RESERVED_NEW")
  /\ UNCHANGED marks

\* persistence.create; when another caller was first, reserve loads again.  A
\* create that throws after its rename leaves the record without telling anyone.
Create(w) ==
  /\ call[w].stage = "create"
  /\ \E request \in call[w].request :
       \/ /\ record[request.scope] = {}
          /\ record' = [record EXCEPT ![request.scope] = {NewRecord(request)}]
          /\ \/ Return(w, "RESERVED_NEW") /\ opened' = [opened EXCEPT ![request.scope] = @ + 1]
             \/ Return(w, "error") /\ UNCHANGED opened
       \/ /\ record[request.scope] # {}
          /\ Continue(w, "raced", request, 0, {})
          /\ UNCHANGED <<record, opened>>
  /\ UNCHANGED marks

Raced(w) ==
  /\ call[w].stage = "raced"
  /\ \E request \in call[w].request : \E existing \in record[request.scope] :
       Return(w, DecisionForExisting(existing, request))
  /\ UNCHANGED <<record, opened, marks>>

-----------------------------------------------------------------------------
\* markPossibleExternalMutation, its replay gate.
Gate(w, request, at) ==
  /\ call[w].stage = "idle"
  /\ \/ /\ record[request.scope] = {}
        /\ Return(w, "NO_RESERVATION")
     \/ \E existing \in record[request.scope] :
          LET decision == Certify(existing, request, at)
          IN  IF decision = "SYNTHETIC_DISPATCH_ELIGIBLE"
                THEN Continue(w, "gated", request, at, {})
                ELSE Return(w, decision)
  /\ UNCHANGED <<record, opened, marks>>

\* Its second load and the checks repeated on it.
Recheck(w) ==
  /\ call[w].stage = "gated"
  /\ \E request \in call[w].request : \E existing \in record[request.scope] :
       IF /\ existing.digest = request.digest
          /\ existing.route = request.route
          /\ call[w].at <= existing.expires
          /\ existing.state # "RECONCILIATION_REQUIRED"
         THEN Continue(w, "mark", request, call[w].at, {existing})
         ELSE Return(w, "error")
  /\ UNCHANGED <<record, opened, marks>>

\* Mutant: the revision is not compared.
CompareAndSetMut(w, scope, seen, updated) ==
  /\ record' = [record EXCEPT ![scope] = {[updated EXCEPT !.revision = seen.revision + 1]}]
  /\ Return(w, "stored")

\* compareAndSet on the revision that was loaded; a write that throws after its
\* rename has taken place all the same.
CompareAndSet(w, scope, seen, updated) ==
  IF \E current \in record[scope] : current.revision = seen.revision
    THEN /\ record' = [record EXCEPT ![scope] = {[updated EXCEPT !.revision = seen.revision + 1]}]
         /\ Return(w, "stored") \/ Return(w, "error")
    ELSE /\ Return(w, "CONCURRENT_UPDATE_REVIEW_REQUIRED")
         /\ UNCHANGED record

CommitMark(w) ==
  /\ call[w].stage = "mark"
  /\ \E request \in call[w].request, seen \in call[w].seen :
       /\ seen.revision < MaxRevision
       /\ CompareAndSet(w, request.scope, seen,
            [seen EXCEPT !.state = "POSSIBLE_EXTERNAL_MUTATION",
                         !.markedAt = IF @ = 0 THEN call[w].at ELSE @])
       /\ marks' = IF record' = record THEN marks
                   ELSE marks \cup {<<request.scope, request, call[w].at>>}
  /\ UNCHANGED opened

\* recordAmbiguousExternalOutcome.
Ambiguous(w, request) ==
  /\ call[w].stage = "idle"
  /\ \/ /\ record[request.scope] = {}
        /\ Return(w, "error")
     \/ \E existing \in record[request.scope] :
          IF existing.digest = request.digest /\ existing.state = "POSSIBLE_EXTERNAL_MUTATION"
            THEN Continue(w, "ambiguous", request, 0, {existing})
            ELSE Return(w, "error")
  /\ UNCHANGED <<record, opened, marks>>

CommitAmbiguous(w) ==
  /\ call[w].stage = "ambiguous"
  /\ \E request \in call[w].request, seen \in call[w].seen :
       /\ seen.revision < MaxRevision
       /\ CompareAndSet(w, request.scope, seen, [seen EXCEPT !.state = "RECONCILIATION_REQUIRED"])
  /\ UNCHANGED <<opened, marks>>

\* A call that dies, or whose store throws before its rename.
Die(w) ==
  /\ call[w].stage # "idle"
  /\ Return(w, "error")
  /\ UNCHANGED <<record, opened, marks>>

\* snapshot() and a new store made from it: the revisions start again at 1 and
\* no call survives.
Restore ==
  /\ record' = [s \in Scopes |-> {[r EXCEPT !.revision = 1] : r \in record[s]}]
  /\ call' = [w \in Workers |-> Idle("none")]
  /\ UNCHANGED <<opened, marks>>

Next ==
  \/ \E w \in Workers :
       \/ \E request \in Requests : Reserve(w, request) \/ Ambiguous(w, request)
       \/ \E request \in Requests, at \in Times : Gate(w, request, at)
       \/ Create(w) \/ Raced(w) \/ Recheck(w) \/ CommitMark(w) \/ CommitAmbiguous(w) \/ Die(w)
  \/ Restore

Spec == Init /\ [][Next]_vars

-----------------------------------------------------------------------------
\* Types: revisions start at 1, and a call that is about to write has loaded a record.
Decisions ==
  {"CONFLICT_REVIEW_REQUIRED", "RECONCILIATION_REQUIRED", "DUPLICATE_NOOP",
   "ROUTE_FALLBACK_REJECTED", "ROUTE_CHANGE_REVIEW_REQUIRED", "STALE_INTENT_REJECTED",
   "ASSIGNMENT_CHANGED_REVIEW_REQUIRED", "NO_RESERVATION"}
Results ==
  Decisions \cup {"none", "RESERVED_NEW", "stored", "CONCURRENT_UPDATE_REVIEW_REQUIRED", "error"}
Calls ==
  [stage : {"idle", "create", "raced", "gated", "mark", "ambiguous"}, request : SUBSET Requests,
   at : 0..MaxTime, seen : SUBSET Records, result : Results]
TypeOK ==
  /\ record \in [Scopes -> SUBSET Records]
  /\ call \in [Workers -> Calls]
  /\ opened \in [Scopes -> Nat]
  /\ marks \subseteq Scopes \X Requests \X Times

\* However the callers race, one scoped key opens one logical workflow.
OneLogicalWorkflow ==
  \A s \in Scopes : opened[s] <= 1

\* Every external mutation of a key that was certified went over the reserved
\* route, for the reserved intent and assignment, before the intent was stale:
\* a retry never falls back to another route, whatever it read and when.
MarksKeepThePins ==
  \A m \in marks : \E r \in record[m[1]] :
    /\ r.digest = m[2].digest
    /\ r.route = m[2].route
    /\ r.assignment = m[2].assignment
    /\ m[3] <= r.expires

\* Once the outcome is ambiguous the reservation is left to reconciliation: no
\* mark or retry that read it earlier is stored any more.
ReconciliationIsFinal ==
  [][\A s \in Scopes : \A r \in record[s] :
       r.state = "RECONCILIATION_REQUIRED" =>
         record'[s] \in {record[s], {[r EXCEPT !.revision = 1]}}]_vars

\* Through the store, the calls of several workers are the life of one reservation
\* per key: reserved once, marked within its validity, then left to reconciliation.
PhaseOf(stored) ==
  IF stored = {} THEN "none"
  ELSE IF \E r \in stored : r.state = "RESERVED_SYNTHETIC" THEN "reserved"
  ELSE IF \E r \in stored : r.state = "POSSIBLE_EXTERNAL_MUTATION" THEN "possible"
  ELSE "reconcile"
PinsOf(stored) ==
  {[digest |-> r.digest, route |-> r.route, assignment |-> r.assignment, expires |-> r.expires] :
     r \in stored}
FirstMark(stored) == IF stored = {} THEN 0 ELSE (CHOOSE r \in stored : TRUE).markedAt

Promise == INSTANCE WorkflowReservation WITH
  Pins <- [digest : Digests, route : Routes, assignment : Assignments, expires : Times],
  phase <- [s \in Scopes |-> PhaseOf(record[s])],
  pins <- [s \in Scopes |-> PinsOf(record[s])],
  first <- [s \in Scopes |-> FirstMark(record[s])]
ImplementsReservation == Promise!Spec
=============================================================================
