----------------------------- MODULE HumanReview ----------------------------
(***************************************************************************)
(* One human-review case as the workers that share its record file run it: *)
(* a transition loads the record, decides on what it loaded and stores the *)
(* next record if the revision has not moved.  Reviewers retry a request   *)
(* under its idempotency key, at any worker, after errors and crashes.     *)
(***************************************************************************)
EXTENDS Naturals, Sequences

CONSTANTS
  Workers,
  Requests,      \* records with key, role, action, expected and scoped
  ReviewRoles,   \* of the case, those that may act
  HistoryLimit   \* 512 events in the code

Roles == {"SUPERVISOR", "OPERATIONS"}
Owners == Roles \cup {"EXTERNAL"}
Statuses == {"PENDING", "IN_REVIEW", "ESCALATED", "EXTERNAL_AUTHORITY_REQUIRED", "RESOLVED", "CLOSED"}

VARIABLES
  record,    \* of the case, on file: its events are its revision and its receipts
  loaded,    \* [Workers -> {} or {the record a transition has loaded}]
  call,      \* [Workers -> {} or {its request}]
  answered   \* [request, revision] that a reviewer was given as the result

vars == <<record, loaded, call, answered>>

\* The role of an actor is its user, and the internal owner it acts for.
Events == [request : Requests, from : Statuses, to : Statuses, ownerFrom : Owners, ownerTo : Owners]

\* createInitialHumanReviewRecord of a case that waits for a reviewer, or for
\* an external authority.
Init ==
  /\ \/ record \in [status : {"PENDING"}, owner : ReviewRoles, assigned : {"none"}, events : {<<>>}]
     \/ record \in [status : {"EXTERNAL_AUTHORITY_REQUIRED"}, owner : {"EXTERNAL"}, assigned : {"none"},
                    events : {<<>>}]
  /\ loaded = [w \in Workers |-> {}]
  /\ call = [w \in Workers |-> {}]
  /\ answered = {}

-----------------------------------------------------------------------------
\* HumanReviewActionTargetStatus.
Target ==
  [CLAIM |-> "IN_REVIEW", UNCLAIM |-> "PENDING", ESCALATE |-> "ESCALATED", RETURN_TO_REVIEW |-> "IN_REVIEW",
   REQUIRE_EXTERNAL_AUTHORITY |-> "EXTERNAL_AUTHORITY_REQUIRED", RECORD_EXTERNAL_RESPONSE |-> "IN_REVIEW",
   RESOLVE |-> "RESOLVED", CLOSE |-> "CLOSED"]

\* LIFECYCLE_TRANSITIONS.
Transitions ==
  [PENDING |-> {"IN_REVIEW"}, ESCALATED |-> {"IN_REVIEW"}, EXTERNAL_AUTHORITY_REQUIRED |-> {"IN_REVIEW"},
   IN_REVIEW |-> {"PENDING", "ESCALATED", "EXTERNAL_AUTHORITY_REQUIRED", "RESOLVED"},
   RESOLVED |-> {"CLOSED"}, CLOSED |-> {}]

Externalizations(r) ==
  {i \in DOMAIN r.events : r.events[i].request.action = "REQUIRE_EXTERNAL_AUTHORITY"}

\* Whoever owned the case before it was last handed to the external authority,
\* or the only role that reviews it.
ReturnOwners(r) ==
  IF Externalizations(r) # {}
  THEN {r.events[i].ownerFrom : i \in {j \in Externalizations(r) : \A k \in Externalizations(r) : k <= j}}
  ELSE {role \in ReviewRoles : ReviewRoles = {role}}

\* Mutant: whoever may act on the case may take the response.
OwnsMut(r, request) ==
  IF request.action = "RECORD_EXTERNAL_RESPONSE"
  THEN r.status = "EXTERNAL_AUTHORITY_REQUIRED" /\ r.owner = "EXTERNAL"
  ELSE /\ r.owner = request.role
       /\ r.assigned = (IF request.action = "CLAIM" THEN "none" ELSE request.role)

\* assertActionOwnership.
Owns(r, request) ==
  IF request.action = "RECORD_EXTERNAL_RESPONSE"
  THEN /\ r.status = "EXTERNAL_AUTHORITY_REQUIRED" /\ r.owner = "EXTERNAL"
       /\ request.role \in ReturnOwners(r)
  ELSE /\ r.owner = request.role
       /\ r.assigned = (IF request.action = "CLAIM" THEN "none" ELSE request.role)

\* What transition asks of the record it loaded, after the receipts.
Allowed(r, request) ==
  /\ Len(r.events) + 1 = request.expected
  /\ Len(r.events) < HistoryLimit
  /\ Target[request.action] \in Transitions[r.status]
  /\ Owns(r, request)
  /\ request.action = "RECORD_EXTERNAL_RESPONSE" => request.scoped

OwnerAfter(r, request) ==
  CASE request.action = "REQUIRE_EXTERNAL_AUTHORITY" -> "EXTERNAL"
    [] request.action = "RECORD_EXTERNAL_RESPONSE" -> request.role
    [] OTHER -> r.owner

AssignedAfter(r, request) ==
  CASE request.action \in {"CLAIM", "RETURN_TO_REVIEW", "RECORD_EXTERNAL_RESPONSE"} -> request.role
    [] request.action \in {"UNCLAIM", "REQUIRE_EXTERNAL_AUTHORITY"} -> "none"
    [] OTHER -> r.assigned

\* buildNextRecord.
NextRecord(r, request) ==
  [status |-> Target[request.action], owner |-> OwnerAfter(r, request), assigned |-> AssignedAfter(r, request),
   events |-> Append(r.events, [request |-> request, from |-> r.status, to |-> Target[request.action],
                                ownerFrom |-> r.owner, ownerTo |-> OwnerAfter(r, request)])]

\* The receipts of a key.
Receipts(r, key) == {i \in DOMAIN r.events : r.events[i].request.key = key}

-----------------------------------------------------------------------------
Done(w) == loaded' = [loaded EXCEPT ![w] = {}] /\ call' = [call EXCEPT ![w] = {}]

\* A call is let in to the case and loads its record.
Load(w, request) ==
  /\ call[w] = {} /\ request.role \in ReviewRoles
  /\ call' = [call EXCEPT ![w] = {request}]
  /\ loaded' = [loaded EXCEPT ![w] = {record}]
  /\ UNCHANGED <<record, answered>>

\* The receipt answers a request that was applied.
Replay(w) ==
  \E request \in call[w], r \in loaded[w] : \E i \in Receipts(r, request.key) :
    /\ r.events[i].request = request
    /\ answered' = answered \cup {[request |-> request, revision |-> i + 1]}
    /\ Done(w) /\ UNCHANGED record

\* A conflicting key, a stale revision or a transition that is denied.
Refuse(w) ==
  \E request \in call[w], r \in loaded[w] :
    /\ IF Receipts(r, request.key) = {} THEN ~Allowed(r, request)
       ELSE \A i \in Receipts(r, request.key) : r.events[i].request # request
    /\ Done(w) /\ UNCHANGED <<record, answered>>

\* Mutant: the revision is not compared again.
StoreMut(w) ==
  \E request \in call[w], r \in loaded[w] :
    /\ Receipts(r, request.key) = {} /\ Allowed(r, request)
    /\ record' = NextRecord(r, request)
    /\ answered' = answered \cup {[request |-> request, revision |-> Len(r.events) + 2]}
    /\ Done(w)

\* compareAndSet finds the revision it loaded.  The caller gets the result, or an
\* error when what follows the write throws or the worker dies.
Store(w) ==
  \E request \in call[w], r \in loaded[w] :
    /\ Receipts(r, request.key) = {} /\ Allowed(r, request)
    /\ Len(record.events) = Len(r.events)
    /\ record' = NextRecord(r, request)
    /\ \/ answered' = answered \cup {[request |-> request, revision |-> Len(r.events) + 2]}
       \/ UNCHANGED answered
    /\ Done(w)

\* compareAndSet finds another revision, is locked out or throws before the
\* write, or the worker dies.
NotStored(w) ==
  /\ call[w] # {} /\ Done(w) /\ UNCHANGED <<record, answered>>

Next ==
  \E w \in Workers :
    \/ \E request \in Requests : Load(w, request)
    \/ Replay(w) \/ Refuse(w) \/ Store(w) \/ NotStored(w)

Spec == Init /\ [][Next]_vars

-----------------------------------------------------------------------------
Records ==
  [status : Statuses, owner : Owners, assigned : Roles \cup {"none"}, events : Seq(Events)]

\* With the two refinements of the record's schema that name its state: a case
\* has a reviewer unless it waits, and is the external authority's exactly while
\* it says so.
TypeOK ==
  /\ record \in Records
  /\ loaded \in [Workers -> SUBSET Records] /\ call \in [Workers -> SUBSET Requests]
  /\ answered \subseteq [request : Requests, revision : Nat]
  /\ record.assigned = "none" <=> record.status \in {"PENDING", "EXTERNAL_AUTHORITY_REQUIRED"}
  /\ record.owner = "EXTERNAL" <=> record.status = "EXTERNAL_AUTHORITY_REQUIRED"

\* What a reviewer was told happened at a revision is what the record says of
\* it, for ever, and no key has two events, however often and wherever the
\* request was sent.
ToldHolds ==
  /\ \A a \in answered : a.revision - 1 \in DOMAIN record.events /\ record.events[a.revision - 1].request = a.request
  /\ \A i, j \in DOMAIN record.events :
       record.events[i].request.key = record.events[j].request.key => i = j

Act(i) == record.events[i].request.action
Takes == {"CLAIM", "RECORD_EXTERNAL_RESPONSE"}
Drops == {"UNCLAIM", "REQUIRE_EXTERNAL_AUTHORITY"}

\* Whatever was done to the case was done by the reviewer who had taken it and
\* not given it up since, and a response of the external authority returns the
\* case to the role that had handed it over.
ReviewerActs ==
  \A i \in DOMAIN record.events :
    /\ Act(i) \notin Takes => \E j \in 1..(i - 1) :
         /\ Act(j) \in Takes /\ record.events[j].request.role = record.events[i].request.role
         /\ \A k \in (j + 1)..(i - 1) : Act(k) \notin Takes \cup Drops
    /\ \A j \in 1..(i - 1) : Act(j) = "REQUIRE_EXTERNAL_AUTHORITY" /\ Act(i) = "RECORD_EXTERNAL_RESPONSE" =>
         record.events[j].ownerFrom = record.events[i].ownerTo
=============================================================================
