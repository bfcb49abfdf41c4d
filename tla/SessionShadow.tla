---------------------------- MODULE SessionShadow ---------------------------
(***************************************************************************)
(* Sessions on files, and their rows in PostgreSQL.  In canary mode a      *)
(* request is let through when the file admits it and the row agrees: a    *)
(* session is filed, then published, then given to the client, and a       *)
(* logout removes the file, then the row.  The operator's jobs bring the   *)
(* rows of sessions and of hub workflow intents up to date from the files, *)
(* each in one transaction that is open across several statements, while   *)
(* the server goes on.                                                     *)
(***************************************************************************)
EXTENDS Naturals, FiniteSets

CONSTANTS
  Sessions,      \* identifiers: a session is never filed twice
  Intents,
  Jobs,
  MaxRevision    \* bound on the revisions of an intent's file

Items == Sessions \cup Intents

VARIABLES
  mode,       \* of the server: down, filesystem or canary
  file,       \* [Items -> revision on file, or 0]
  expired,    \* sessions whose time is over
  row,        \* [Items -> {} or {its row}], as committed
  job,        \* [Jobs -> the state of its transaction]
  start,      \* [Sessions -> how far its start is: "given" to a client, or "over"]
  request     \* [Sessions -> how far a request with it is]: other requests of a
              \* session only read, or log it out again

serverVars == <<mode, start, request>>
vars == <<serverVars, file, expired, row, job>>

Row(revision, state) == {[revision |-> revision, state |-> state]}
Idle == [stage |-> "idle"]

Init ==
  /\ mode = "down"
  /\ file = [x \in Items |-> 0] /\ row = [x \in Items |-> {}] /\ expired = {}
  /\ job = [j \in Jobs |-> Idle]
  /\ start = [s \in Sessions |-> "not yet"] /\ request = [s \in Sessions |-> "none"]

-----------------------------------------------------------------------------
\* planInternal, of one record: what its file and its row ask for.
Status(source, r, over) ==
  CASE r = {} -> IF source = 0 \/ over THEN "NONE" ELSE "CREATE_REQUIRED"
    [] r # {} /\ over -> "EXPIRE_DELETE_REQUIRED"
    [] r # {} /\ ~over /\ source = 0 ->
         IF r = Row((CHOOSE q \in r : TRUE).revision, "PRESENT")
         THEN "SOURCE_MISSING_MARK_REQUIRED" ELSE "SOURCE_MISSING_REVIEW_REQUIRED"
    [] r # {} /\ ~over /\ source > 0 ->
         LET q == CHOOSE q \in r : TRUE IN
         CASE source < q.revision -> "CONFLICT_DATABASE_AHEAD"
           [] source > q.revision -> "UPDATE_REQUIRED"
           [] OTHER -> IF q.state = "PRESENT" THEN "MATCHED" ELSE "RESTORE_REQUIRED"

Writes == {"CREATE_REQUIRED", "UPDATE_REQUIRED", "RESTORE_REQUIRED", "EXPIRE_DELETE_REQUIRED",
           "SOURCE_MISSING_MARK_REQUIRED"}

Plan(seen, over, rows) == [x \in Items |-> Status(seen[x], rows[x], x \in over)]

\* What the transaction of a job sees, and the rows it has locked.
Staged(j) == IF job[j].stage \in {"writing", "rechecked"} THEN DOMAIN job[j].staged ELSE {}
View(j) == [x \in Items |-> IF x \in Staged(j) THEN job[j].staged[x] ELSE row[x]]
Locked(x) == \E j \in Jobs : x \in Staged(j)

Abort(j) ==
  /\ job[j] # Idle
  /\ job' = [job EXCEPT ![j] = Idle]
  /\ UNCHANGED <<serverVars, file, expired, row>>

\* The files are looked at before the transaction begins.
Discover(j) ==
  /\ job[j] = Idle
  /\ job' = [job EXCEPT ![j] = [stage |-> "discovered", seen |-> file, over |-> expired]]
  /\ UNCHANGED <<serverVars, file, expired, row>>

MakePlan(j) ==
  /\ job[j].stage = "discovered"
  /\ LET plan == Plan(job[j].seen, job[j].over, row) IN
       /\ \A x \in Items : plan[x] # "CONFLICT_DATABASE_AHEAD"
       /\ job' = [job EXCEPT ![j] =
            [stage |-> "writing", seen |-> job[j].seen, over |-> job[j].over, staged |-> <<>>,
             todo |-> {[item |-> x, status |-> plan[x]] : x \in {y \in Items : plan[y] \in Writes}}]]
  /\ UNCHANGED <<serverVars, file, expired, row>>

\* applyPlan, of one record: the row as it is now and what becomes of it.  A row
\* that is not as planned is a conflict, which aborts.  Sessions come first.
Applicable(j, w) ==
  CASE w.status = "CREATE_REQUIRED" -> row[w.item] = {}
    [] w.status = "RESTORE_REQUIRED" -> \E r \in row[w.item] : r.revision = job[j].seen[w.item]
    [] w.status = "EXPIRE_DELETE_REQUIRED" -> TRUE
    [] OTHER -> row[w.item] # {}

Applied(j, w) ==
  CASE w.status \in {"CREATE_REQUIRED", "UPDATE_REQUIRED"} -> Row(job[j].seen[w.item], "PRESENT")
    [] w.status = "RESTORE_REQUIRED" -> {[r EXCEPT !.state = "PRESENT"] : r \in row[w.item]}
    [] w.status = "EXPIRE_DELETE_REQUIRED" -> {}
    [] OTHER -> {[r EXCEPT !.state = "SOURCE_MISSING_REVIEW_REQUIRED"] : r \in row[w.item]}

Write(j) ==
  /\ job[j].stage = "writing"
  /\ \E w \in job[j].todo :
       /\ w.item \in Intents => \A v \in job[j].todo : v.item \in Intents
       /\ ~Locked(w.item) /\ Applicable(j, w)
       /\ job' = [job EXCEPT ![j].todo = @ \ {w},
                             ![j].staged = [x \in DOMAIN @ \cup {w.item} |->
                                              IF x = w.item THEN Applied(j, w) ELSE @[x]]]
  /\ UNCHANGED <<serverVars, file, expired, row>>

\* Mutant: the files are not looked at again.
RecheckMut(j) ==
  /\ job[j].stage = "writing" /\ job[j].todo = {}
  /\ job' = [job EXCEPT ![j].stage = "rechecked"]
  /\ UNCHANGED <<serverVars, file, expired, row>>

\* The files are looked at again, with the time of the first look.
Recheck(j) ==
  /\ job[j].stage = "writing" /\ job[j].todo = {} /\ file = job[j].seen
  /\ job' = [job EXCEPT ![j].stage = "rechecked"]
  /\ UNCHANGED <<serverVars, file, expired, row>>

\* verifyInternal finds nothing left to do, and the transaction commits.
Commit(j) ==
  /\ job[j].stage = "rechecked"
  /\ \A x \in Items : Plan(job[j].seen, job[j].over, View(j))[x] \notin Writes \cup {"CONFLICT_DATABASE_AHEAD"}
  /\ row' = View(j)
  /\ job' = [job EXCEPT ![j] = Idle]
  /\ UNCHANGED <<serverVars, file, expired>>

-----------------------------------------------------------------------------
\* Mutant: a canary starts although sessions have no row.
PreflightMut ==
  \A s \in Sessions : Plan(file, expired, row)[s] \in {"NONE", "MATCHED", "CREATE_REQUIRED"}

\* preflight: every session on file has its row, and no other row is there.
Preflight == \A s \in Sessions : Plan(file, expired, row)[s] \in {"NONE", "MATCHED"}

Boot ==
  /\ mode = "down"
  /\ mode' = "filesystem" \/ (mode' = "canary" /\ Preflight)
  /\ UNCHANGED <<start, request, file, expired, row, job>>

\* The process stops, wherever its requests are.
Stop ==
  /\ mode # "down" /\ mode' = "down"
  /\ start' = [s \in Sessions |-> IF start[s] \in {"filed", "published"} THEN "over" ELSE start[s]]
  /\ request' = [s \in Sessions |-> IF request[s] = "removed" THEN "removed" ELSE "none"]
  /\ UNCHANGED <<file, expired, row, job>>

\* createSession files the session.  Without the canary the client has it; or the
\* save throws after the file is in place.
Start(s) ==
  /\ mode # "down" /\ start[s] = "not yet"
  /\ file' = [file EXCEPT ![s] = 1]
  /\ \E next \in {IF mode = "canary" THEN "filed" ELSE "given", "over"} : start' = [start EXCEPT ![s] = next]
  /\ UNCHANGED <<mode, request, expired, row, job>>

\* The transaction of publishCreatedSession, which waits for a job's lock.
Publish(s) ==
  /\ start[s] = "filed" /\ ~Locked(s)
  /\ row[s] \in {{}, Row(1, "PRESENT")}
  /\ row' = [row EXCEPT ![s] = Row(1, "PRESENT")]
  /\ start' = [start EXCEPT ![s] = "published"]
  /\ UNCHANGED <<mode, request, file, expired, job>>

Started(s) ==
  /\ start[s] = "published" /\ start' = [start EXCEPT ![s] = "given"]
  /\ UNCHANGED <<mode, request, file, expired, row, job>>

\* Publication fails, or its answer is lost: the file is removed, unless that
\* throws too.
PublishFails(s) ==
  /\ start[s] \in {"filed", "published"} /\ start' = [start EXCEPT ![s] = "over"]
  /\ file' \in {file, [file EXCEPT ![s] = 0]}
  /\ UNCHANGED <<mode, request, expired, row, job>>

\* The file admits a request.
Authenticated(s) == start[s] = "given" /\ file[s] > 0 /\ s \notin expired

Authenticate(s) ==
  /\ mode = "canary" /\ request[s] = "none" /\ Authenticated(s)
  /\ request' = [request EXCEPT ![s] = "reading"]
  /\ UNCHANGED <<mode, start, file, expired, row, job>>

\* readVerifiedSession: the row agrees, or the request is denied.
Read(s) ==
  /\ request[s] = "reading"
  /\ request' = [request EXCEPT ![s] = IF row[s] = Row(1, "PRESENT") THEN "admitted" ELSE "none"]
  /\ UNCHANGED <<mode, start, file, expired, row, job>>

\* A request that is no logout is over.
Answer(s) ==
  /\ request[s] = "admitted" /\ request' = [request EXCEPT ![s] = "none"]
  /\ UNCHANGED <<mode, start, file, expired, row, job>>

\* revoke, in a request of an admitted session; without the canary the file admits.
Logout(s) ==
  /\ \/ request[s] = "admitted" /\ request' = [request EXCEPT ![s] = "removing"]
     \/ mode = "filesystem" /\ Authenticated(s) /\ UNCHANGED request
  /\ file' = [file EXCEPT ![s] = 0]
  /\ UNCHANGED <<mode, start, expired, row, job>>

\* removeRevokedSessionShadow waits for a job's lock of a row, but does not see
\* one that a job has inserted.
RemoveShadow(s) ==
  /\ request[s] = "removing" /\ (row[s] = {} \/ ~Locked(s))
  /\ request' = [request EXCEPT ![s] = "removed"]
  /\ row' = [row EXCEPT ![s] = {}]
  /\ UNCHANGED <<mode, start, file, expired, job>>

\* REVIEW_REQUIRED.
RemoveFails(s) ==
  /\ request[s] = "removing" /\ request' = [request EXCEPT ![s] = "none"]
  /\ row' = row \/ (~Locked(s) /\ row' = [row EXCEPT ![s] = {}])
  /\ UNCHANGED <<mode, start, file, expired, job>>

\* Time, and the sweep or the request that removes an expired session.
Expire(s) ==
  /\ start[s] # "not yet" /\ s \notin expired /\ expired' = expired \cup {s}
  /\ UNCHANGED <<serverVars, file, row, job>>

Sweep(s) ==
  /\ mode # "down" /\ s \in expired /\ file[s] > 0
  /\ file' = [file EXCEPT ![s] = 0]
  /\ UNCHANGED <<serverVars, expired, row, job>>

\* The reservation of a hub workflow intent moves on.
Advance(i) ==
  /\ file[i] < MaxRevision /\ file' = [file EXCEPT ![i] = @ + 1]
  /\ UNCHANGED <<serverVars, expired, row, job>>

Next ==
  \/ \E j \in Jobs : Discover(j) \/ MakePlan(j) \/ Write(j) \/ Recheck(j) \/ Commit(j) \/ Abort(j)
  \/ Boot \/ Stop
  \/ \E s \in Sessions :
       \/ Start(s) \/ Publish(s) \/ Started(s) \/ PublishFails(s)
       \/ Authenticate(s) \/ Read(s) \/ Answer(s) \/ Logout(s) \/ RemoveShadow(s) \/ RemoveFails(s)
       \/ Expire(s) \/ Sweep(s)
  \/ \E i \in Intents : Advance(i)

Spec == Init /\ [][Next]_vars

-----------------------------------------------------------------------------
Rows == [revision : 1..MaxRevision, state : {"PRESENT", "SOURCE_MISSING_REVIEW_REQUIRED"}]

TypeOK ==
  /\ mode \in {"down", "filesystem", "canary"}
  /\ file \in [Items -> 0..MaxRevision] /\ row \in [Items -> SUBSET Rows]
  /\ \A x \in Items : Cardinality(row[x]) <= 1
  /\ expired \subseteq Sessions
  /\ start \in [Sessions -> {"not yet", "filed", "published", "given", "over"}]
  /\ request \in [Sessions -> {"none", "reading", "admitted", "removing", "removed"}]
  /\ \A x \in Items : Cardinality({j \in Jobs : x \in Staged(j)}) <= 1

\* No job gets in the way of the sessions that are in use: in canary mode, whoever
\* has a session whose file is there and whose time is not over has a row that
\* agrees, whatever jobs have seen of the files before.
LiveSessionIsServed ==
  mode = "canary" =>
    \A s \in Sessions \ expired : start[s] = "given" /\ file[s] > 0 => row[s] = Row(1, "PRESENT")

\* A logout that is told REMOVED is final while the session's time is not over: no
\* job brings the row back, so that no later canary is refused for it.
RemovedStaysRemoved ==
  \A s \in Sessions \ expired : request[s] = "removed" => row[s] = {}

\* The row of an intent never goes back to an older revision, although a job
\* writes what it saw before other jobs did.
IntentNeverRegresses ==
  [][\A i \in Intents : \A r \in row[i] : \E q \in row'[i] : q.revision >= r.revision]_vars

\* "If the source changed during synchronization, the transaction rolls back".
CommitSeesTheSource ==
  [][\A j \in Jobs : job[j].stage = "rechecked" /\ job'[j] = Idle /\ row' # row => file = job[j].seen]_vars
=============================================================================
