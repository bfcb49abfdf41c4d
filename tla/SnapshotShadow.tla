---------------------------- MODULE SnapshotShadow --------------------------
(***************************************************************************)
(* The operator's jobs that keep rows of the server's snapshot files in    *)
(* PostgreSQL: sync, import and rollback.  A job first reads the files one *)
(* after another, then works on the rows, each statement a transaction of  *)
(* its own, while the server writes the files, other jobs run, and rows    *)
(* may pass into PostgreSQL's own hands.                                   *)
(***************************************************************************)
EXTENDS Naturals, FiniteSets

CONSTANTS
  StoreCount,    \* snapshot files a job looks at, in their order (6 in the code)
  Workers,       \* jobs that may run at once
  MaxVersion,    \* bound on the writes of a file
  MaxRowRevision,
  AuditLimit,    \* events that audit.json keeps (1 000 in the code)
  MaxEvents      \* bound on the audit events recorded

Stores == 1..StoreCount
Operations == {"sync", "import", "rollback"}

VARIABLES
  file,       \* [Stores -> which write the file holds, 0 without a file]
  events,     \* audit events recorded so far
  row,        \* [Stores -> {} or {its row}]
  eventRow,   \* the audit events that have a row
  job,        \* [Workers -> the job under way]
  removed     \* history: stores whose row was removed

vars == <<file, events, row, eventRow, job, removed>>

FileKind == "SYNTHETIC_FILESYSTEM"
PostgresKind == "SYNTHETIC_POSTGRES"
Row(revision, payload, kind) == [revision |-> revision, payload |-> payload, kind |-> kind]
Rows == {Row(n, v, k) : n \in 1..MaxRowRevision, v \in 0..MaxVersion, k \in {FileKind, PostgresKind}}

NothingSeen == [s \in Stores |-> 0]
NothingLoaded == [s \in Stores |-> {}]
Idle == [operation |-> "none", stage |-> "idle", todo |-> {}, seen |-> NothingSeen,
         loaded |-> NothingLoaded, audit |-> {}]

Init ==
  /\ file = NothingSeen /\ events = 0
  /\ row = NothingLoaded /\ eventRow = {}
  /\ job = [j \in Workers |-> Idle]
  /\ removed = {}

-----------------------------------------------------------------------------
\* The server saves a store, or records an audit event; saves keep the last ones.
SaveFile(s) ==
  /\ file[s] < MaxVersion /\ file' = [file EXCEPT ![s] = @ + 1]
  /\ UNCHANGED <<events, row, eventRow, job, removed>>

RecordEvent ==
  /\ events < MaxEvents /\ events' = events + 1
  /\ UNCHANGED <<file, row, eventRow, job, removed>>

AuditFile == {e \in 1..events : e + AuditLimit > events}

\* A row is given over to PostgreSQL, through the same boundary.
PostgresWrites(s) ==
  /\ \/ row[s] = {} /\ row' = [row EXCEPT ![s] = {Row(1, 0, PostgresKind)}]
     \/ \E r \in row[s] : r.revision < MaxRowRevision
          /\ row' = [row EXCEPT ![s] = {Row(r.revision + 1, 0, PostgresKind)}]
  /\ UNCHANGED <<file, events, eventRow, job, removed>>

-----------------------------------------------------------------------------
First(stores) == CHOOSE s \in stores : \A t \in stores : s <= t
Present(j) == {s \in Stores : job[j].seen[s] > 0}

To(j, next) == job' = [job EXCEPT ![j] = next]
Done(j, s) == [job[j] EXCEPT !.todo = @ \ {s}]

\* A job throws, for what it finds, a database error or a stop of its process.
Throw(j) ==
  /\ job[j] # Idle /\ To(j, Idle)
  /\ UNCHANGED <<file, events, row, eventRow, removed>>

Begin(j, operation) ==
  /\ job[j] = Idle
  /\ To(j, [Idle EXCEPT !.operation = operation, !.stage = "discovering", !.todo = Stores])
  /\ UNCHANGED <<file, events, row, eventRow, removed>>

\* discoverD1SyntheticFilesystemState: the files in order, then the audit file.
ReadFile(j) ==
  /\ job[j].stage = "discovering" /\ job[j].todo # {}
  /\ LET s == First(job[j].todo) IN To(j, [Done(j, s) EXCEPT !.seen[s] = file[s]])
  /\ UNCHANGED <<file, events, row, eventRow, removed>>

ReadAudit(j) ==
  /\ job[j].stage = "discovering" /\ job[j].todo = {}
  /\ To(j, [job[j] EXCEPT !.stage = IF job[j].operation = "sync" THEN "planning" ELSE "loading",
                          !.todo = Present(j), !.audit = AuditFile])
  /\ UNCHANGED <<file, events, row, eventRow, removed>>

\* planD1SyntheticFilesystemShadowSync: the rows in order, before any is written.
Plan(j) ==
  /\ job[j].stage = "planning" /\ job[j].todo # {}
  /\ LET s == First(job[j].todo) IN To(j, [Done(j, s) EXCEPT !.loaded[s] = row[s]])
  /\ UNCHANGED <<file, events, row, eventRow, removed>>

Planned(j) ==
  /\ job[j].stage = "planning" /\ job[j].todo = {}
  /\ \A s \in Stores : \A r \in job[j].loaded[s] : r.kind = FileKind
  /\ To(j, [job[j] EXCEPT !.stage = "writing", !.todo = Present(j)])
  /\ UNCHANGED <<file, events, row, eventRow, removed>>

\* An import and a rollback load each row just before they write it.  The import
\* throws for a row that is not of this file, the rollback for another digest.
Load(j) ==
  /\ job[j].stage = "loading" /\ job[j].todo # {}
  /\ LET s == First(job[j].todo) IN
       /\ \A r \in row[s] :
            r.payload = job[j].seen[s] /\ (job[j].operation = "import" => r.kind = FileKind)
       /\ To(j, [job[j] EXCEPT !.stage = "writing", !.loaded[s] = row[s]])
  /\ UNCHANGED <<file, events, row, eventRow, removed>>

\* Mutant: the insert is an upsert, which takes whatever row is there.
CompareAndSwapMut(s, expected, payload) ==
  \/ expected = {} /\ row' = [row EXCEPT ![s] = {Row(1, payload, FileKind)}]
  \/ \E r \in expected, now \in row[s] :
       /\ now.revision = r.revision /\ r.revision < MaxRowRevision
       /\ row' = [row EXCEPT ![s] = {Row(r.revision + 1, payload, FileKind)}]

\* compareAndSwap: an insert where there is no row, or an update of the revision
\* that was loaded, whatever row has it by now.
CompareAndSwap(s, expected, payload) ==
  \/ /\ expected = {} /\ row[s] = {}
     /\ row' = [row EXCEPT ![s] = {Row(1, payload, FileKind)}]
  \/ \E r \in expected, now \in row[s] :
       /\ now.revision = r.revision /\ r.revision < MaxRowRevision
       /\ row' = [row EXCEPT ![s] = {Row(r.revision + 1, payload, FileKind)}]

Matches(j, s) == \E r \in job[j].loaded[s] : r.payload = job[j].seen[s]
Onward(j) == IF job[j].operation = "sync" THEN "writing" ELSE "loading"

Write(j) ==
  /\ job[j].stage = "writing" /\ job[j].todo # {} /\ job[j].operation # "rollback"
  /\ LET s == First(job[j].todo) IN
       /\ IF Matches(j, s) THEN UNCHANGED row
          ELSE CompareAndSwap(s, job[j].loaded[s], job[j].seen[s])
       /\ To(j, [Done(j, s) EXCEPT !.stage = Onward(j)])
  /\ UNCHANGED <<file, events, eventRow, removed>>

\* removeSyntheticFilesystemShadow: what is not there any more is passed over.
Remove(j) ==
  /\ job[j].stage = "writing" /\ job[j].todo # {} /\ job[j].operation = "rollback"
  /\ LET s == First(job[j].todo)
         gone == {now \in row[s] : now.kind = FileKind
                                   /\ \E r \in job[j].loaded[s] : r.revision = now.revision}
     IN /\ row' = [row EXCEPT ![s] = @ \ gone]
        /\ removed' = IF gone = {} THEN removed ELSE removed \cup {s}
        /\ To(j, [Done(j, s) EXCEPT !.stage = "loading"])
  /\ UNCHANGED <<file, events, eventRow>>

\* The audit events, one statement each; one that has a row is passed over.  A
\* rollback leaves them and ends.
Written(j) ==
  /\ job[j].stage = Onward(j) /\ job[j].todo = {}
  /\ To(j, IF job[j].operation = "rollback" THEN Idle ELSE [job[j] EXCEPT !.stage = "appending"])
  /\ UNCHANGED <<file, events, row, eventRow, removed>>

Append(j) ==
  /\ job[j].stage = "appending"
  /\ \E e \in job[j].audit :
       /\ \A f \in job[j].audit : e <= f
       /\ eventRow' = eventRow \cup {e}
       /\ To(j, [job[j] EXCEPT !.audit = @ \ {e}])
  /\ UNCHANGED <<file, events, row, removed>>

Appended(j) ==
  /\ job[j].stage = "appending" /\ job[j].audit = {}
  /\ To(j, IF job[j].operation = "import" THEN Idle
           ELSE [job[j] EXCEPT !.stage = "verifying", !.todo = Present(j)])
  /\ UNCHANGED <<file, events, row, eventRow, removed>>

\* verifyD1SyntheticFilesystemShadow, against what was discovered.
Verify(j) ==
  /\ job[j].stage = "verifying"
  /\ IF job[j].todo = {} THEN To(j, Idle)
     ELSE LET s == First(job[j].todo) IN
            /\ \E r \in row[s] : r.kind = FileKind /\ r.payload = job[j].seen[s]
            /\ To(j, Done(j, s))
  /\ UNCHANGED <<file, events, row, eventRow, removed>>

Next ==
  \/ \E s \in Stores : SaveFile(s) \/ PostgresWrites(s)
  \/ RecordEvent
  \/ \E j \in Workers :
       \/ \E operation \in Operations : Begin(j, operation)
       \/ ReadFile(j) \/ ReadAudit(j) \/ Plan(j) \/ Planned(j) \/ Load(j) \/ Write(j)
       \/ Remove(j) \/ Written(j) \/ Append(j) \/ Appended(j) \/ Verify(j) \/ Throw(j)

Spec == Init /\ [][Next]_vars

-----------------------------------------------------------------------------
TypeOK ==
  /\ file \in [Stores -> 0..MaxVersion] /\ events \in 0..MaxEvents
  /\ row \in [Stores -> SUBSET Rows] /\ \A s \in Stores : Cardinality(row[s]) <= 1
  /\ eventRow \subseteq 1..events /\ removed \subseteq Stores
  /\ \A j \in Workers : job[j].todo \subseteq Stores /\ job[j].audit \subseteq 1..events

\* A step of a job that changes a row changes the one the job loaded.
ReplacesLoaded ==
  \A j \in Workers, s \in Stores :
    job'[j] # job[j] /\ row'[s] # row[s] /\ s \notin removed => row[s] = job[j].loaded[s]

\* A concurrent change is a conflict, never a silent overwrite: the row a job
\* replaces or removes is the one it loaded, as long as no rollback has made the
\* revisions of that row begin again.
ReplacesWhatItLoaded == [][ReplacesLoaded]_vars

\* "sync applies only missing or older filesystem-owned shadow snapshots"
\* (D1_CONTROLLED_SHADOW_SYNC.md).
OlderIsReplaced ==
  [][\A j \in Workers, s \in Stores :
       job'[j] # job[j] => \A r \in row[s], q \in row'[s] : q.payload >= r.payload]_vars
=============================================================================
