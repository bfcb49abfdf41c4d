-------------------------- MODULE ServerStoresProofs ------------------------
(***************************************************************************)
(* Proofs about the stores of the server.  Each store has an inductive     *)
(* invariant of its own, which its operations keep; the theorems at the    *)
(* end put them together, for every value of the constants.                *)
(***************************************************************************)
EXTENDS MCServerStores, Sequences, FiniteSetTheorems, WellFoundedInduction, TLAPS

-----------------------------------------------------------------------------
(* The sessions, the rows of their shadow and the jobs that bring it up to *)
(* date, for any number of each.                                           *)

Marked == "SOURCE_MISSING_REVIEW_REQUIRED"
Revisions == 0..(MaxRevision + 1)

Types ==
  /\ mode \in {"down", "filesystem", "canary"}
  /\ sessionFile \in [S!Items -> Revisions] /\ row \in [S!Items -> SUBSET S!Rows]
  /\ expired \subseteq Sessions
  /\ start \in [Sessions -> {"not yet", "filed", "published", "given", "over"}]
  /\ request \in [Sessions -> {"none", "reading", "admitted", "removing", "removed"}]
  /\ DOMAIN job = Jobs

\* An item has at most one row; a session's is of revision 1, as its file is, and an
\* intent's is not ahead of its file.
RowsOK ==
  /\ \A x \in S!Items : row[x] = {} \/ \E n \in 1..(MaxRevision + 1) : \E q \in {"PRESENT", Marked} : row[x] = S!Row(n, q)
  /\ \A s \in Sessions : sessionFile[s] <= 1 /\ \A r \in row[s] : r.revision = 1
  /\ \A i \in Intents : \A r \in row[i] : r.revision <= sessionFile[i]

\* The states a job's transaction w may be in.
Shape(w) ==
  \/ w = S!Idle
  \/ w = [stage |-> "discovered", seen |-> w.seen, over |-> w.over]
  \/ w = [stage |-> "writing", seen |-> w.seen, over |-> w.over, staged |-> w.staged, todo |-> w.todo]
  \/ w = [stage |-> "rechecked", seen |-> w.seen, over |-> w.over, staged |-> w.staged, todo |-> w.todo]

Staged(w) == IF w.stage \in {"writing", "rechecked"} THEN DOMAIN w.staged ELSE {}

\* What it saw was there, and is behind by now at most for an intent.
Seen(w, files, over) ==
  w.stage # "idle" =>
    /\ w.seen \in [S!Items -> Revisions] /\ w.over \subseteq over
    /\ \A s \in Sessions : w.seen[s] <= 1
    /\ \A i \in Intents : w.seen[i] <= files[i]

\* What is still to be written asks for what was seen.
Planned(w) ==
  w.stage = "writing" => \A t \in w.todo :
    /\ t.item \in S!Items /\ t.status \in S!Writes
    /\ t.status \in {"CREATE_REQUIRED", "UPDATE_REQUIRED", "RESTORE_REQUIRED"} => w.seen[t.item] > 0
    /\ t.status = "SOURCE_MISSING_MARK_REQUIRED" => w.seen[t.item] = 0
    /\ t.status = "EXPIRE_DELETE_REQUIRED" => t.item \in w.over

\* A row that it holds: deleted, as seen on file, or marked as it was.
Held(w, x, r) ==
  \/ w.staged[x] = {} /\ x \in w.over
  \/ w.staged[x] = S!Row(w.seen[x], "PRESENT") /\ w.seen[x] > 0
  \/ w.staged[x] = {[q EXCEPT !.state = Marked] : q \in r} /\ r # {} /\ w.seen[x] = 0

\* After its second look it commits no row of an intent older than the one that is
\* there, and marks no row of a session that still has its file.
Rechecked(w, rows, files) ==
  w.stage = "rechecked" =>
    /\ \A i \in Staged(w) \cap Intents : \A r \in rows[i] : \E q \in w.staged[i] : q.revision >= r.revision
    /\ \A s \in Staged(w) \cap Sessions : w.seen[s] = 0 => files[s] = 0

JobOK(w, rows, files, over) ==
  /\ Shape(w) /\ Seen(w, files, over) /\ Planned(w) /\ Rechecked(w, rows, files)
  /\ Staged(w) \subseteq S!Items /\ \A x \in Staged(w) : Held(w, x, rows[x])

JobsOK == \A j \in Jobs : JobOK(job[j], row, sessionFile, expired)

Locks == \A j, k \in Jobs : j # k => Staged(job[j]) \cap Staged(job[k]) = {}

\* A job that has nothing to do with a session.
Unaware(w, s) ==
  /\ w.stage # "idle" => w.seen[s] = 0
  /\ w.stage = "writing" => \A t \in w.todo : t.item # s
  /\ s \notin Staged(w)

\* A session that has not started has left no trace.
Untouched(s) ==
  /\ sessionFile[s] = 0 /\ row[s] = {} /\ request[s] = "none" /\ s \notin expired
  /\ \A j \in Jobs : Unaware(job[j], s)

\* Of a session whose time is not over.
Current(s) ==
  /\ row[s] = S!Row(1, Marked) => sessionFile[s] = 0
  /\ request[s] \in {"admitted", "removing"} => row[s] # {}
  /\ request[s] = "removed" =>
       row[s] = {} /\ \A j \in Jobs : job[j].stage = "rechecked" => s \notin Staged(job[j])
  /\ start[s] = "published" /\ sessionFile[s] > 0 => row[s] = S!Row(1, "PRESENT")
  /\ mode = "canary" /\ start[s] = "given" /\ sessionFile[s] > 0 => row[s] = S!Row(1, "PRESENT")

SessionOK(s) ==
  /\ start[s] = "not yet" => Untouched(s)
  /\ request[s] # "none" => start[s] = "given"
  /\ request[s] \in {"removing", "removed"} => sessionFile[s] = 0
  /\ s \notin expired => Current(s)

ShadowInv == Types /\ RowsOK /\ JobsOK /\ Locks /\ \A s \in Sessions : SessionOK(s)

\* What a step may do to the rows of intents.
IntentsKept == \A i \in Intents : \A r \in row[i] : \E q \in row'[i] : q.revision >= r.revision

-----------------------------------------------------------------------------
LEMMA ShadowInit == S!Init => ShadowInv
<1>. SUFFICES ASSUME S!Init PROVE ShadowInv
  OBVIOUS
<1>1. /\ mode = "down" /\ expired = {} /\ DOMAIN job = Jobs
      /\ sessionFile \in [S!Items -> Revisions] /\ \A x \in S!Items : sessionFile[x] = 0
      /\ row \in [S!Items -> SUBSET S!Rows] /\ \A x \in S!Items : row[x] = {}
      /\ \A j \in Jobs : job[j] = S!Idle /\ job[j].stage = "idle"
      /\ start \in [Sessions -> {"not yet"}] /\ request \in [Sessions -> {"none"}]
  <2>1. 0 \in Revisions
    BY ServerStoresAssumption DEF Revisions
  <2>2. S!Idle.stage = "idle"
    BY DEF S!Idle
  <2>3. sessionFile \in [S!Items -> Revisions] /\ \A x \in S!Items : sessionFile[x] = 0
    BY <2>1 DEF S!Init
  <2>4. row \in [S!Items -> SUBSET S!Rows] /\ \A x \in S!Items : row[x] = {}
    BY DEF S!Init
  <2>5. DOMAIN job = Jobs /\ \A j \in Jobs : job[j] = S!Idle /\ job[j].stage = "idle"
    BY <2>2 DEF S!Init
  <2>. QED
    BY <2>3, <2>4, <2>5 DEF S!Init
<1>2. Sessions \subseteq S!Items /\ Intents \subseteq S!Items
  BY DEF S!Items
<1>3. \A j \in Jobs : Staged(job[j]) = {}
  BY <1>1 DEF Staged
<1>4. Types /\ RowsOK
  <2>1. start \in [Sessions -> {"not yet", "filed", "published", "given", "over"}]
    BY <1>1
  <2>2. request \in [Sessions -> {"none", "reading", "admitted", "removing", "removed"}]
    BY <1>1
  <2>3. RowsOK
    <3>0. \A s \in Sessions : sessionFile[s] = 0 /\ row[s] = {}
      BY <1>1, <1>2
    <3>1. \A s \in Sessions : sessionFile[s] <= 1 /\ row[s] = {}
      BY <3>0
    <3>2. \A i \in Intents : row[i] = {}
      BY <1>1, <1>2
    <3>. QED
      BY <1>1, <3>1, <3>2 DEF RowsOK
  <2>. QED
    BY <1>1, <2>1, <2>2, <2>3 DEF Types
<1>5. JobsOK /\ Locks
  BY <1>1, <1>3 DEF JobsOK, JobOK, Shape, Seen, Planned, Rechecked, Locks
<1>6. \A s \in Sessions : SessionOK(s)
  BY <1>1, <1>2, <1>3 DEF SessionOK, Untouched, Unaware, Current
<1>. QED
  BY <1>4, <1>5, <1>6 DEF ShadowInv

\* What an item's file and row ask for.
LEMMA StatusFacts ==
  ASSUME NEW source \in Nat, NEW x, NEW gone, NEW n \in Nat, NEW q, NEW r, r = {} \/ r = S!Row(n, q)
  PROVE  /\ S!Status(source, r, x \in gone) \in S!Writes =>
              /\ S!Status(source, r, x \in gone) \in {"CREATE_REQUIRED", "UPDATE_REQUIRED", "RESTORE_REQUIRED"} => source > 0
              /\ S!Status(source, r, x \in gone) = "SOURCE_MISSING_MARK_REQUIRED" => source = 0
              /\ S!Status(source, r, x \in gone) = "EXPIRE_DELETE_REQUIRED" => x \in gone
         /\ source = 0 /\ r = {} => S!Status(source, r, x \in gone) = "NONE"
         /\ source > 0 /\ x \notin gone /\ S!Status(source, r, x \in gone) \in {"NONE", "MATCHED"} =>
              r = S!Row(source, "PRESENT")
<1>1. CASE r = {}
  BY <1>1 DEF S!Status, S!Writes
<1>2. CASE r # {} /\ x \in gone
  BY <1>2 DEF S!Status, S!Writes
<1>3. CASE r # {} /\ x \notin gone
  <2>1. r = {[revision |-> n, state |-> q]} /\ (CHOOSE y \in r : TRUE) = [revision |-> n, state |-> q]
    BY <1>3 DEF S!Row
  <2>2. (CHOOSE y \in r : TRUE).revision = n /\ (CHOOSE y \in r : TRUE).state = q
    BY <2>1
  <2>3. CASE source = 0
    BY <1>3, <2>3 DEF S!Status, S!Writes
  <2>4. CASE source > 0
    <3>1. S!Status(source, r, x \in gone) =
            CASE source < n -> "CONFLICT_DATABASE_AHEAD"
              [] source > n -> "UPDATE_REQUIRED"
              [] OTHER -> IF q = "PRESENT" THEN "MATCHED" ELSE "RESTORE_REQUIRED"
      BY <1>3, <2>2, <2>4 DEF S!Status
    <3>2. CASE source < n
      BY <2>4, <3>1, <3>2
    <3>3. CASE source > n
      BY <2>4, <3>1, <3>3
    <3>4. CASE source = n
      BY <2>1, <2>4, <3>1, <3>4 DEF S!Row
    <3>. QED
      BY <3>2, <3>3, <3>4
  <2>. QED
    BY <2>3, <2>4
<1>. QED
  BY <1>1, <1>2, <1>3

-----------------------------------------------------------------------------
(* The jobs.  While a job works, nothing but its own state changes.        *)

LEMMA ItemFacts ==
  /\ Sessions \subseteq S!Items /\ Intents \subseteq S!Items
  /\ \A x \in S!Items : x \in Sessions \/ x \in Intents
  /\ \A x \in Sessions : x \notin Intents
BY ServerStoresAssumption DEF S!Items

LEMMA FileFacts == ShadowInv => \A x \in S!Items : sessionFile[x] \in Nat
<1>1. \A n \in Revisions : n \in Nat
  BY ServerStoresAssumption DEF Revisions
<1>2. ShadowInv => \A x \in S!Items : sessionFile[x] \in Revisions
  BY DEF ShadowInv, Types
<1>. QED
  BY <1>1, <1>2

LEMMA RevisionsAreNumbers == ShadowInv => \A x \in S!Items : \A r \in row[x] : r.revision \in Nat /\ r.revision > 0
<1>. SUFFICES ASSUME ShadowInv, NEW x \in S!Items, NEW r \in row[x] PROVE r.revision \in Nat /\ r.revision > 0
  OBVIOUS
<1>1. r \in S!Rows
  BY DEF ShadowInv, Types
<1>. QED
  BY <1>1, ServerStoresAssumption DEF S!Rows

\* What a job's step leaves to be shown: its own state, and the locks.
LEMMA StagedFacts == \A j \in Jobs : S!Staged(j) = Staged(job[j])
BY DEF S!Staged, Staged

LEMMA JobStepKeeps ==
  ASSUME ShadowInv, NEW j \in Jobs, UNCHANGED <<mode, start, request, sessionFile, expired, row>>,
         DOMAIN job' = Jobs, \A k \in Jobs \ {j} : job'[k] = job[k],
         JobOK(job'[j], row, sessionFile, expired),
         \A k \in Jobs \ {j} : Staged(job'[j]) \cap Staged(job[k]) = {},
         \A s \in Sessions : Untouched(s) => Unaware(job'[j], s),
         \A s \in Sessions \ expired :
           sessionFile[s] = 0 /\ row[s] = {} /\ s \in Staged(job'[j]) => job'[j].stage # "rechecked"
  PROVE  ShadowInv' /\ IntentsKept
<1>0. /\ mode' = mode /\ start' = start /\ request' = request /\ sessionFile' = sessionFile
      /\ expired' = expired /\ row' = row
  OBVIOUS
<1>1. Types'
  BY <1>0 DEF ShadowInv, Types
<1>2. RowsOK'
  BY <1>0 DEF ShadowInv, RowsOK
<1>3. JobsOK'
  BY <1>0 DEF ShadowInv, JobsOK
<1>4. Locks'
  BY DEF ShadowInv, Locks
<1>5. ASSUME NEW s \in Sessions PROVE SessionOK(s)'
  <2>1. SessionOK(s)
    BY DEF ShadowInv
  <2>2. ASSUME start[s] = "not yet" PROVE Untouched(s)'
    BY <1>0, <2>1, <2>2 DEF SessionOK, Untouched
  <2>3. ASSUME s \notin expired PROVE Current(s)'
    BY <1>0, <2>1, <2>3 DEF SessionOK, Current
  <2>. QED
    BY <1>0, <2>1, <2>2, <2>3 DEF SessionOK
<1>6. IntentsKept
  <2>1. \A i \in Intents : \A r \in row[i] : r.revision >= r.revision
    BY RevisionsAreNumbers, ItemFacts
  <2>. QED
    BY <1>0, <2>1 DEF IntentsKept
<1>. QED
  BY <1>1, <1>2, <1>3, <1>4, <1>5, <1>6 DEF ShadowInv

LEMMA JobFacts ==
  ASSUME ShadowInv, NEW j \in Jobs
  PROVE  JobOK(job[j], row, sessionFile, expired) /\ DOMAIN job = Jobs
BY DEF ShadowInv, JobsOK, Types

LEMMA AbortKeeps ==
  ASSUME ShadowInv, NEW j \in Jobs, S!Abort(j)
  PROVE  ShadowInv' /\ IntentsKept
<1>1. /\ UNCHANGED <<mode, start, request, sessionFile, expired, row>>
      /\ job'[j] = S!Idle /\ DOMAIN job' = Jobs /\ \A k \in Jobs \ {j} : job'[k] = job[k]
  BY JobFacts DEF S!Abort, S!serverVars
<1>2. S!Idle.stage = "idle"
  BY DEF S!Idle
<1>3. JobOK(S!Idle, row, sessionFile, expired) /\ Staged(S!Idle) = {} /\ \A s : Unaware(S!Idle, s)
  BY <1>2 DEF JobOK, Shape, Staged, Seen, Planned, Rechecked, Unaware
<1>. QED
  BY <1>1, <1>3, JobStepKeeps

LEMMA DiscoverKeeps ==
  ASSUME ShadowInv, NEW j \in Jobs, S!Discover(j)
  PROVE  ShadowInv' /\ IntentsKept
<1>. DEFINE w == [stage |-> "discovered", seen |-> sessionFile, over |-> expired]
<1>1. /\ UNCHANGED <<mode, start, request, sessionFile, expired, row>>
      /\ job'[j] = w /\ DOMAIN job' = Jobs /\ \A k \in Jobs \ {j} : job'[k] = job[k]
  BY JobFacts DEF S!Discover, S!serverVars
<1>2. Shape(w)
  BY DEF Shape
<1>3. w.stage = "discovered" /\ w.seen = sessionFile /\ w.over = expired
  OBVIOUS
<1>. HIDE DEF w
<1>4. Seen(w, sessionFile, expired)
  <2>1. \A i \in Intents : sessionFile[i] <= sessionFile[i]
    BY ItemFacts, FileFacts
  <2>. QED
    BY <1>3, <2>1 DEF Seen, ShadowInv, Types, RowsOK
<1>5. Staged(w) = {}
  BY <1>3 DEF Staged
<1>6. JobOK(w, row, sessionFile, expired)
  BY <1>2, <1>3, <1>4, <1>5 DEF JobOK, Planned, Rechecked
<1>7. \A s \in Sessions : Untouched(s) => Unaware(w, s)
  BY <1>3, <1>5 DEF Untouched, Unaware
<1>. QED
  BY <1>1, <1>5, <1>6, <1>7, JobStepKeeps

\* What the plan of an item may ask for.
LEMMA PlanFacts ==
  ASSUME ShadowInv, NEW seen \in [S!Items -> Revisions], NEW over, NEW x \in S!Items
  PROVE  /\ S!Plan(seen, over, row)[x] \in S!Writes =>
              /\ S!Plan(seen, over, row)[x] \in {"CREATE_REQUIRED", "UPDATE_REQUIRED", "RESTORE_REQUIRED"} => seen[x] > 0
              /\ S!Plan(seen, over, row)[x] = "SOURCE_MISSING_MARK_REQUIRED" => seen[x] = 0
              /\ S!Plan(seen, over, row)[x] = "EXPIRE_DELETE_REQUIRED" => x \in over
         /\ seen[x] = 0 /\ row[x] = {} => S!Plan(seen, over, row)[x] = "NONE"
         /\ seen[x] > 0 /\ x \notin over /\ S!Plan(seen, over, row)[x] \in {"NONE", "MATCHED"} =>
              row[x] = S!Row(seen[x], "PRESENT")
<1>1. S!Plan(seen, over, row)[x] = S!Status(seen[x], row[x], x \in over)
  BY DEF S!Plan
<1>2. seen[x] \in Nat
  BY ServerStoresAssumption DEF Revisions
<1>3. PICK n \in Nat : \E q : row[x] = {} \/ row[x] = S!Row(n, q)
  <2>1. row[x] = {} \/ \E n \in 1..(MaxRevision + 1) : \E q \in {"PRESENT", Marked} : row[x] = S!Row(n, q)
    BY DEF ShadowInv, RowsOK
  <2>2. 1 \in Nat /\ 1..(MaxRevision + 1) \subseteq Nat
    BY ServerStoresAssumption
  <2>. QED
    BY <2>1, <2>2
<1>4. PICK q : row[x] = {} \/ row[x] = S!Row(n, q)
  BY <1>3
<1>. QED
  BY <1>1, <1>2, <1>4, StatusFacts

LEMMA MakePlanKeeps ==
  ASSUME ShadowInv, NEW j \in Jobs, S!MakePlan(j)
  PROVE  ShadowInv' /\ IntentsKept
<1>. DEFINE old == job[j]
            plan == S!Plan(old.seen, old.over, row)
            todo == {[item |-> x, status |-> plan[x]] : x \in {y \in S!Items : plan[y] \in S!Writes}}
            w == [stage |-> "writing", seen |-> old.seen, over |-> old.over, staged |-> <<>>, todo |-> todo]
<1>1. /\ UNCHANGED <<mode, start, request, sessionFile, expired, row>> /\ old.stage = "discovered"
      /\ job'[j] = w /\ DOMAIN job' = Jobs /\ \A k \in Jobs \ {j} : job'[k] = job[k]
  BY JobFacts DEF S!MakePlan, S!serverVars
<1>2. Shape(w)
  BY DEF Shape
<1>3. w.stage = "writing" /\ w.seen = old.seen /\ w.over = old.over /\ w.staged = <<>> /\ w.todo = todo
  OBVIOUS
<1>. HIDE DEF w
<1>4. Seen(old, sessionFile, expired)
  BY JobFacts DEF JobOK
<1>5. Seen(w, sessionFile, expired) /\ old.seen \in [S!Items -> Revisions]
  BY <1>1, <1>3, <1>4 DEF Seen
<1>6. Staged(w) = {}
  BY <1>3 DEF Staged
<1>7. \A t \in todo : \E x \in S!Items : t.item = x /\ t.status = plan[x] /\ plan[x] \in S!Writes
  OBVIOUS
<1>. HIDE DEF todo, plan
<1>8. Planned(w)
  <2>. SUFFICES ASSUME NEW t \in todo
                PROVE  /\ t.item \in S!Items /\ t.status \in S!Writes
                       /\ t.status \in {"CREATE_REQUIRED", "UPDATE_REQUIRED", "RESTORE_REQUIRED"} => old.seen[t.item] > 0
                       /\ t.status = "SOURCE_MISSING_MARK_REQUIRED" => old.seen[t.item] = 0
                       /\ t.status = "EXPIRE_DELETE_REQUIRED" => t.item \in old.over
    BY <1>3 DEF Planned
  <2>1. PICK x \in S!Items : t.item = x /\ t.status = plan[x] /\ plan[x] \in S!Writes
    BY <1>7
  <2>. QED
    BY <1>5, <2>1, PlanFacts DEF plan
<1>9. JobOK(w, row, sessionFile, expired)
  BY <1>2, <1>3, <1>5, <1>6, <1>8 DEF JobOK, Rechecked
<1>10. ASSUME NEW s \in Sessions, Untouched(s) PROVE Unaware(w, s)
  <2>1. old.seen[s] = 0 /\ row[s] = {} /\ s \in S!Items
    BY <1>1, <1>10, ItemFacts DEF Untouched, Unaware
  <2>2. plan[s] \notin S!Writes
    BY <1>5, <2>1, PlanFacts DEF plan, S!Writes
  <2>3. \A t \in todo : t.item # s
    BY <1>7, <2>2
  <2>. QED
    BY <1>3, <1>6, <2>1, <2>3 DEF Unaware
<1>. QED
  BY <1>1, <1>3, <1>6, <1>9, <1>10, JobStepKeeps

LEMMA RecheckKeeps ==
  ASSUME ShadowInv, NEW j \in Jobs, S!Recheck(j)
  PROVE  ShadowInv' /\ IntentsKept
<1>. DEFINE old == job[j]
            w == [old EXCEPT !.stage = "rechecked"]
<1>1. /\ UNCHANGED <<mode, start, request, sessionFile, expired, row>>
      /\ old.stage = "writing" /\ sessionFile = old.seen
      /\ job'[j] = w /\ DOMAIN job' = Jobs /\ \A k \in Jobs \ {j} : job'[k] = job[k]
  BY JobFacts DEF S!Recheck, S!serverVars
<1>2. JobOK(old, row, sessionFile, expired)
  BY JobFacts
<1>3. old = [stage |-> "writing", seen |-> old.seen, over |-> old.over, staged |-> old.staged, todo |-> old.todo]
  <2>1. S!Idle.stage = "idle"
    BY DEF S!Idle
  <2>. QED
    BY <1>1, <1>2, <2>1 DEF JobOK, Shape
<1>4. w = [stage |-> "rechecked", seen |-> old.seen, over |-> old.over, staged |-> old.staged, todo |-> old.todo]
  BY <1>3
<1>5. /\ w.stage = "rechecked" /\ w.seen = old.seen /\ w.over = old.over /\ w.staged = old.staged /\ w.todo = old.todo
      /\ Shape(w)
  BY <1>4 DEF Shape
<1>. HIDE DEF w, old
<1>6. Staged(w) = Staged(old)
  BY <1>1, <1>5 DEF Staged
<1>7. Seen(w, sessionFile, expired) /\ Planned(w) /\ Staged(w) \subseteq S!Items
  BY <1>1, <1>2, <1>5, <1>6 DEF JobOK, Seen, Planned
<1>8. \A x \in Staged(w) : Held(w, x, row[x])
  BY <1>2, <1>5, <1>6 DEF JobOK, Held
<1>9. Rechecked(w, row, sessionFile)
  <2>. SUFFICES ASSUME NEW i \in Staged(w) \cap Intents, NEW r \in row[i]
                PROVE  \E q \in w.staged[i] : q.revision >= r.revision
    BY <1>1, <1>5 DEF Rechecked
  <2>1. r.revision \in Nat /\ r.revision <= w.seen[i] /\ w.seen[i] \in Nat
    <3>1. r.revision \in Nat /\ i \in Intents /\ i \in S!Items
      BY RevisionsAreNumbers, ItemFacts
    <3>2. r.revision <= sessionFile[i]
      BY <3>1 DEF ShadowInv, RowsOK
    <3>3. sessionFile[i] \in Nat
      BY <3>1, FileFacts
    <3>. QED
      BY <1>1, <1>5, <3>1, <3>2, <3>3
  <2>2. i \notin w.over
    BY <1>1, <1>5, <1>7, ItemFacts DEF Seen, ShadowInv, Types
  <2>3. CASE w.staged[i] = S!Row(w.seen[i], "PRESENT")
    BY <2>1, <2>3 DEF S!Row
  <2>4. CASE w.staged[i] = {[q EXCEPT !.state = Marked] : q \in row[i]}
    <3>1. PICK q \in w.staged[i] : q = [r EXCEPT !.state = Marked]
      BY <2>4
    <3>2. r \in S!Rows
      BY ItemFacts DEF ShadowInv, Types
    <3>3. q.revision = r.revision
      BY <3>1, <3>2 DEF S!Rows
    <3>. QED
      BY <2>1, <3>3
  <2>. QED
    BY <1>8, <2>2, <2>3, <2>4 DEF Held
<1>10. JobOK(w, row, sessionFile, expired)
  BY <1>5, <1>7, <1>8, <1>9 DEF JobOK
<1>11. \A s \in Sessions : Untouched(s) => Unaware(w, s)
  BY <1>1, <1>5, <1>6 DEF Untouched, Unaware, old
<1>12. ASSUME NEW s \in Sessions \ expired, sessionFile[s] = 0, row[s] = {}, s \in Staged(w) PROVE FALSE
  <2>1. s \notin w.over /\ w.seen[s] = 0
    BY <1>1, <1>5, <1>7, <1>12 DEF Seen
  <2>. QED
    BY <1>8, <1>12, <2>1 DEF Held
<1>13. \A k \in Jobs \ {j} : Staged(w) \cap Staged(job[k]) = {}
  BY <1>6 DEF ShadowInv, Locks, old
<1>. QED
  BY <1>1, <1>10, <1>11, <1>12, <1>13, JobStepKeeps

\* The row that a write leaves, and what it is held as.
LEMMA AppliedFacts ==
  ASSUME ShadowInv, NEW j \in Jobs, job[j].stage = "writing", NEW t \in job[j].todo, S!Applicable(j, t)
  PROVE  /\ t.item \in S!Items
         /\ \/ S!Applied(j, t) = {} /\ t.item \in job[j].over
            \/ S!Applied(j, t) = S!Row(job[j].seen[t.item], "PRESENT") /\ job[j].seen[t.item] > 0
            \/ /\ S!Applied(j, t) = {[q EXCEPT !.state = Marked] : q \in row[t.item]}
               /\ row[t.item] # {} /\ job[j].seen[t.item] = 0
<1>1. /\ t.item \in S!Items /\ t.status \in S!Writes
      /\ t.status \in {"CREATE_REQUIRED", "UPDATE_REQUIRED", "RESTORE_REQUIRED"} => job[j].seen[t.item] > 0
      /\ t.status = "SOURCE_MISSING_MARK_REQUIRED" => job[j].seen[t.item] = 0
      /\ t.status = "EXPIRE_DELETE_REQUIRED" => t.item \in job[j].over
  BY JobFacts DEF JobOK, Planned
<1>2. CASE t.status \in {"CREATE_REQUIRED", "UPDATE_REQUIRED"}
  BY <1>1, <1>2 DEF S!Applied
<1>3. CASE t.status = "RESTORE_REQUIRED"
  <2>1. PICK r \in row[t.item] : r.revision = job[j].seen[t.item]
    BY <1>3 DEF S!Applicable
  <2>2. PICK n \in 1..(MaxRevision + 1) : \E q \in {"PRESENT", Marked} : row[t.item] = S!Row(n, q)
    BY <1>1, <2>1 DEF ShadowInv, RowsOK
  <2>3. PICK q : row[t.item] = {[revision |-> n, state |-> q]}
    BY <2>2 DEF S!Row
  <2>4. n = job[j].seen[t.item]
    BY <2>1, <2>3
  <2>5. S!Applied(j, t) = {[r1 EXCEPT !.state = "PRESENT"] : r1 \in row[t.item]}
    BY <1>3 DEF S!Applied
  <2>6. [[revision |-> n, state |-> q] EXCEPT !.state = "PRESENT"] = [revision |-> n, state |-> "PRESENT"]
    OBVIOUS
  <2>7. S!Applied(j, t) = {[revision |-> n, state |-> "PRESENT"]}
    BY <2>3, <2>5, <2>6
  <2>. QED
    BY <1>1, <1>3, <2>4, <2>7 DEF S!Row
<1>4. CASE t.status = "EXPIRE_DELETE_REQUIRED"
  BY <1>1, <1>4 DEF S!Applied
<1>5. CASE t.status = "SOURCE_MISSING_MARK_REQUIRED"
  BY <1>1, <1>5 DEF S!Applied, S!Applicable, Marked
<1>. QED
  BY <1>1, <1>2, <1>3, <1>4, <1>5 DEF S!Writes

LEMMA StagedReplaced ==
  ASSUME NEW w, NEW a, NEW b, NEW c, NEW d, NEW e, NEW g,
         w = [stage |-> a, seen |-> b, over |-> c, staged |-> d, todo |-> e]
  PROVE  [w EXCEPT !.staged = g] = [stage |-> a, seen |-> b, over |-> c, staged |-> g, todo |-> e]
OBVIOUS

LEMMA WriteKeeps ==
  ASSUME ShadowInv, NEW j \in Jobs, S!Write(j)
  PROVE  ShadowInv' /\ IntentsKept
<1>. DEFINE old == job[j]
<1>1. PICK t \in old.todo :
        /\ ~S!Locked(t.item) /\ S!Applicable(j, t)
        /\ job' = [job EXCEPT ![j].todo = @ \ {t},
                              ![j].staged = [x \in DOMAIN @ \cup {t.item} |-> IF x = t.item THEN S!Applied(j, t) ELSE @[x]]]
  BY DEF S!Write
<1>2. UNCHANGED <<mode, start, request, sessionFile, expired, row>> /\ old.stage = "writing"
  BY DEF S!Write, S!serverVars
<1>3. JobOK(old, row, sessionFile, expired) /\ DOMAIN job = Jobs
  BY JobFacts
<1>4. old = [stage |-> "writing", seen |-> old.seen, over |-> old.over, staged |-> old.staged, todo |-> old.todo]
  <2>1. S!Idle.stage = "idle"
    BY DEF S!Idle
  <2>. QED
    BY <1>2, <1>3, <2>1 DEF JobOK, Shape
<1>. DEFINE staged == [x \in DOMAIN old.staged \cup {t.item} |-> IF x = t.item THEN S!Applied(j, t) ELSE old.staged[x]]
            w == [stage |-> "writing", seen |-> old.seen, over |-> old.over, staged |-> staged, todo |-> old.todo \ {t}]
<1>5. job'[j] = w /\ DOMAIN job' = Jobs /\ \A k \in Jobs \ {j} : job'[k] = job[k]
  <2>1. /\ job'[j] = [old EXCEPT !.todo = @ \ {t},
                                 !.staged = [x \in DOMAIN @ \cup {t.item} |-> IF x = t.item THEN S!Applied(j, t) ELSE @[x]]]
        /\ DOMAIN job' = Jobs /\ \A k \in Jobs \ {j} : job'[k] = job[k]
    BY <1>1, <1>3
  <2>2. PICK o : o = [old EXCEPT !.todo = old.todo \ {t}]
    OBVIOUS
  <2>3. o = [stage |-> "writing", seen |-> old.seen, over |-> old.over, staged |-> old.staged, todo |-> old.todo \ {t}]
    BY <1>4, <2>2
  <2>4. [o EXCEPT !.staged = staged] =
          [stage |-> "writing", seen |-> old.seen, over |-> old.over, staged |-> staged, todo |-> old.todo \ {t}]
    <3>. HIDE DEF staged
    <3>. QED
      BY <2>3, StagedReplaced
  <2>5. job'[j] = [o EXCEPT !.staged = staged]
    BY <2>1, <2>2
  <2>. QED
    BY <2>1, <2>4, <2>5
<1>6. /\ w.stage = "writing" /\ w.seen = old.seen /\ w.over = old.over /\ w.staged = staged /\ w.todo = old.todo \ {t}
      /\ Shape(w)
  BY DEF Shape
<1>7. /\ DOMAIN staged = DOMAIN old.staged \cup {t.item} /\ staged[t.item] = S!Applied(j, t)
      /\ \A x \in DOMAIN old.staged \ {t.item} : staged[x] = old.staged[x]
  OBVIOUS
<1>8. /\ t.item \in S!Items
      /\ \/ S!Applied(j, t) = {} /\ t.item \in old.over
         \/ S!Applied(j, t) = S!Row(old.seen[t.item], "PRESENT") /\ old.seen[t.item] > 0
         \/ /\ S!Applied(j, t) = {[q EXCEPT !.state = Marked] : q \in row[t.item]}
            /\ row[t.item] # {} /\ old.seen[t.item] = 0
  BY <1>1, <1>2, AppliedFacts
<1>. HIDE DEF w, staged, old
<1>9. Staged(w) = Staged(old) \cup {t.item} /\ Staged(old) = DOMAIN old.staged
  BY <1>2, <1>6, <1>7 DEF Staged
<1>10. Seen(w, sessionFile, expired) /\ Planned(w) /\ Rechecked(w, row, sessionFile) /\ Staged(w) \subseteq S!Items
  BY <1>2, <1>3, <1>6, <1>8, <1>9 DEF JobOK, Seen, Planned, Rechecked
<1>11. ASSUME NEW x \in Staged(w) PROVE Held(w, x, row[x])
  <2>1. CASE x = t.item
    BY <1>6, <1>7, <1>8, <2>1 DEF Held
  <2>2. CASE x # t.item
    <3>1. x \in Staged(old) /\ w.staged[x] = old.staged[x]
      BY <1>6, <1>7, <1>9, <2>2
    <3>. QED
      BY <1>3, <1>6, <3>1 DEF JobOK, Held
  <2>. QED
    BY <2>1, <2>2
<1>12. JobOK(w, row, sessionFile, expired)
  BY <1>6, <1>10, <1>11 DEF JobOK
<1>13. \A k \in Jobs \ {j} : Staged(w) \cap Staged(job[k]) = {}
  BY <1>1, <1>9, StagedFacts DEF S!Locked, ShadowInv, Locks, old
<1>14. \A s \in Sessions : Untouched(s) => Unaware(w, s)
  BY <1>1, <1>2, <1>6, <1>9 DEF Untouched, Unaware, old
<1>. QED
  BY <1>2, <1>5, <1>6, <1>12, <1>13, <1>14, JobStepKeeps

-----------------------------------------------------------------------------
(* The server, its sessions and the reservations of intents.               *)

\* The jobs are as they were while no row that one of them holds has changed, and
\* no file has come that one of them could have missed.
LEMMA JobsStay ==
  ASSUME ShadowInv, job' = job, expired \subseteq expired',
         \A x \in S!Items : row'[x] = row[x] \/ \A j \in Jobs : x \notin Staged(job[j]),
         \A i \in Intents : row'[i] = row[i] /\ sessionFile'[i] \in Nat /\ sessionFile'[i] >= sessionFile[i],
         \A s \in Sessions : sessionFile'[s] \in {0, sessionFile[s]} \/ Untouched(s)
  PROVE  JobsOK' /\ Locks' /\ IntentsKept
<1>1. IntentsKept
  <2>1. \A i \in Intents : \A r \in row[i] : r.revision >= r.revision
    BY RevisionsAreNumbers, ItemFacts
  <2>. QED
    BY <2>1 DEF IntentsKept
<1>2. Locks'
  BY DEF ShadowInv, Locks
<1>3. ASSUME NEW j \in Jobs PROVE JobOK(job[j], row', sessionFile', expired')
  <2>. DEFINE w == job[j]
  <2>1. JobOK(w, row, sessionFile, expired)
    BY JobFacts
  <2>2. \A s \in Sessions : Untouched(s) => s \notin Staged(w)
    BY DEF Untouched, Unaware
  <2>. HIDE DEF w
  <2>3. Seen(w, sessionFile', expired')
    <3>. SUFFICES ASSUME w.stage # "idle" PROVE Seen(w, sessionFile', expired')
      BY DEF Seen
    <3>1. /\ w.seen \in [S!Items -> Revisions] /\ w.over \subseteq expired
          /\ \A s \in Sessions : w.seen[s] <= 1
          /\ \A i \in Intents : w.seen[i] <= sessionFile[i]
      BY <2>1 DEF JobOK, Seen
    <3>2. ASSUME NEW i \in Intents PROVE w.seen[i] <= sessionFile'[i]
      <4>1. w.seen[i] \in Nat /\ sessionFile[i] \in Nat
        BY <3>1, ItemFacts, FileFacts, ServerStoresAssumption DEF Revisions
      <4>. QED
        BY <3>1, <4>1
    <3>. QED
      BY <3>1, <3>2 DEF Seen
  <2>4. Rechecked(w, row', sessionFile')
    <3>1. \A i \in Intents : row'[i] = row[i]
      OBVIOUS
    <3>2. \A s \in Sessions \cap Staged(w) : sessionFile[s] = 0 => sessionFile'[s] = 0
      BY <2>2
    <3>. QED
      BY <2>1, <3>1, <3>2 DEF JobOK, Rechecked
  <2>5. \A x \in Staged(w) : row'[x] = row[x]
    BY <2>1 DEF JobOK, w
  <2>. QED
    BY <2>1, <2>3, <2>4, <2>5 DEF JobOK, w
<1>. QED
  BY <1>1, <1>2, <1>3 DEF JobsOK

\* A session of which nothing changes, while no canary starts.
LEMMA SessionStays ==
  ASSUME ShadowInv, NEW s \in Sessions, job' = job, mode' \in {mode, "down", "filesystem"},
         start'[s] = start[s], request'[s] = request[s], sessionFile'[s] = sessionFile[s], row'[s] = row[s],
         s \in expired' <=> s \in expired
  PROVE  SessionOK(s)'
<1>1. SessionOK(s)
  BY DEF ShadowInv
<1>2. ASSUME start[s] = "not yet" PROVE Untouched(s)'
  BY <1>1, <1>2 DEF SessionOK, Untouched
<1>3. ASSUME s \notin expired PROVE Current(s)'
  BY <1>1, <1>3 DEF SessionOK, Current
<1>. QED
  BY <1>1, <1>2, <1>3 DEF SessionOK

\* What a step of one session may change: it takes a row only while no job holds it,
\* and files a session only once.
StepOf(s) ==
  /\ job' = job /\ mode' = mode /\ (expired' = expired \/ expired' = expired \cup {s})
  /\ \A x \in S!Items \ {s} : row'[x] = row[x] /\ sessionFile'[x] = sessionFile[x]
  /\ \A u \in Sessions \ {s} : start'[u] = start[u] /\ request'[u] = request[u]
  /\ row'[s] = row[s] \/ (~S!Locked(s) /\ (row'[s] = {} \/ row'[s] = S!Row(1, "PRESENT")))
  /\ \/ sessionFile'[s] = 0 \/ sessionFile'[s] = sessionFile[s]
     \/ sessionFile'[s] = 1 /\ start[s] = "not yet"

LEMMA SessionStepKeeps ==
  ASSUME ShadowInv, NEW s \in Sessions, StepOf(s), Types', SessionOK(s)'
  PROVE  ShadowInv' /\ IntentsKept
<1>1. s \in S!Items /\ s \notin Intents
  BY ItemFacts
<1>2. \A u \in Sessions : SessionOK(u)'
  <2>1. ASSUME NEW u \in Sessions \ {s} PROVE SessionOK(u)'
    <3>1. u \in S!Items /\ (u \in expired' <=> u \in expired)
      BY ItemFacts DEF StepOf
    <3>. QED
      BY <3>1, SessionStays DEF StepOf
  <2>. QED
    BY <2>1
<1>3. \A i \in Intents : row'[i] = row[i] /\ sessionFile'[i] = sessionFile[i]
  BY <1>1, ItemFacts DEF StepOf
<1>4. RowsOK'
  <2>1. ASSUME NEW x \in S!Items
        PROVE  row'[x] = {} \/ \E n \in 1..(MaxRevision + 1) : \E q \in {"PRESENT", Marked} : row'[x] = S!Row(n, q)
    <3>1. 1 \in 1..(MaxRevision + 1)
      BY ServerStoresAssumption
    <3>2. row'[x] = row[x] \/ row'[x] = {} \/ row'[x] = S!Row(1, "PRESENT")
      BY DEF StepOf
    <3>. QED
      BY <3>1, <3>2 DEF ShadowInv, RowsOK
  <2>2. ASSUME NEW u \in Sessions PROVE sessionFile'[u] <= 1 /\ \A r \in row'[u] : r.revision = 1
    <3>1. u \in S!Items /\ sessionFile[u] <= 1 /\ \A r \in row[u] : r.revision = 1
      BY ItemFacts DEF ShadowInv, RowsOK
    <3>2. row'[u] = row[u] \/ row'[u] = {} \/ row'[u] = S!Row(1, "PRESENT")
      BY <3>1 DEF StepOf
    <3>3. sessionFile'[u] = 0 \/ sessionFile'[u] = 1 \/ sessionFile'[u] = sessionFile[u]
      BY <3>1 DEF StepOf
    <3>4. \A r \in S!Row(1, "PRESENT") : r.revision = 1
      BY DEF S!Row
    <3>. QED
      BY <3>1, <3>2, <3>3, <3>4
  <2>3. \A i \in Intents : \A r \in row'[i] : r.revision <= sessionFile'[i]
    BY <1>3 DEF ShadowInv, RowsOK
  <2>. QED
    BY <2>1, <2>2, <2>3 DEF RowsOK
<1>5. JobsOK' /\ Locks' /\ IntentsKept
  <2>1. \A x \in S!Items : row'[x] = row[x] \/ \A j \in Jobs : x \notin Staged(job[j])
    BY StagedFacts DEF StepOf, S!Locked
  <2>2. \A i \in Intents : row'[i] = row[i] /\ sessionFile'[i] \in Nat /\ sessionFile'[i] >= sessionFile[i]
    <3>. SUFFICES ASSUME NEW i \in Intents
                  PROVE  row'[i] = row[i] /\ sessionFile'[i] \in Nat /\ sessionFile'[i] >= sessionFile[i]
      OBVIOUS
    <3>1. row'[i] = row[i] /\ sessionFile'[i] = sessionFile[i] /\ sessionFile[i] \in Nat
      BY <1>3, ItemFacts, FileFacts
    <3>. QED
      BY <3>1
  <2>3. \A u \in Sessions : sessionFile'[u] \in {0, sessionFile[u]} \/ Untouched(u)
    BY ItemFacts DEF StepOf, ShadowInv, SessionOK
  <2>. QED
    BY <2>1, <2>2, <2>3, JobsStay DEF StepOf
<1>. QED
  BY <1>2, <1>4, <1>5 DEF ShadowInv

LEMMA SessionTypes ==
  ASSUME ShadowInv
  PROVE  /\ mode \in {"down", "filesystem", "canary"} /\ expired \subseteq Sessions /\ DOMAIN job = Jobs
         /\ sessionFile \in [S!Items -> Revisions] /\ row \in [S!Items -> SUBSET S!Rows]
         /\ start \in [Sessions -> {"not yet", "filed", "published", "given", "over"}]
         /\ request \in [Sessions -> {"none", "reading", "admitted", "removing", "removed"}]
         /\ 0 \in Revisions /\ 1 \in Revisions /\ S!Row(1, "PRESENT") \in SUBSET S!Rows
         /\ S!Row(1, "PRESENT") # S!Row(1, Marked) /\ S!Row(1, "PRESENT") # {} /\ S!Row(1, Marked) # {}
<1>1. 0 \in Revisions /\ 1 \in Revisions /\ 1 \in 1..(MaxRevision + 1)
  BY ServerStoresAssumption DEF Revisions
<1>2. S!Row(1, "PRESENT") \in SUBSET S!Rows
  BY <1>1 DEF S!Row, S!Rows
<1>3. S!Row(1, "PRESENT") # S!Row(1, Marked) /\ S!Row(1, "PRESENT") # {} /\ S!Row(1, Marked) # {}
  <2>1. [revision |-> 1, state |-> "PRESENT"].state # [revision |-> 1, state |-> "SOURCE_MISSING_REVIEW_REQUIRED"].state
    OBVIOUS
  <2>. QED
    BY <2>1 DEF S!Row, Marked
<1>. QED
  BY <1>1, <1>2, <1>3 DEF ShadowInv, Types

LEMMA StartKeeps ==
  ASSUME ShadowInv, NEW s \in Sessions, S!Start(s)
  PROVE  ShadowInv' /\ IntentsKept
<1>1. Types'
  BY SessionTypes, ItemFacts DEF Types, S!Start, S!serverVars
<1>2. StepOf(s)
  BY SessionTypes, ItemFacts DEF StepOf, S!Start, S!serverVars
<1>3. SessionOK(s)'
  BY SessionTypes, ItemFacts DEF ShadowInv, SessionOK, Untouched, Current, S!Start, S!serverVars
<1>. QED
  BY <1>1, <1>2, <1>3, SessionStepKeeps

LEMMA PublishKeeps ==
  ASSUME ShadowInv, NEW s \in Sessions, S!Publish(s)
  PROVE  ShadowInv' /\ IntentsKept
<1>1. Types'
  BY SessionTypes, ItemFacts DEF Types, S!Publish, S!serverVars
<1>2. StepOf(s)
  BY SessionTypes, ItemFacts DEF StepOf, S!Publish, S!serverVars
<1>3. SessionOK(s)'
  BY SessionTypes, ItemFacts DEF ShadowInv, SessionOK, Untouched, Current, S!Publish, S!serverVars
<1>. QED
  BY <1>1, <1>2, <1>3, SessionStepKeeps

LEMMA StartedKeeps ==
  ASSUME ShadowInv, NEW s \in Sessions, S!Started(s)
  PROVE  ShadowInv' /\ IntentsKept
<1>1. Types'
  BY SessionTypes, ItemFacts DEF Types, S!Started, S!serverVars
<1>2. StepOf(s)
  BY SessionTypes, ItemFacts DEF StepOf, S!Started, S!serverVars
<1>3. SessionOK(s)'
  BY SessionTypes, ItemFacts DEF ShadowInv, SessionOK, Untouched, Current, S!Started, S!serverVars
<1>. QED
  BY <1>1, <1>2, <1>3, SessionStepKeeps

LEMMA PublishFailsKeeps ==
  ASSUME ShadowInv, NEW s \in Sessions, S!PublishFails(s)
  PROVE  ShadowInv' /\ IntentsKept
<1>1. Types'
  <2>1. start' \in [Sessions -> {"not yet", "filed", "published", "given", "over"}]
    BY SessionTypes DEF S!PublishFails
  <2>2. sessionFile' \in [S!Items -> Revisions]
    BY SessionTypes, ItemFacts DEF S!PublishFails
  <2>. QED
    BY SessionTypes, <2>1, <2>2 DEF Types, S!PublishFails
<1>2. StepOf(s)
  BY SessionTypes, ItemFacts DEF StepOf, S!PublishFails, S!serverVars
<1>3. SessionOK(s)'
  BY SessionTypes, ItemFacts DEF ShadowInv, SessionOK, Untouched, Current, S!PublishFails, S!serverVars
<1>. QED
  BY <1>1, <1>2, <1>3, SessionStepKeeps

LEMMA AuthenticateKeeps ==
  ASSUME ShadowInv, NEW s \in Sessions, S!Authenticate(s)
  PROVE  ShadowInv' /\ IntentsKept
<1>1. Types'
  BY SessionTypes, ItemFacts DEF Types, S!Authenticate, S!Authenticated, S!serverVars
<1>2. StepOf(s)
  BY SessionTypes, ItemFacts DEF StepOf, S!Authenticate, S!Authenticated, S!serverVars
<1>3. SessionOK(s)'
  BY SessionTypes, ItemFacts DEF ShadowInv, SessionOK, Untouched, Current, S!Authenticate, S!Authenticated, S!serverVars
<1>. QED
  BY <1>1, <1>2, <1>3, SessionStepKeeps

LEMMA ReadKeeps ==
  ASSUME ShadowInv, NEW s \in Sessions, S!Read(s)
  PROVE  ShadowInv' /\ IntentsKept
<1>1. Types'
  BY SessionTypes, ItemFacts DEF Types, S!Read, S!serverVars
<1>2. StepOf(s)
  BY SessionTypes, ItemFacts DEF StepOf, S!Read, S!serverVars
<1>3. SessionOK(s)'
  BY SessionTypes, ItemFacts DEF ShadowInv, SessionOK, Untouched, Current, S!Read, S!serverVars
<1>. QED
  BY <1>1, <1>2, <1>3, SessionStepKeeps

LEMMA AnswerKeeps ==
  ASSUME ShadowInv, NEW s \in Sessions, S!Answer(s)
  PROVE  ShadowInv' /\ IntentsKept
<1>1. Types'
  BY SessionTypes, ItemFacts DEF Types, S!Answer, S!serverVars
<1>2. StepOf(s)
  BY SessionTypes, ItemFacts DEF StepOf, S!Answer, S!serverVars
<1>3. SessionOK(s)'
  BY SessionTypes, ItemFacts DEF ShadowInv, SessionOK, Untouched, Current, S!Answer, S!serverVars
<1>. QED
  BY <1>1, <1>2, <1>3, SessionStepKeeps

LEMMA LogoutKeeps ==
  ASSUME ShadowInv, NEW s \in Sessions, S!Logout(s)
  PROVE  ShadowInv' /\ IntentsKept
<1>1. Types'
  BY SessionTypes, ItemFacts DEF Types, S!Logout, S!Authenticated, S!serverVars
<1>2. StepOf(s)
  BY SessionTypes, ItemFacts DEF StepOf, S!Logout, S!Authenticated, S!serverVars
<1>3. SessionOK(s)'
  <2>1. SessionOK(s) /\ s \in S!Items
    BY ItemFacts DEF ShadowInv
  <2>2. /\ sessionFile'[s] = 0 /\ job' = job /\ row' = row /\ start' = start /\ expired' = expired /\ mode' = mode
        /\ start[s] = "given"
        /\ request'[s] = request[s] \/ (request[s] = "admitted" /\ request'[s] = "removing")
    BY <2>1, SessionTypes DEF S!Logout, S!Authenticated, SessionOK
  <2>3. ASSUME s \notin expired PROVE Current(s)'
    BY <2>1, <2>2, <2>3 DEF SessionOK, Current
  <2>. QED
    BY <2>1, <2>2, <2>3 DEF SessionOK
<1>. QED
  BY <1>1, <1>2, <1>3, SessionStepKeeps

LEMMA RemoveShadowKeeps ==
  ASSUME ShadowInv, NEW s \in Sessions, S!RemoveShadow(s)
  PROVE  ShadowInv' /\ IntentsKept
<1>1. Types'
  BY SessionTypes, ItemFacts DEF Types, S!RemoveShadow, S!serverVars
<1>2. StepOf(s)
  BY SessionTypes, ItemFacts DEF StepOf, S!RemoveShadow, S!serverVars
<1>3. SessionOK(s)'
  <2>1. SessionOK(s) /\ s \in S!Items
    BY ItemFacts DEF ShadowInv
  <2>2. /\ sessionFile' = sessionFile /\ job' = job /\ row'[s] = {} /\ start' = start /\ expired' = expired /\ mode' = mode
        /\ request[s] = "removing" /\ request'[s] = "removed" /\ (row[s] = {} \/ ~S!Locked(s))
    BY <2>1, SessionTypes DEF S!RemoveShadow
  <2>4. S!Row(1, Marked) # {}
    BY SessionTypes
  <2>3. ASSUME s \notin expired PROVE Current(s)'
    <3>1. ~S!Locked(s) /\ sessionFile[s] = 0
      BY <2>1, <2>2, <2>3 DEF SessionOK, Current
    <3>2. \A j \in Jobs : s \notin Staged(job[j])
      BY <3>1, StagedFacts DEF S!Locked
    <3>. QED
      BY <2>2, <3>1, <3>2, <2>4 DEF Current
  <2>. QED
    BY <2>1, <2>2, <2>3 DEF SessionOK
<1>. QED
  BY <1>1, <1>2, <1>3, SessionStepKeeps

LEMMA RemoveFailsKeeps ==
  ASSUME ShadowInv, NEW s \in Sessions, S!RemoveFails(s)
  PROVE  ShadowInv' /\ IntentsKept
<1>1. Types'
  BY SessionTypes, ItemFacts DEF Types, S!RemoveFails, S!serverVars
<1>2. StepOf(s)
  BY SessionTypes, ItemFacts DEF StepOf, S!RemoveFails, S!serverVars
<1>3. SessionOK(s)'
  <2>1. SessionOK(s) /\ s \in S!Items
    BY ItemFacts DEF ShadowInv
  <2>2. /\ sessionFile' = sessionFile /\ job' = job /\ start' = start /\ expired' = expired /\ mode' = mode
        /\ row'[s] = {} \/ row'[s] = row[s]
        /\ request[s] = "removing" /\ request'[s] = "none"
    BY <2>1, SessionTypes DEF S!RemoveFails
  <2>3. ASSUME s \notin expired PROVE Current(s)'
    <3>1. sessionFile[s] = 0
      BY <2>1, <2>2 DEF SessionOK
    <3>. QED
      BY <2>2, <3>1 DEF Current
  <2>. QED
    BY <2>1, <2>2, <2>3 DEF SessionOK
<1>. QED
  BY <1>1, <1>2, <1>3, SessionStepKeeps

LEMMA ExpireKeeps ==
  ASSUME ShadowInv, NEW s \in Sessions, S!Expire(s)
  PROVE  ShadowInv' /\ IntentsKept
<1>1. Types'
  BY SessionTypes, ItemFacts DEF Types, S!Expire, S!serverVars
<1>2. StepOf(s)
  BY SessionTypes, ItemFacts DEF StepOf, S!Expire, S!serverVars
<1>3. SessionOK(s)'
  BY SessionTypes, ItemFacts DEF ShadowInv, SessionOK, Untouched, Current, S!Expire, S!serverVars
<1>. QED
  BY <1>1, <1>2, <1>3, SessionStepKeeps

LEMMA SweepKeeps ==
  ASSUME ShadowInv, NEW s \in Sessions, S!Sweep(s)
  PROVE  ShadowInv' /\ IntentsKept
<1>1. Types'
  BY SessionTypes, ItemFacts DEF Types, S!Sweep, S!serverVars
<1>2. StepOf(s)
  BY SessionTypes, ItemFacts DEF StepOf, S!Sweep, S!serverVars
<1>3. SessionOK(s)'
  BY SessionTypes, ItemFacts DEF ShadowInv, SessionOK, Untouched, Current, S!Sweep, S!serverVars
<1>. QED
  BY <1>1, <1>2, <1>3, SessionStepKeeps

LEMMA AdvanceKeeps ==
  ASSUME ShadowInv, NEW i \in Intents, S!Advance(i)
  PROVE  ShadowInv' /\ IntentsKept
<1>0. i \in S!Items /\ i \notin Sessions
  BY ItemFacts
<1>1. /\ job' = job /\ row' = row /\ start' = start /\ request' = request /\ mode' = mode /\ expired' = expired
      /\ sessionFile' = [sessionFile EXCEPT ![i] = sessionFile[i] + 1] /\ sessionFile[i] < MaxRevision + 1
  BY DEF S!Advance, S!serverVars
<1>2. /\ sessionFile[i] \in Nat /\ sessionFile[i] + 1 \in Revisions
  BY <1>0, <1>1, FileFacts, ServerStoresAssumption DEF Revisions
<1>3. /\ sessionFile' \in [S!Items -> Revisions] /\ sessionFile'[i] = sessionFile[i] + 1
      /\ \A x \in S!Items \ {i} : sessionFile'[x] = sessionFile[x]
  BY <1>0, <1>1, <1>2, SessionTypes
<1>4. Types'
  BY <1>1, <1>3, SessionTypes DEF Types
<1>5. \A s \in Sessions : sessionFile'[s] = sessionFile[s]
  BY <1>0, <1>3, ItemFacts
<1>6. ASSUME NEW k \in Intents
      PROVE  sessionFile[k] \in Nat /\ sessionFile'[k] \in Nat /\ sessionFile'[k] >= sessionFile[k]
  <2>1. k \in S!Items /\ sessionFile[k] \in Nat
    BY ItemFacts, FileFacts
  <2>. QED
    BY <1>2, <1>3, <2>1
<1>7. RowsOK'
  <2>1. ASSUME NEW k \in Intents, NEW r \in row[k] PROVE r.revision <= sessionFile'[k]
    <3>1. r.revision <= sessionFile[k] /\ r.revision \in Nat
      BY RevisionsAreNumbers, ItemFacts DEF ShadowInv, RowsOK
    <3>. QED
      BY <1>6, <3>1
  <2>. QED
    BY <1>1, <1>5, <2>1 DEF ShadowInv, RowsOK
<1>8. JobsOK' /\ Locks' /\ IntentsKept
  BY <1>1, <1>5, <1>6, JobsStay
<1>9. \A s \in Sessions : SessionOK(s)'
  BY <1>1, <1>5, SessionStays
<1>. QED
  BY <1>4, <1>7, <1>8, <1>9 DEF ShadowInv

LEMMA NoFileKeeps ==
  ASSUME ShadowInv, job' = job, row' = row, sessionFile' = sessionFile, expired' = expired
  PROVE  RowsOK' /\ JobsOK' /\ Locks' /\ IntentsKept
<1>1. \A i \in Intents : sessionFile[i] \in Nat /\ sessionFile[i] >= sessionFile[i]
  BY FileFacts, ItemFacts
<1>2. JobsOK' /\ Locks' /\ IntentsKept
  BY <1>1, JobsStay
<1>. QED
  BY <1>2 DEF ShadowInv, RowsOK

LEMMA StopKeeps ==
  ASSUME ShadowInv, S!Stop
  PROVE  ShadowInv' /\ IntentsKept
<1>1. /\ job' = job /\ row' = row /\ sessionFile' = sessionFile /\ expired' = expired /\ mode' = "down"
      /\ start' = [s \in Sessions |-> IF start[s] \in {"filed", "published"} THEN "over" ELSE start[s]]
      /\ request' = [s \in Sessions |-> IF request[s] = "removed" THEN "removed" ELSE "none"]
  BY DEF S!Stop
<1>2. Types'
  BY <1>1, SessionTypes DEF Types
<1>3. ASSUME NEW s \in Sessions PROVE SessionOK(s)'
  <2>1. SessionOK(s)
    BY DEF ShadowInv
  <2>2. /\ start'[s] = start[s] \/ (start[s] \in {"filed", "published"} /\ start'[s] = "over")
        /\ request'[s] = "none" \/ (request'[s] = "removed" /\ request[s] = "removed")
    BY <1>1
  <2>3. ASSUME s \notin expired PROVE Current(s)'
    BY <1>1, <2>1, <2>2, <2>3 DEF SessionOK, Current
  <2>4. ASSUME start'[s] = "not yet" PROVE Untouched(s)'
    BY <1>1, <2>1, <2>2, <2>4 DEF SessionOK, Untouched
  <2>. QED
    BY <1>1, <2>1, <2>2, <2>3, <2>4 DEF SessionOK
<1>. QED
  BY <1>1, <1>2, <1>3, NoFileKeeps DEF ShadowInv

LEMMA BootKeeps ==
  ASSUME ShadowInv, S!Boot
  PROVE  ShadowInv' /\ IntentsKept
<1>1. /\ job' = job /\ row' = row /\ sessionFile' = sessionFile /\ expired' = expired
      /\ start' = start /\ request' = request
      /\ mode' = "filesystem" \/ (mode' = "canary" /\ S!Preflight)
  BY DEF S!Boot
<1>2. Types'
  BY <1>1, SessionTypes DEF Types
<1>3. CASE mode' = "filesystem"
  <2>1. \A s \in Sessions : SessionOK(s)'
    BY <1>1, <1>3, SessionStays
  <2>. QED
    BY <1>1, <1>2, <2>1, NoFileKeeps DEF ShadowInv
<1>4. CASE mode' = "canary" /\ S!Preflight
  <2>1. ASSUME NEW s \in Sessions PROVE SessionOK(s)'
    <3>1. SessionOK(s) /\ s \in S!Items
      BY ItemFacts DEF ShadowInv
    <3>2. ASSUME s \notin expired, sessionFile[s] > 0 PROVE row[s] = S!Row(1, "PRESENT")
      <4>1. S!Plan(sessionFile, expired, row)[s] \in {"NONE", "MATCHED"}
        BY <1>4 DEF S!Preflight
      <4>2. sessionFile \in [S!Items -> Revisions]
        BY SessionTypes
      <4>3. row[s] = S!Row(sessionFile[s], "PRESENT")
        BY <3>1, <3>2, <4>1, <4>2, PlanFacts
      <4>4. sessionFile[s] = 1
        BY <3>1, <3>2, FileFacts DEF ShadowInv, RowsOK
      <4>. QED
        BY <4>3, <4>4
    <3>3. ASSUME s \notin expired PROVE Current(s)'
      BY <1>1, <3>1, <3>2, <3>3 DEF SessionOK, Current
    <3>4. ASSUME start[s] = "not yet" PROVE Untouched(s)'
      BY <1>1, <3>1, <3>4 DEF SessionOK, Untouched
    <3>. QED
      BY <1>1, <3>1, <3>3, <3>4 DEF SessionOK
  <2>. QED
    BY <1>1, <1>2, <2>1, NoFileKeeps DEF ShadowInv
<1>. QED
  BY <1>1, <1>3, <1>4

\* The row that a commit puts in place of x: as it was held.
LEMMA HeldFacts ==
  ASSUME ShadowInv, NEW j \in Jobs, NEW x \in Staged(job[j])
  PROVE  /\ x \in S!Items
         /\ \/ job[j].staged[x] = {} /\ x \in job[j].over
            \/ job[j].seen[x] \in 1..(MaxRevision + 1) /\ job[j].staged[x] = S!Row(job[j].seen[x], "PRESENT")
            \/ /\ job[j].seen[x] = 0
               /\ \E n \in 1..(MaxRevision + 1) : \E q : row[x] = S!Row(n, q) /\ job[j].staged[x] = S!Row(n, Marked)
<1>1. JobOK(job[j], row, sessionFile, expired) /\ x \in S!Items /\ Held(job[j], x, row[x])
  BY JobFacts DEF JobOK
<1>2. job[j].stage # "idle"
  BY DEF Staged
<1>3. job[j].seen[x] \in Revisions
  BY <1>1, <1>2 DEF JobOK, Seen
<1>4. CASE job[j].staged[x] = S!Row(job[j].seen[x], "PRESENT") /\ job[j].seen[x] > 0
  BY <1>1, <1>3, <1>4, ServerStoresAssumption DEF Revisions
<1>5. CASE job[j].staged[x] = {[q EXCEPT !.state = Marked] : q \in row[x]} /\ row[x] # {} /\ job[j].seen[x] = 0
  <2>1. PICK n \in 1..(MaxRevision + 1) : \E q : row[x] = S!Row(n, q)
    BY <1>1, <1>5 DEF ShadowInv, RowsOK
  <2>2. PICK q : row[x] = S!Row(n, q)
    BY <2>1
  <2>3. row[x] = {[revision |-> n, state |-> q]}
    BY <2>2 DEF S!Row
  <2>4. [[revision |-> n, state |-> q] EXCEPT !.state = Marked] = [revision |-> n, state |-> Marked]
    OBVIOUS
  <2>5. job[j].staged[x] = {[revision |-> n, state |-> Marked]}
    BY <1>5, <2>3, <2>4
  <2>. QED
    BY <1>1, <1>5, <2>2, <2>5 DEF S!Row
<1>. QED
  BY <1>1, <1>4, <1>5 DEF Held

\* What a commit does: the rows that it held are those that it leaves, and it holds
\* none any more.
LEMMA CommitFacts ==
  ASSUME ShadowInv, NEW j \in Jobs, S!Commit(j)
  PROVE  /\ mode' = mode /\ start' = start /\ request' = request /\ sessionFile' = sessionFile /\ expired' = expired
         /\ job[j].stage = "rechecked" /\ job'[j] = S!Idle /\ S!Idle.stage = "idle" /\ Staged(S!Idle) = {}
         /\ DOMAIN job' = Jobs /\ \A k \in Jobs \ {j} : job'[k] = job[k]
         /\ DOMAIN row' = S!Items /\ \A x \in S!Items \ Staged(job[j]) : row'[x] = row[x]
         /\ \A x \in Staged(job[j]) : row'[x] = job[j].staged[x]
<1>1. /\ job[j].stage = "rechecked" /\ job' = [job EXCEPT ![j] = S!Idle]
      /\ row' = [x \in S!Items |-> IF x \in Staged(job[j]) THEN job[j].staged[x] ELSE row[x]]
  BY StagedFacts DEF S!Commit, S!View
<1>2. \A x \in Staged(job[j]) : x \in S!Items
  BY HeldFacts
<1>3. S!Idle.stage = "idle"
  BY DEF S!Idle
<1>4. Staged(S!Idle) = {}
  BY <1>3 DEF Staged
<1>5. job'[j] = S!Idle /\ DOMAIN job' = Jobs /\ \A k \in Jobs \ {j} : job'[k] = job[k]
  BY <1>1, JobFacts
<1>6. mode' = mode /\ start' = start /\ request' = request /\ sessionFile' = sessionFile /\ expired' = expired
  BY DEF S!Commit, S!serverVars
<1>. QED
  BY <1>1, <1>2, <1>3, <1>4, <1>5, <1>6

LEMMA CommitRows ==
  ASSUME ShadowInv, NEW j \in Jobs, S!Commit(j)
  PROVE  Types' /\ RowsOK' /\ IntentsKept
<1>. DEFINE w == job[j]
            D == Staged(job[j])
<1>1. /\ \A x \in S!Items \ D : row'[x] = row[x]
      /\ \A x \in D : row'[x] = w.staged[x]
      /\ DOMAIN row' = S!Items /\ sessionFile' = sessionFile /\ w.stage = "rechecked"
  BY CommitFacts
<1>2. JobOK(w, row, sessionFile, expired)
  BY JobFacts
<1>3. ASSUME NEW x \in S!Items
      PROVE  row'[x] = {} \/ \E n \in 1..(MaxRevision + 1) : \E q \in {"PRESENT", Marked} : row'[x] = S!Row(n, q)
  <2>1. CASE x \in D
    BY <1>1, <2>1, HeldFacts
  <2>2. CASE x \notin D
    BY <1>1, <2>2 DEF ShadowInv, RowsOK
  <2>. QED
    BY <2>1, <2>2
<1>4. row' \in [S!Items -> SUBSET S!Rows]
  <2>1. ASSUME NEW f, DOMAIN f = S!Items,
               \A x \in S!Items : f[x] = {} \/ \E n \in 1..(MaxRevision + 1) : \E q \in {"PRESENT", Marked} : f[x] = S!Row(n, q)
        PROVE  \A x \in S!Items : f[x] \subseteq S!Rows
    BY <2>1 DEF S!Row, S!Rows, Marked
  <2>2. \A x \in S!Items : row'[x] \subseteq S!Rows
    BY <1>1, <1>3, <2>1
  <2>3. row' = [x \in S!Items |-> row'[x]]
    <3>1. \E f : row' = [x \in S!Items |-> f[x]]
      <4>1. row' = S!View(j)
        BY DEF S!Commit
      <4>. QED
        BY <4>1 DEF S!View
    <3>. QED
      BY <3>1
  <2>. QED
    BY <2>2, <2>3
<1>5. Types'
  BY <1>4, CommitFacts DEF ShadowInv, Types
<1>6. ASSUME NEW s \in Sessions PROVE sessionFile'[s] <= 1 /\ \A r \in row'[s] : r.revision = 1
  <2>1. s \in S!Items /\ sessionFile[s] <= 1 /\ \A r \in row[s] : r.revision = 1
    BY ItemFacts DEF ShadowInv, RowsOK
  <2>2. CASE s \in D
    <3>1. w.seen[s] <= 1
      BY <1>1, <1>2 DEF JobOK, Seen
    <3>2. CASE w.seen[s] \in 1..(MaxRevision + 1) /\ w.staged[s] = S!Row(w.seen[s], "PRESENT")
      <4>1. w.seen[s] = 1
        BY <3>1, <3>2
      <4>. QED
        BY <1>1, <2>1, <2>2, <3>2, <4>1 DEF S!Row
    <3>3. CASE \E n \in 1..(MaxRevision + 1) : \E q : row[s] = S!Row(n, q) /\ w.staged[s] = S!Row(n, Marked)
      <4>1. PICK n \in 1..(MaxRevision + 1) : \E q : row[s] = S!Row(n, q) /\ w.staged[s] = S!Row(n, Marked)
        BY <3>3
      <4>2. n = 1
        BY <2>1, <4>1 DEF S!Row
      <4>. QED
        BY <1>1, <2>1, <2>2, <4>1, <4>2 DEF S!Row
    <3>. QED
      BY <1>1, <2>1, <2>2, <3>2, <3>3, HeldFacts
  <2>. QED
    BY <1>1, <2>1, <2>2
<1>7. ASSUME NEW i \in Intents PROVE \A r \in row'[i] : r.revision <= sessionFile'[i]
  <2>1. i \in S!Items /\ \A r \in row[i] : r.revision <= sessionFile[i]
    BY ItemFacts DEF ShadowInv, RowsOK
  <2>2. CASE i \in D
    <3>1. w.seen[i] <= sessionFile[i]
      BY <1>1, <1>2 DEF JobOK, Seen
    <3>2. CASE w.staged[i] = S!Row(w.seen[i], "PRESENT")
      BY <1>1, <2>1, <2>2, <3>1, <3>2 DEF S!Row
    <3>3. CASE \E n \in 1..(MaxRevision + 1) : \E q : row[i] = S!Row(n, q) /\ w.staged[i] = S!Row(n, Marked)
      BY <1>1, <2>1, <2>2, <3>3 DEF S!Row
    <3>. QED
      BY <1>1, <2>1, <2>2, <3>2, <3>3, HeldFacts
  <2>. QED
    BY <1>1, <2>1, <2>2
<1>8. IntentsKept
  <2>. SUFFICES ASSUME NEW i \in Intents, NEW r \in row[i] PROVE \E q \in row'[i] : q.revision >= r.revision
    BY DEF IntentsKept
  <2>1. CASE i \in D
    BY <1>1, <1>2, <2>1 DEF JobOK, Rechecked
  <2>2. CASE i \notin D
    <3>1. i \in S!Items /\ r.revision \in Nat
      BY ItemFacts, RevisionsAreNumbers
    <3>. QED
      BY <1>1, <2>2, <3>1
  <2>. QED
    BY <2>1, <2>2
<1>. QED
  BY <1>3, <1>5, <1>6, <1>7, <1>8 DEF RowsOK

LEMMA CommitKeeps ==
  ASSUME ShadowInv, NEW j \in Jobs, S!Commit(j)
  PROVE  ShadowInv' /\ IntentsKept
<1>. DEFINE w == job[j]
            D == Staged(job[j])
<1>1. JobsOK'
  <2>1. JobOK(S!Idle, row', sessionFile', expired')
    BY CommitFacts DEF JobOK, Shape, Seen, Planned, Rechecked
  <2>2. ASSUME NEW k \in Jobs \ {j} PROVE JobOK(job[k], row', sessionFile', expired')
    <3>1. JobOK(job[k], row, sessionFile, expired) /\ Staged(job[k]) \subseteq S!Items
      BY JobFacts DEF JobOK
    <3>2. Staged(job[k]) \cap D = {}
      BY DEF ShadowInv, Locks
    <3>3. \A x \in Staged(job[k]) : row'[x] = row[x]
      BY <3>1, <3>2, CommitFacts
    <3>4. sessionFile' = sessionFile /\ expired' = expired
      BY CommitFacts
    <3>5. Rechecked(job[k], row', sessionFile)
      BY <3>1, <3>3 DEF JobOK, Rechecked
    <3>. QED
      BY <3>1, <3>3, <3>4, <3>5 DEF JobOK
  <2>. QED
    BY <2>1, <2>2, CommitFacts DEF JobsOK
<1>2. Locks'
  <2>1. \A k \in Jobs : Staged(job'[k]) \subseteq Staged(job[k])
    BY CommitFacts
  <2>. QED
    BY <2>1 DEF ShadowInv, Locks
<1>3. ASSUME NEW s \in Sessions PROVE SessionOK(s)'
  <2>0. SessionOK(s) /\ s \in S!Items
    BY ItemFacts DEF ShadowInv
  <2>1. /\ start'[s] = start[s] /\ request'[s] = request[s] /\ sessionFile'[s] = sessionFile[s] /\ mode' = mode
        /\ expired' = expired /\ job[j].stage = "rechecked"
    BY CommitFacts
  <2>2. \A k \in Jobs : job'[k] = job[k] \/ (job'[k].stage = "idle" /\ Staged(job'[k]) = {})
    BY CommitFacts
  <2>3. ASSUME start[s] = "not yet" PROVE Untouched(s)'
    <3>1. Untouched(s)
      BY <2>0, <2>3 DEF SessionOK
    <3>2. row'[s] = row[s]
      BY <2>0, <3>1, CommitFacts DEF Untouched, Unaware
    <3>3. \A k \in Jobs : Unaware(job'[k], s)
      BY <2>2, <3>1 DEF Untouched, Unaware
    <3>. QED
      BY <2>1, <3>1, <3>2, <3>3 DEF Untouched
  <2>4. ASSUME s \notin expired PROVE Current(s)'
    <3>1. Current(s)
      BY <2>0, <2>4 DEF SessionOK
    <3>2. \A k \in Jobs : job'[k].stage = "rechecked" => job'[k] = job[k]
      BY <2>2
    <3>3. CASE s \notin D
      <4>1. row'[s] = row[s]
        BY <2>0, <3>3, CommitFacts
      <4>. QED
        BY <2>1, <3>1, <3>2, <4>1 DEF Current
    <3>4. CASE s \in D
      <4>1. s \notin w.over /\ w.seen[s] <= 1 /\ (w.seen[s] = 0 => sessionFile[s] = 0)
        <5>1. JobOK(w, row, sessionFile, expired)
          BY JobFacts
        <5>. QED
          BY <2>1, <2>4, <3>4, <5>1 DEF JobOK, Seen, Rechecked
      <4>2. row'[s] = w.staged[s]
        BY <3>4, CommitFacts
      <4>3. request[s] # "removed"
        BY <2>1, <3>1, <3>4 DEF Current
      <4>4. /\ S!Row(1, "PRESENT") # S!Row(1, Marked) /\ S!Row(1, "PRESENT") # {}
            /\ \A n : S!Row(n, Marked) # {}
        BY SessionTypes DEF S!Row
      <4>5. CASE row'[s] = S!Row(1, "PRESENT")
        BY <2>1, <4>3, <4>4, <4>5 DEF Current
      <4>6. CASE row'[s] # {} /\ sessionFile[s] = 0
        BY <2>1, <4>3, <4>6 DEF Current
      <4>7. w.seen[s] \in 1..(MaxRevision + 1) => w.seen[s] = 1
        BY <4>1
      <4>. QED
        BY <3>4, <4>1, <4>2, <4>4, <4>5, <4>6, <4>7, HeldFacts
    <3>. QED
      BY <3>3, <3>4
  <2>. QED
    BY <2>0, <2>1, <2>3, <2>4 DEF SessionOK
<1>. QED
  BY <1>1, <1>2, <1>3, CommitRows DEF ShadowInv

-----------------------------------------------------------------------------
LEMMA ShadowStep == ShadowInv /\ [S!Next]_sessionVars => ShadowInv' /\ IntentsKept
<1>. SUFFICES ASSUME ShadowInv, [S!Next]_sessionVars PROVE ShadowInv' /\ IntentsKept
  OBVIOUS
<1>1. CASE UNCHANGED sessionVars
  <2>1. /\ mode' = mode /\ sessionFile' = sessionFile /\ expired' = expired /\ row' = row /\ job' = job
        /\ start' = start /\ request' = request
    BY <1>1 DEF sessionVars
  <2>2. Types' /\ \A s \in Sessions : SessionOK(s)'
    BY <2>1, SessionStays DEF ShadowInv, Types
  <2>. QED
    BY <2>1, <2>2, NoFileKeeps DEF ShadowInv
<1>2. CASE \E j \in Jobs : S!Discover(j) \/ S!MakePlan(j) \/ S!Write(j) \/ S!Recheck(j) \/ S!Commit(j) \/ S!Abort(j)
  BY <1>2, DiscoverKeeps, MakePlanKeeps, WriteKeeps, RecheckKeeps, CommitKeeps, AbortKeeps
<1>3. CASE S!Boot \/ S!Stop
  BY <1>3, BootKeeps, StopKeeps
<1>4. CASE \E s \in Sessions :
             \/ S!Start(s) \/ S!Publish(s) \/ S!Started(s) \/ S!PublishFails(s)
             \/ S!Authenticate(s) \/ S!Read(s) \/ S!Answer(s) \/ S!Logout(s) \/ S!RemoveShadow(s) \/ S!RemoveFails(s)
             \/ S!Expire(s) \/ S!Sweep(s)
  BY <1>4, StartKeeps, PublishKeeps, StartedKeeps, PublishFailsKeeps, AuthenticateKeeps, ReadKeeps, AnswerKeeps,
     LogoutKeeps, RemoveShadowKeeps, RemoveFailsKeeps, ExpireKeeps, SweepKeeps
<1>5. CASE \E i \in Intents : S!Advance(i)
  BY <1>5, AdvanceKeeps
<1>. QED
  BY <1>1, <1>2, <1>3, <1>4, <1>5 DEF S!Next

LEMMA ShadowSessions == ShadowInv => SessionsAreKept
<1>. SUFFICES ASSUME ShadowInv, NEW s \in Sessions \ expired
              PROVE  /\ mode = "canary" /\ start[s] = "given" /\ sessionFile[s] > 0 => row[s] = S!Row(1, "PRESENT")
                     /\ request[s] = "removed" => row[s] = {}
  BY DEF SessionsAreKept, S!LiveSessionIsServed, S!RemovedStaysRemoved
<1>. QED
  BY DEF ShadowInv, SessionOK, Current

-----------------------------------------------------------------------------
(* The callbacks of PartnerReconciliation.                                 *)

\* Signed callbacks of a transaction are numbered in turn, and the outcome ends them.
Precedes(x, y) == x.sequence < y.sequence /\ x.event \notin TerminalEvents
EmittedInTurn ==
  \A x, y \in emitted : x.transaction = y.transaction => x = y \/ Precedes(x, y) \/ Precedes(y, x)

\* What is recorded was signed, under its own id, of a registered operation.
TakenIsSigned(m) ==
  \A i \in Ids : \A cb \in m.callback[i] :
    cb \in emitted /\ cb.id = i /\ m.operation[cb.transaction] # {}

OneOperation(m) == \A t \in Transactions : \A o, p \in m.operation[t] : o = p

\* An operation is as a partner result left it, or as a recorded callback did.
Explained(m) ==
  \A t \in Transactions : \A o \in m.operation[t] :
    \/ o.last = 0 /\ o.state \in InitialStates
    \/ \E i \in Ids : \E cb \in m.callback[i] :
         cb.transaction = t /\ cb.sequence = o.last /\ o.state = StateAfter(cb.event)

NothingLater(m) ==
  \A i \in Ids : \A cb \in m.callback[i] : \A o \in m.operation[cb.transaction] : cb.sequence <= o.last

Recorded(m) == TakenIsSigned(m) /\ OneOperation(m) /\ Explained(m) /\ NothingLater(m)

\* Memory is what file is, or later.
Keeps(o, p) == p.last >= o.last /\ (o.state \in TerminalStates => p.state = o.state)
MemoryAhead ==
  \A t \in Transactions : \A o \in file.operation[t] : \E p \in memory.operation[t] : Keeps(o, p)

\* The file never goes back.
FileKeeps ==
  \A t \in Transactions : \A o \in file.operation[t] : \E p \in file'.operation[t] : Keeps(o, p)

\* As long as no save has failed, file and memory are the same and hold whatever
\* the partner was answered for.
Quiet ==
  failedSaves = 0 => memory = file /\ \A cb \in acknowledged : cb \in memory.callback[cb.id]

CallbackInv ==
  /\ TypeOK /\ EmittedInTurn /\ acknowledged \subseteq emitted
  /\ Recorded(memory) /\ Recorded(file) /\ MemoryAhead /\ Quiet

-----------------------------------------------------------------------------
LEMMA TerminalFacts ==
  /\ TerminalEvents = {"SETTLED", "AUTHORIZATION_REJECTED"}
  /\ TerminalStates = {"SETTLED_BY_PARTNER", "REJECTED"}
  /\ Terminal["SETTLED"] = "SETTLED_BY_PARTNER" /\ Terminal["AUTHORIZATION_REJECTED"] = "REJECTED"
BY DEF TerminalEvents, TerminalStates, Terminal

LEMMA CallbackFacts ==
  ASSUME NEW cb \in Callbacks
  PROVE  /\ cb.transaction \in Transactions /\ cb.id \in Ids
         /\ cb.sequence \in Nat /\ cb.sequence > 0
         /\ StateAfter(cb.event) \in States
         /\ cb.event \in TerminalEvents => StateAfter(cb.event) = Terminal[cb.event]
<1>1. cb.event \in EventTypes /\ cb.sequence \in Nat \ {0}
  BY PartnerReconciliationAssumption
<1>2. StateAfter(cb.event) \in States /\ (cb.event \in TerminalEvents => StateAfter(cb.event) = Terminal[cb.event])
  BY <1>1, TerminalFacts DEF StateAfter, States, EventTypes
<1>. QED
  BY <1>1, <1>2 DEF Transactions, Ids

LEMMA CallbackInit == Init => CallbackInv
<1>. SUFFICES ASSUME Init PROVE CallbackInv
  OBVIOUS
<1>1. TypeOK
  BY PartnerReconciliationAssumption DEF Init, TypeOK, Memories
<1>. QED
  BY <1>1 DEF Init, CallbackInv, EmittedInTurn, Recorded, TakenIsSigned, OneOperation, Explained,
              NothingLater, MemoryAhead, Quiet

LEMMA FileStays == CallbackInv /\ file' = file => FileKeeps
BY DEF CallbackInv, TypeOK, Memories, Operations, FileKeeps, Keeps

\* A new signature.
LEMMA EmitKeeps ==
  ASSUME CallbackInv, NEW cb \in Callbacks, Emit(cb)
  PROVE  CallbackInv' /\ FileKeeps
<1>1. emitted' = emitted \cup {cb} /\ UNCHANGED <<memory, file, acknowledged, failedSaves, restarts>>
  BY DEF Emit
<1>2. TypeOK'
  BY <1>1 DEF CallbackInv, TypeOK
<1>3. EmittedInTurn'
  BY <1>1 DEF Emit, CallbackInv, EmittedInTurn, Precedes
<1>4. Recorded(memory)' /\ Recorded(file)'
  BY <1>1 DEF CallbackInv, Recorded, TakenIsSigned, OneOperation, Explained, NothingLater
<1>5. MemoryAhead' /\ Quiet' /\ (acknowledged \subseteq emitted)'
  BY <1>1 DEF CallbackInv, MemoryAhead, Quiet
<1>. QED
  BY <1>1, <1>2, <1>3, <1>4, <1>5, FileStays DEF CallbackInv

\* What follows for the file when memory has moved and was saved or not.
LEMMA SavedOrNot ==
  ASSUME CallbackInv, Saved \/ SaveFails, memory' \in Memories, UNCHANGED <<emitted, restarts>>,
         Recorded(memory)',
         \A t \in Transactions : \A o \in memory.operation[t] : \E p \in memory'.operation[t] : Keeps(o, p),
         acknowledged' \subseteq emitted,
         SaveFails => acknowledged' = acknowledged,
         Saved => \A cb \in acknowledged' : cb \in acknowledged \/ cb \in memory'.callback[cb.id],
         \A i \in Ids : memory.callback[i] \subseteq memory'.callback[i]
  PROVE  CallbackInv' /\ FileKeeps
<1>1. file' \in {file, memory'} /\ failedSaves' \in 0..MaxFailedSaves
  BY PartnerReconciliationAssumption DEF Saved, SaveFails, CallbackInv, TypeOK
<1>2. TypeOK' /\ EmittedInTurn' /\ (acknowledged \subseteq emitted)'
  BY <1>1 DEF CallbackInv, TypeOK, EmittedInTurn
<1>3. Recorded(file)'
  BY <1>1 DEF CallbackInv, Recorded, TakenIsSigned, OneOperation, Explained, NothingLater
<1>4. \A t \in Transactions : \A o, p, q \in Operations : Keeps(o, p) /\ Keeps(p, q) => Keeps(o, q)
  BY DEF Keeps, Operations
<1>5. \A t \in Transactions : /\ memory.operation[t] \subseteq Operations /\ file.operation[t] \subseteq Operations
                              /\ memory'.operation[t] \subseteq Operations
  BY DEF CallbackInv, TypeOK, Memories
<1>6. \A o \in Operations : Keeps(o, o)
  BY DEF Keeps, Operations
<1>7. MemoryAhead'
  <2>1. CASE file' = memory'
    BY <2>1, <1>5, <1>6 DEF MemoryAhead
  <2>2. CASE file' = file
    BY <2>2, <1>4, <1>5 DEF MemoryAhead, CallbackInv
  <2>. QED
    BY <1>1, <2>1, <2>2
<1>8. Quiet'
  <2>1. CASE Saved
    <3>1. failedSaves' = 0 => \A cb \in acknowledged : cb \in memory'.callback[cb.id]
      BY <2>1, CallbackFacts DEF Saved, CallbackInv, Quiet, TypeOK
    <3>. QED
      BY <2>1, <3>1 DEF Saved, Quiet
  <2>2. CASE SaveFails
    <3>1. failedSaves' # 0
      BY <2>2 DEF SaveFails, CallbackInv, TypeOK
    <3>. QED
      BY <3>1 DEF Quiet
  <2>. QED
    BY <2>1, <2>2
<1>9. FileKeeps
  <2>1. CASE file' = memory'
    BY <2>1, <1>4, <1>5 DEF FileKeeps, MemoryAhead, CallbackInv
  <2>. QED
    BY <1>1, <2>1, FileStays
<1>. QED
  BY <1>2, <1>3, <1>7, <1>8, <1>9 DEF CallbackInv

LEMMA RegisterKeeps ==
  ASSUME CallbackInv, NEW t \in Transactions, NEW state \in InitialStates, Register(t, state)
  PROVE  CallbackInv' /\ FileKeeps
<1>1. /\ memory.operation[t] = {} /\ UNCHANGED <<emitted, acknowledged, restarts>>
      /\ memory' = [memory EXCEPT !.operation[t] = {[state |-> state, last |-> 0]}]
      /\ Saved \/ SaveFails
  BY DEF Register
<1>2. memory \in Memories
  BY DEF CallbackInv, TypeOK
<1>3. [state |-> state, last |-> 0] \in Operations
  BY DEF Operations, InitialStates, States
<1>4. /\ memory' \in Memories /\ memory'.callback = memory.callback
      /\ \A u \in Transactions : memory'.operation[u] = IF u = t THEN {[state |-> state, last |-> 0]} ELSE memory.operation[u]
  BY <1>1, <1>2, <1>3 DEF Memories
<1>5. \A i \in Ids : \A cb \in memory.callback[i] : cb \in Callbacks /\ cb.transaction # t
  BY <1>1, <1>2 DEF Memories, CallbackInv, Recorded, TakenIsSigned
<1>6. Recorded(memory)'
  <2>1. TakenIsSigned(memory)' /\ OneOperation(memory)'
    BY <1>1, <1>4, <1>5, CallbackFacts DEF CallbackInv, Recorded, TakenIsSigned, OneOperation
  <2>2. Explained(memory)'
    BY <1>4 DEF CallbackInv, Recorded, Explained
  <2>3. NothingLater(memory)'
    BY <1>4, <1>5, CallbackFacts DEF CallbackInv, Recorded, NothingLater
  <2>. QED
    BY <2>1, <2>2, <2>3 DEF Recorded
<1>7. \A u \in Transactions : \A o \in memory.operation[u] : \E p \in memory'.operation[u] : Keeps(o, p)
  BY <1>1, <1>2, <1>4 DEF Memories, Operations, Keeps
<1>. QED
  BY <1>1, <1>4, <1>6, <1>7, SavedOrNot DEF CallbackInv

LEMMA ApplyKeeps ==
  ASSUME CallbackInv, NEW cb \in Callbacks, Apply(cb)
  PROVE  CallbackInv' /\ FileKeeps
<1>1. /\ Applicable(cb) /\ UNCHANGED <<emitted, restarts>>
      /\ memory' = [operation |-> [memory.operation EXCEPT ![cb.transaction] = Moved(cb)],
                    callback |-> [memory.callback EXCEPT ![cb.id] = {cb}]]
      /\ (Saved /\ acknowledged' = acknowledged \cup {cb}) \/ (SaveFails /\ UNCHANGED acknowledged)
  BY DEF Apply
<1>2. memory \in Memories /\ cb.transaction \in Transactions /\ cb.id \in Ids
  BY CallbackFacts DEF CallbackInv, TypeOK
<1>3. [state |-> StateAfter(cb.event), last |-> cb.sequence] \in Operations
  BY CallbackFacts DEF Operations
<1>4. /\ memory' \in Memories
      /\ \A u \in Transactions : memory'.operation[u] = IF u = cb.transaction THEN Moved(cb) ELSE memory.operation[u]
      /\ \A i \in Ids : memory'.callback[i] = IF i = cb.id THEN {cb} ELSE memory.callback[i]
  BY <1>1, <1>2, <1>3 DEF Memories, Moved
<1>5. /\ cb \in emitted /\ memory.callback[cb.id] = {}
      /\ \E o \in memory.operation[cb.transaction] : cb.sequence > o.last /\ Allowed(o.state, cb.event)
  BY <1>1 DEF Applicable, Verify
<1>6. \A o \in memory.operation[cb.transaction] : cb.sequence > o.last /\ Allowed(o.state, cb.event)
  BY <1>2, <1>5 DEF CallbackInv, Recorded, OneOperation
<1>7. Recorded(memory)'
  <2>1. TakenIsSigned(memory)'
    BY <1>1, <1>4, <1>5, CallbackFacts DEF CallbackInv, Recorded, TakenIsSigned, Moved, Memories
  <2>2. OneOperation(memory)'
    BY <1>4 DEF CallbackInv, Recorded, OneOperation, Moved
  <2>3. Explained(memory)'
    BY <1>2, <1>4, <1>5 DEF CallbackInv, Recorded, Explained, Moved
  <2>4. NothingLater(memory)'
    <3>. SUFFICES ASSUME NEW i \in Ids, NEW x \in memory'.callback[i], NEW o \in memory'.operation[x.transaction]
                  PROVE  x.sequence <= o.last
      BY DEF NothingLater
    <3>1. CASE i = cb.id
      BY <3>1, <1>2, <1>4, CallbackFacts DEF Moved
    <3>2. CASE i # cb.id
      <4>1. x \in memory.callback[i] /\ x \in Callbacks
        BY <3>2, <1>2, <1>4 DEF Memories
      <4>2. CASE x.transaction = cb.transaction
        <5>1. PICK p \in memory.operation[cb.transaction] : cb.sequence > p.last
          BY <1>5
        <5>2. x.sequence <= p.last /\ p.last \in Nat
          BY <4>1, <4>2, <5>1, <1>2 DEF CallbackInv, Recorded, NothingLater, Memories, Operations
        <5>3. o.last = cb.sequence
          BY <4>2, <1>2, <1>4 DEF Moved
        <5>. QED
          BY <5>1, <5>2, <5>3, <4>1, CallbackFacts
      <4>3. CASE x.transaction # cb.transaction
        BY <4>1, <4>3, <1>4, CallbackFacts DEF CallbackInv, Recorded, NothingLater
      <4>. QED
        BY <4>2, <4>3
    <3>. QED
      BY <3>1, <3>2
  <2>. QED
    BY <2>1, <2>2, <2>3, <2>4 DEF Recorded
<1>8. \A u \in Transactions : \A o \in memory.operation[u] : \E p \in memory'.operation[u] : Keeps(o, p)
  <2>1. \A o \in memory.operation[cb.transaction] : Keeps(o, [state |-> StateAfter(cb.event), last |-> cb.sequence])
    BY <1>2, <1>6, CallbackFacts DEF Keeps, Allowed, Memories, Operations
  <2>2. \A u \in Transactions : \A o \in memory.operation[u] : Keeps(o, o)
    BY <1>2 DEF Keeps, Memories, Operations
  <2>. QED
    BY <2>1, <2>2, <1>4 DEF Moved
<1>9. \A i \in Ids : memory.callback[i] \subseteq memory'.callback[i]
  BY <1>4, <1>5
<1>10. /\ acknowledged' \subseteq emitted
       /\ SaveFails => acknowledged' = acknowledged
       /\ Saved => \A x \in acknowledged' : x \in acknowledged \/ x \in memory'.callback[x.id]
  <2>1. SaveFails => ~Saved
    BY DEF Saved, SaveFails, CallbackInv, TypeOK
  <2>. QED
    BY <2>1, <1>1, <1>2, <1>4, <1>5 DEF CallbackInv
<1>. QED
  BY <1>1, <1>4, <1>7, <1>8, <1>9, <1>10, SavedOrNot

LEMMA DuplicateKeeps ==
  ASSUME CallbackInv, NEW cb \in Callbacks, Duplicate(cb)
  PROVE  CallbackInv' /\ FileKeeps
<1>1. /\ cb \in emitted /\ memory.callback[cb.id] = {cb} /\ acknowledged' = acknowledged \cup {cb}
      /\ UNCHANGED <<memory, file, emitted, failedSaves, restarts>>
  BY DEF Duplicate, Verify
<1>. QED
  BY <1>1, FileStays DEF CallbackInv, TypeOK, EmittedInTurn, Recorded, TakenIsSigned, OneOperation, Explained, NothingLater,
              MemoryAhead, Quiet

LEMMA RestartKeeps ==
  ASSUME CallbackInv, Restart
  PROVE  CallbackInv' /\ FileKeeps
<1>1. memory' = file /\ restarts' = restarts + 1 /\ restarts < MaxRestarts
      /\ UNCHANGED <<file, emitted, acknowledged, failedSaves>>
  BY DEF Restart
<1>2. TypeOK' /\ EmittedInTurn' /\ (acknowledged \subseteq emitted)'
  BY <1>1, PartnerReconciliationAssumption DEF CallbackInv, TypeOK, EmittedInTurn
<1>3. Recorded(memory)' /\ Recorded(file)'
  BY <1>1 DEF CallbackInv, Recorded, TakenIsSigned, OneOperation, Explained, NothingLater
<1>4. MemoryAhead'
  BY <1>1 DEF CallbackInv, TypeOK, Memories, Operations, MemoryAhead, Keeps
<1>5. Quiet'
  BY <1>1 DEF CallbackInv, Quiet
<1>. QED
  BY <1>1, <1>2, <1>3, <1>4, <1>5, FileStays DEF CallbackInv

LEMMA CallbackStep == CallbackInv /\ [Next]_vars => CallbackInv' /\ FileKeeps
<1>. SUFFICES ASSUME CallbackInv, [Next]_vars PROVE CallbackInv' /\ FileKeeps
  OBVIOUS
<1>1. ASSUME UNCHANGED vars PROVE CallbackInv' /\ FileKeeps
  BY <1>1, FileStays DEF vars, CallbackInv, TypeOK, EmittedInTurn, Recorded, TakenIsSigned, OneOperation, Explained,
              NothingLater, MemoryAhead, Quiet
<1>. QED
  BY <1>1, EmitKeeps, RegisterKeeps, ApplyKeeps, DuplicateKeeps, RestartKeeps DEF Next, Reject

-----------------------------------------------------------------------------
LEMMA CallbackBelieved == CallbackInv => PartnerIsBelieved
<1>. SUFFICES ASSUME CallbackInv PROVE PartnerIsBelieved
  OBVIOUS
<1>1. ASSUME NEW m \in {memory, file}, NEW t \in Transactions, NEW o \in m.operation[t],
             NEW i \in Ids, NEW cb \in m.callback[i], cb.transaction = t
      PROVE  cb.sequence <= o.last /\ (cb.sequence = o.last => o.state = StateAfter(cb.event))
  <2>1. Recorded(m) /\ cb \in Callbacks /\ cb \in emitted
    BY DEF CallbackInv, TypeOK, Memories, Recorded, TakenIsSigned
  <2>2. cb.sequence <= o.last
    BY <1>1, <2>1 DEF Recorded, NothingLater
  <2>3. ASSUME cb.sequence = o.last PROVE o.state = StateAfter(cb.event)
    <3>1. o.last # 0
      BY <2>1, <2>3, CallbackFacts
    <3>2. PICK j \in Ids : \E x \in m.callback[j] :
            x.transaction = t /\ x.sequence = o.last /\ o.state = StateAfter(x.event)
      BY <2>1, <3>1 DEF Recorded, Explained
    <3>3. PICK x \in m.callback[j] : x.transaction = t /\ x.sequence = o.last /\ o.state = StateAfter(x.event)
      BY <3>2
    <3>4. x \in emitted /\ x \in Callbacks
      BY <2>1, <3>3 DEF CallbackInv, TypeOK, Recorded, TakenIsSigned
    <3>5. x = cb
      BY <1>1, <2>1, <2>3, <3>3, <3>4, CallbackFacts DEF CallbackInv, EmittedInTurn, Precedes
    <3>. QED
      BY <3>3, <3>5
  <2>. QED
    BY <2>2, <2>3
<1>2. LatestWins
  BY <1>1 DEF LatestWins
<1>3. SettledByPartnerOnly
  <2>. SUFFICES ASSUME NEW m \in {memory, file}, NEW t \in Transactions, NEW o \in m.operation[t],
                       o.state = "SETTLED_BY_PARTNER"
                PROVE  \E cb \in emitted : cb.transaction = t /\ cb.event = "SETTLED" /\ cb.sequence = o.last
    BY DEF SettledByPartnerOnly
  <2>1. Recorded(m) /\ \A i \in Ids : m.callback[i] \subseteq Callbacks
    BY DEF CallbackInv, TypeOK, Memories
  <2>2. PICK i \in Ids : \E cb \in m.callback[i] :
          cb.transaction = t /\ cb.sequence = o.last /\ o.state = StateAfter(cb.event)
    BY <2>1 DEF Recorded, Explained, InitialStates
  <2>3. PICK cb \in m.callback[i] : cb.transaction = t /\ cb.sequence = o.last /\ o.state = StateAfter(cb.event)
    BY <2>2
  <2>4. cb \in emitted /\ cb.event \in EventTypes
    BY <2>1, <2>3, PartnerReconciliationAssumption DEF Recorded, TakenIsSigned
  <2>5. cb.event = "SETTLED"
    BY <2>3, <2>4, TerminalFacts DEF StateAfter, EventTypes
  <2>. QED
    BY <2>3, <2>4, <2>5
<1>4. AcknowledgedOutcomeHolds
  <2>. SUFFICES ASSUME failedSaves = 0, NEW cb \in acknowledged, cb.event \in TerminalEvents
                PROVE  \E o \in memory.operation[cb.transaction] : o.state = Terminal[cb.event]
    BY DEF AcknowledgedOutcomeHolds
  <2>1. cb \in memory.callback[cb.id] /\ cb \in emitted /\ cb \in Callbacks
    BY DEF CallbackInv, Quiet, TypeOK
  <2>2. cb.id \in Ids /\ cb.transaction \in Transactions
    BY <2>1, CallbackFacts
  <2>3. PICK o \in memory.operation[cb.transaction] : cb.sequence <= o.last
    BY <2>1, <2>2 DEF CallbackInv, Recorded, TakenIsSigned, NothingLater
  <2>4. o \in Operations
    BY <2>2 DEF CallbackInv, TypeOK, Memories
  <2>5. PICK i \in Ids : \E x \in memory.callback[i] :
          x.transaction = cb.transaction /\ x.sequence = o.last /\ o.state = StateAfter(x.event)
    <3>1. o.last # 0
      BY <2>1, <2>3, <2>4, CallbackFacts DEF Operations
    <3>. QED
      BY <2>2, <3>1 DEF CallbackInv, Recorded, Explained
  <2>6. PICK x \in memory.callback[i] :
          x.transaction = cb.transaction /\ x.sequence = o.last /\ o.state = StateAfter(x.event)
    BY <2>5
  <2>7. x \in emitted /\ x \in Callbacks
    BY <2>6 DEF CallbackInv, TypeOK, Recorded, TakenIsSigned
  <2>8. x = cb
    BY <2>1, <2>3, <2>4, <2>6, <2>7, CallbackFacts DEF CallbackInv, EmittedInTurn, Precedes
  <2>. QED
    BY <2>1, <2>3, <2>6, <2>8, CallbackFacts
<1>. QED
  BY <1>2, <1>3, <1>4 DEF PartnerIsBelieved

-----------------------------------------------------------------------------
(* The stores of PaymentAttemptStore over one file.                        *)

\* No store is ahead of the file, and the number vouches for the snapshot.
StoresFollow ==
  \A s \in PaymentStores :
    /\ store[s].revision <= attempts.revision
    /\ store[s].usable /\ store[s].revision = attempts.revision => store[s].record = attempts.record

OneKeyOnFile ==
  /\ \A k \in Keys : \A r \in attempts.record[k] : r.request.key = k
  /\ \A k, l \in Keys : \A r \in attempts.record[k], q \in attempts.record[l] :
       r.request.transaction = q.request.transaction => k = l

\* What was granted once is on file.
GrantIsOnFile ==
  \A t \in Payments :
    /\ grants[t] <= 1
    /\ grants[t] = 1 => \E k \in Keys : \E r \in attempts.record[k] : r.request.transaction = t

\* A store knows of an attempt without evidence because it found or reserved it.
UnresolvedIsKnown ==
  \A s \in PaymentStores, k \in Keys : \A r \in store[s].record[k] :
    r.evidence = {} => k \in store[s].recovered \cup granted[s]

AttemptInv == A!TypeOK /\ StoresFollow /\ OneKeyOnFile /\ GrantIsOnFile /\ UnresolvedIsKnown

\* What a step may do to an attempt on file.
EvidenceAdded ==
  \A k \in Keys : attempts.record[k] # attempts'.record[k] /\ attempts.record[k] # {} =>
    \E s \in PaymentStores :
      /\ k \in granted[s]
      /\ \E r \in attempts.record[k] : r.evidence = {}
      /\ \E q \in attempts'.record[k] : \E r \in attempts.record[k] : q.request = r.request /\ q.evidence # {}

-----------------------------------------------------------------------------
LEMMA AttemptInit == A!Init => AttemptInv
<1>. SUFFICES ASSUME A!Init PROVE AttemptInv
  OBVIOUS
<1>1. /\ attempts = [revision |-> 0, record |-> A!Empty] /\ A!Empty \in [Keys -> SUBSET A!Records]
      /\ \A k \in Keys : A!Empty[k] = {}
  BY DEF A!Init, A!Empty
<1>2. A!Opened(attempts) = [usable |-> TRUE, revision |-> 0, record |-> A!Empty, recovered |-> {}]
  BY <1>1 DEF A!Opened
<1>3. A!TypeOK
  <2>1. A!Opened(attempts) \in [usable : BOOLEAN, revision : Nat, record : [Keys -> SUBSET A!Records],
                               recovered : SUBSET Keys]
    <3>1. [usable |-> TRUE, revision |-> 0, record |-> A!Empty, recovered |-> {}]
            \in [usable : BOOLEAN, revision : Nat, record : [Keys -> SUBSET A!Records], recovered : SUBSET Keys]
      BY <1>1
    <3>. QED
      BY <1>2, <3>1
  <2>2. store \in [PaymentStores -> [usable : BOOLEAN, revision : Nat, record : [Keys -> SUBSET A!Records],
                                     recovered : SUBSET Keys]]
    BY <2>1 DEF A!Init
  <2>3. attempts \in [revision : Nat, record : [Keys -> SUBSET A!Records]]
    BY <1>1
  <2>4. faults \in 0..MaxFaults
    BY ServerStoresAssumption DEF A!Init
  <2>. QED
    BY <2>2, <2>3, <2>4 DEF A!Init, A!TypeOK
<1>. QED
  BY <1>1, <1>2, <1>3 DEF A!Init, AttemptInv, StoresFollow, OneKeyOnFile, GrantIsOnFile, UnresolvedIsKnown

\* What a store would write while its number is the file's.
LEMMA WithFacts ==
  ASSUME AttemptInv, NEW s \in PaymentStores, NEW asked \in A!Requests,
         NEW evidence \in {{}} \cup {{e} : e \in A!Evidence}
  PROVE  /\ asked.key \in Keys /\ asked.transaction \in Payments
         /\ A!With(s, asked, evidence) \in [Keys -> SUBSET A!Records]
         /\ A!With(s, asked, evidence)[asked.key] = {[request |-> asked, evidence |-> evidence]}
         /\ \A k \in Keys \ {asked.key} : A!With(s, asked, evidence)[k] = store[s].record[k]
<1>1. store[s].record \in [Keys -> SUBSET A!Records] /\ [request |-> asked, evidence |-> evidence] \in A!Records
  BY DEF AttemptInv, A!TypeOK, A!Records
<1>2. asked.key \in Keys /\ asked.transaction \in Payments
  BY DEF A!Requests
<1>. QED
  BY <1>1, <1>2 DEF A!With

\* The file with what a store wrote: of a new attempt, or of one that it reserved.
LEMMA WrittenFile ==
  ASSUME AttemptInv, NEW s \in PaymentStores, NEW asked \in A!Requests,
         NEW evidence \in {{}} \cup {{e} : e \in A!Evidence},
         store[s].usable, ~A!Conflict(s, asked), attempts.revision = store[s].revision,
         attempts' = [revision |-> store[s].revision + 1, record |-> A!With(s, asked, evidence)],
         \/ store[s].record[asked.key] = {}
         \/ /\ evidence # {} /\ asked.key \notin store[s].recovered
            /\ \E r \in store[s].record[asked.key] : r.evidence = {}
  PROVE  /\ attempts' \in [revision : Nat, record : [Keys -> SUBSET A!Records]]
         /\ attempts'.revision = attempts.revision + 1
         /\ OneKeyOnFile' /\ EvidenceAdded
         /\ \A k \in Keys : \A r \in attempts.record[k] : \E q \in attempts'.record[k] : q.request = r.request
         /\ \E q \in attempts'.record[asked.key] : q.request = asked
         /\ store[s].record[asked.key] = {} =>
              \A k \in Keys : \A r \in attempts.record[k] : r.request.transaction # asked.transaction
<1>2. store[s].record = attempts.record
  BY DEF AttemptInv, StoresFollow
<1>1. /\ asked.key \in Keys /\ asked.transaction \in Payments
      /\ A!With(s, asked, evidence) \in [Keys -> SUBSET A!Records]
      /\ attempts'.record[asked.key] = {[request |-> asked, evidence |-> evidence]}
      /\ \A k \in Keys \ {asked.key} : attempts'.record[k] = attempts.record[k]
  <2>1. attempts'.record = A!With(s, asked, evidence)
    OBVIOUS
  <2>. QED
    BY <1>2, <2>1, WithFacts
<1>3. /\ \A r \in attempts.record[asked.key] : r.request = asked
      /\ \A k \in Keys \ {asked.key} : \A r \in attempts.record[k] : r.request.transaction # asked.transaction
  BY <1>2 DEF A!Conflict
<1>4. /\ attempts' \in [revision : Nat, record : [Keys -> SUBSET A!Records]]
      /\ attempts'.revision = attempts.revision + 1
  BY <1>1 DEF AttemptInv, A!TypeOK
<1>5. OneKeyOnFile'
  BY <1>1, <1>3 DEF AttemptInv, OneKeyOnFile
<1>6. EvidenceAdded
  <2>. SUFFICES ASSUME NEW k \in Keys, attempts.record[k] # attempts'.record[k], attempts.record[k] # {}
                PROVE  /\ k \in granted[s]
                       /\ \E r \in attempts.record[k] : r.evidence = {}
                       /\ \E q \in attempts'.record[k] : \E r \in attempts.record[k] :
                            q.request = r.request /\ q.evidence # {}
    BY DEF EvidenceAdded
  <2>1. k = asked.key /\ evidence # {} /\ k \notin store[s].recovered
    BY <1>1, <1>2
  <2>2. \E r \in attempts.record[k] : r.evidence = {}
    BY <1>2, <2>1
  <2>3. k \in granted[s]
    BY <1>2, <2>1, <2>2 DEF AttemptInv, UnresolvedIsKnown
  <2>4. \E q \in attempts'.record[k] : \E r \in attempts.record[k] : q.request = r.request /\ q.evidence # {}
    <3>1. PICK r \in attempts.record[k] : r.request = asked
      BY <1>3, <2>1
    <3>2. [request |-> asked, evidence |-> evidence] \in attempts'.record[k]
      BY <1>1, <2>1
    <3>. QED
      BY <2>1, <3>1, <3>2
  <2>. QED
    BY <2>2, <2>3, <2>4
<1>7. /\ \A k \in Keys : \A r \in attempts.record[k] : \E q \in attempts'.record[k] : q.request = r.request
      /\ \E q \in attempts'.record[asked.key] : q.request = asked
  <2>1. \E q \in attempts'.record[asked.key] : q.request = asked
    <3>1. [request |-> asked, evidence |-> evidence] \in attempts'.record[asked.key]
      BY <1>1
    <3>. QED
      BY <3>1
  <2>2. ASSUME NEW k \in Keys, NEW r \in attempts.record[k]
        PROVE  \E q \in attempts'.record[k] : q.request = r.request
    <3>1. CASE k = asked.key
      BY <1>3, <2>1, <3>1
    <3>2. CASE k # asked.key
      BY <1>1, <3>2
    <3>. QED
      BY <3>1, <3>2
  <2>. QED
    BY <2>1, <2>2
<1>. QED
  BY <1>2, <1>3, <1>4, <1>5, <1>6, <1>7

\* A grant stays on file while records are only replaced by records of their requests.
LEMMA GrantStays ==
  ASSUME GrantIsOnFile,
         \A k \in Keys : \A r \in attempts.record[k] : \E q \in attempts'.record[k] : q.request = r.request,
         NEW t \in Payments, grants'[t] = grants[t]
  PROVE  /\ grants'[t] <= 1
         /\ grants'[t] = 1 => \E k \in Keys : \E r \in attempts'.record[k] : r.request.transaction = t
<1>. SUFFICES ASSUME grants[t] = 1
              PROVE  \E k \in Keys : \E r \in attempts'.record[k] : r.request.transaction = t
  BY DEF GrantIsOnFile
<1>1. PICK k \in Keys : \E r \in attempts.record[k] : r.request.transaction = t
  BY DEF GrantIsOnFile
<1>2. PICK r \in attempts.record[k] : r.request.transaction = t
  BY <1>1
<1>. QED
  BY <1>2

\* A store that threw away its use, whatever became of the file.
LEMMA FailedSaveKeeps ==
  ASSUME AttemptInv, NEW s \in PaymentStores, NEW asked \in A!Requests,
         NEW evidence \in {{}} \cup {{e} : e \in A!Evidence},
         store[s].usable, ~A!Conflict(s, asked),
         \/ store[s].record[asked.key] = {}
         \/ /\ evidence # {} /\ asked.key \notin store[s].recovered
            /\ \E r \in store[s].record[asked.key] : r.evidence = {},
         A!SaveFails(s, A!With(s, asked, evidence)), UNCHANGED <<granted, grants>>
  PROVE  AttemptInv' /\ EvidenceAdded
<1>1. /\ store' = [store EXCEPT ![s].usable = FALSE] /\ faults' \in 0..MaxFaults
      /\ \/ attempts' = attempts
         \/ /\ attempts.revision = store[s].revision
            /\ attempts' = [revision |-> store[s].revision + 1, record |-> A!With(s, asked, evidence)]
  BY ServerStoresAssumption DEF A!SaveFails, A!Unusable, AttemptInv, A!TypeOK
<1>2. /\ attempts' \in [revision : Nat, record : [Keys -> SUBSET A!Records]]
      /\ attempts'.revision >= attempts.revision
      /\ attempts' = attempts \/ attempts'.revision > attempts.revision
      /\ OneKeyOnFile' /\ EvidenceAdded
      /\ \A k \in Keys : \A r \in attempts.record[k] : \E q \in attempts'.record[k] : q.request = r.request
  <2>1. CASE attempts' = attempts
    BY <2>1 DEF AttemptInv, A!TypeOK, OneKeyOnFile, EvidenceAdded
  <2>2. CASE attempts' # attempts
    <3>1. /\ attempts.revision = store[s].revision
          /\ attempts' = [revision |-> store[s].revision + 1, record |-> A!With(s, asked, evidence)]
      BY <1>1, <2>2
    <3>2. attempts.revision \in Nat
      BY DEF AttemptInv, A!TypeOK
    <3>. QED
      BY <3>1, <3>2, WrittenFile
  <2>. QED
    BY <2>1, <2>2
<1>3. /\ \A u \in PaymentStores : /\ store'[u].revision = store[u].revision /\ store'[u].record = store[u].record
                                  /\ store'[u].recovered = store[u].recovered
                                  /\ store'[u].usable => store[u].usable
      /\ store' \in [PaymentStores -> [usable : BOOLEAN, revision : Nat, record : [Keys -> SUBSET A!Records],
                                      recovered : SUBSET Keys]]
  <2>1. store \in [PaymentStores -> [usable : BOOLEAN, revision : Nat, record : [Keys -> SUBSET A!Records],
                                     recovered : SUBSET Keys]]
    BY DEF AttemptInv, A!TypeOK
  <2>2. /\ \A u \in PaymentStores : u # s => store'[u] = store[u]
        /\ store'[s] = [store[s] EXCEPT !.usable = FALSE]
        /\ store' = [u \in PaymentStores |-> store'[u]]
    BY <1>1, <2>1
  <2>3. \A u \in PaymentStores :
          /\ store'[u].revision = store[u].revision /\ store'[u].record = store[u].record
          /\ store'[u].recovered = store[u].recovered /\ store'[u].usable \in BOOLEAN
          /\ store'[u].usable => store[u].usable
          /\ store'[u] \in [usable : BOOLEAN, revision : Nat, record : [Keys -> SUBSET A!Records], recovered : SUBSET Keys]
    <3>1. SUFFICES ASSUME NEW u \in PaymentStores
                   PROVE  /\ store'[u].revision = store[u].revision /\ store'[u].record = store[u].record
                          /\ store'[u].recovered = store[u].recovered /\ store'[u].usable \in BOOLEAN
                          /\ store'[u].usable => store[u].usable
                          /\ store'[u] \in [usable : BOOLEAN, revision : Nat, record : [Keys -> SUBSET A!Records],
                                            recovered : SUBSET Keys]
      OBVIOUS
    <3>2. CASE u = s
      <4>1. store[s] \in [usable : BOOLEAN, revision : Nat, record : [Keys -> SUBSET A!Records], recovered : SUBSET Keys]
        BY <2>1
      <4>2. store'[s] = [store[s] EXCEPT !.usable = FALSE]
        BY <2>2
      <4>. QED
        BY <3>2, <4>1, <4>2
    <3>3. CASE u # s
      BY <2>1, <2>2, <3>3
    <3>. QED
      BY <3>2, <3>3
  <2>. QED
    BY <2>2, <2>3
<1>4. A!TypeOK'
  BY <1>1, <1>2, <1>3 DEF AttemptInv, A!TypeOK
<1>5. StoresFollow'
  <2>. SUFFICES ASSUME NEW u \in PaymentStores
                PROVE  /\ store'[u].revision <= attempts'.revision
                       /\ store'[u].usable /\ store'[u].revision = attempts'.revision =>
                            store'[u].record = attempts'.record
    BY DEF StoresFollow
  <2>1. /\ store[u].revision <= attempts.revision /\ store[u].revision \in Nat /\ attempts.revision \in Nat
        /\ store[u].usable /\ store[u].revision = attempts.revision => store[u].record = attempts.record
    BY DEF AttemptInv, A!TypeOK, StoresFollow
  <2>2. attempts'.revision \in Nat
    BY <1>2
  <2>. QED
    BY <1>2, <1>3, <2>1, <2>2
<1>6. GrantIsOnFile'
  BY <1>2, GrantStays DEF AttemptInv, GrantIsOnFile
<1>7. UnresolvedIsKnown'
  BY <1>3 DEF AttemptInv, UnresolvedIsKnown
<1>. QED
  BY <1>2, <1>4, <1>5, <1>6, <1>7 DEF AttemptInv

LEMMA SaveKeeps ==
  ASSUME AttemptInv, NEW s \in PaymentStores, NEW asked \in A!Requests,
         NEW evidence \in {{}} \cup {{e} : e \in A!Evidence},
         store[s].usable, ~A!Conflict(s, asked), A!Save(s, A!With(s, asked, evidence)),
         \/ /\ evidence = {} /\ store[s].record[asked.key] = {}
            /\ granted' = [granted EXCEPT ![s] = @ \cup {asked.key}]
            /\ grants' = [grants EXCEPT ![asked.transaction] = @ + 1]
         \/ /\ evidence # {} /\ asked.key \notin store[s].recovered
            /\ \E r \in store[s].record[asked.key] : r.evidence = {}
            /\ UNCHANGED <<granted, grants>>
  PROVE  AttemptInv' /\ EvidenceAdded
<1>1. /\ attempts.revision = store[s].revision /\ faults' = faults
      /\ attempts' = [revision |-> store[s].revision + 1, record |-> A!With(s, asked, evidence)]
      /\ store' = [store EXCEPT ![s].record = A!With(s, asked, evidence), ![s].revision = store[s].revision + 1]
  BY DEF A!Save
<1>2. /\ attempts' \in [revision : Nat, record : [Keys -> SUBSET A!Records]]
      /\ attempts'.revision = attempts.revision + 1
      /\ OneKeyOnFile' /\ EvidenceAdded
      /\ \A k \in Keys : \A r \in attempts.record[k] : \E q \in attempts'.record[k] : q.request = r.request
      /\ \E q \in attempts'.record[asked.key] : q.request = asked
      /\ store[s].record[asked.key] = {} =>
           \A k \in Keys : \A r \in attempts.record[k] : r.request.transaction # asked.transaction
  BY <1>1, WrittenFile
<1>3. /\ asked.key \in Keys /\ asked.transaction \in Payments
      /\ A!With(s, asked, evidence) \in [Keys -> SUBSET A!Records]
      /\ A!With(s, asked, evidence)[asked.key] = {[request |-> asked, evidence |-> evidence]}
      /\ \A k \in Keys \ {asked.key} : A!With(s, asked, evidence)[k] = store[s].record[k]
  BY WithFacts
<1>4. /\ store' \in [PaymentStores -> [usable : BOOLEAN, revision : Nat, record : [Keys -> SUBSET A!Records],
                                      recovered : SUBSET Keys]]
      /\ \A u \in PaymentStores \ {s} : store'[u] = store[u]
      /\ store'[s].record = attempts'.record /\ store'[s].revision = attempts'.revision
      /\ store'[s].recovered = store[s].recovered
  BY <1>1, <1>3 DEF AttemptInv, A!TypeOK
<1>5. A!TypeOK'
  <2>. granted \in [PaymentStores -> SUBSET Keys] /\ grants \in [Payments -> Nat]
    BY DEF AttemptInv, A!TypeOK
  <2>1. granted' \in [PaymentStores -> SUBSET Keys]
    BY <1>3
  <2>2. grants' \in [Payments -> Nat]
    BY <1>3
  <2>. QED
    BY <1>1, <1>2, <1>4, <2>1, <2>2 DEF AttemptInv, A!TypeOK
<1>6. StoresFollow'
  <2>. SUFFICES ASSUME NEW u \in PaymentStores
                PROVE  /\ store'[u].revision <= attempts'.revision
                       /\ store'[u].usable /\ store'[u].revision = attempts'.revision =>
                            store'[u].record = attempts'.record
    BY DEF StoresFollow
  <2>1. store[u].revision <= attempts.revision /\ store[u].revision \in Nat /\ attempts.revision \in Nat
    BY DEF AttemptInv, A!TypeOK, StoresFollow
  <2>2. CASE u = s
    BY <1>2, <1>4, <2>1, <2>2
  <2>3. CASE u # s
    BY <1>2, <1>4, <2>1, <2>3
  <2>. QED
    BY <2>2, <2>3
<1>7. GrantIsOnFile'
  <2>. SUFFICES ASSUME NEW t \in Payments
                PROVE  /\ grants'[t] <= 1
                       /\ grants'[t] = 1 => \E k \in Keys : \E r \in attempts'.record[k] : r.request.transaction = t
    BY DEF GrantIsOnFile
  <2>1. CASE grants'[t] = grants[t]
    BY <1>2, <2>1, GrantStays DEF AttemptInv
  <2>2. CASE grants'[t] # grants[t]
    <3>1. t = asked.transaction /\ grants'[t] = grants[t] + 1 /\ store[s].record[asked.key] = {}
      BY <1>3, <2>2 DEF AttemptInv, A!TypeOK
    <3>2. grants[t] \in Nat /\ grants[t] <= 1 /\ grants[t] # 1
      BY <1>2, <3>1 DEF AttemptInv, A!TypeOK, GrantIsOnFile
    <3>3. \E q \in attempts'.record[asked.key] : q.request.transaction = t
      BY <1>2, <3>1
    <3>. QED
      BY <1>3, <3>1, <3>2, <3>3
  <2>. QED
    BY <2>1, <2>2
<1>8. UnresolvedIsKnown'
  BY <1>1, <1>3, <1>4 DEF AttemptInv, A!TypeOK, UnresolvedIsKnown
<1>. QED
  BY <1>2, <1>5, <1>6, <1>7, <1>8 DEF AttemptInv

LEMMA ReopenKeeps ==
  ASSUME AttemptInv, NEW s \in PaymentStores, A!Reopen(s)
  PROVE  AttemptInv' /\ EvidenceAdded
<1>1. /\ faults' \in 0..MaxFaults /\ UNCHANGED <<attempts, grants>>
      /\ store' = [store EXCEPT ![s] = A!Opened(attempts)] /\ granted' = [granted EXCEPT ![s] = {}]
  BY ServerStoresAssumption DEF A!Reopen, AttemptInv, A!TypeOK
<1>2. /\ A!Opened(attempts).usable = TRUE /\ A!Opened(attempts).revision = attempts.revision
      /\ A!Opened(attempts).record = attempts.record
      /\ A!Opened(attempts).recovered = {k \in Keys : \E r \in attempts.record[k] : r.evidence = {}}
      /\ A!Opened(attempts) \in [usable : BOOLEAN, revision : Nat, record : [Keys -> SUBSET A!Records],
                                recovered : SUBSET Keys]
  BY DEF A!Opened, AttemptInv, A!TypeOK
<1>3. A!TypeOK'
  BY <1>1, <1>2 DEF AttemptInv, A!TypeOK
<1>4. /\ \A u \in PaymentStores \ {s} : store'[u] = store[u] /\ granted'[u] = granted[u]
      /\ store'[s] = A!Opened(attempts) /\ attempts.revision \in Nat
  BY <1>1 DEF AttemptInv, A!TypeOK
<1>6. StoresFollow'
  BY <1>1, <1>2, <1>4 DEF AttemptInv, StoresFollow
<1>7. UnresolvedIsKnown'
  BY <1>1, <1>2, <1>4 DEF AttemptInv, UnresolvedIsKnown
<1>5. OneKeyOnFile' /\ GrantIsOnFile' /\ EvidenceAdded
  BY <1>1 DEF AttemptInv, OneKeyOnFile, GrantIsOnFile, EvidenceAdded
<1>. QED
  BY <1>3, <1>5, <1>6, <1>7 DEF AttemptInv

LEMMA AttemptStutters == AttemptInv /\ UNCHANGED attemptVars => AttemptInv' /\ EvidenceAdded
BY DEF attemptVars, AttemptInv, A!TypeOK, StoresFollow, OneKeyOnFile, GrantIsOnFile, UnresolvedIsKnown, EvidenceAdded

LEMMA AttemptStep == AttemptInv /\ [A!Next]_attemptVars => AttemptInv' /\ EvidenceAdded
<1>. SUFFICES ASSUME AttemptInv, A!Next PROVE AttemptInv' /\ EvidenceAdded
  BY AttemptStutters
<1>1. ASSUME NEW s \in PaymentStores, NEW asked \in A!Requests, A!Reserve(s, asked)
      PROVE  AttemptInv' /\ EvidenceAdded
  BY <1>1, SaveKeeps, FailedSaveKeeps DEF A!Reserve
<1>2. ASSUME NEW s \in PaymentStores, NEW asked \in A!Requests, NEW e \in A!Evidence,
             A!RecordInitiation(s, asked, e)
      PROVE  AttemptInv' /\ EvidenceAdded
  <2>1. {e} \in {{}} \cup {{x} : x \in A!Evidence} /\ {e} # {}
    OBVIOUS
  <2>. QED
    BY <1>2, <2>1, SaveKeeps, FailedSaveKeeps DEF A!RecordInitiation
<1>3. ASSUME NEW s \in PaymentStores, NEW asked \in A!Requests, A!NoChange(s, asked)
      PROVE  AttemptInv' /\ EvidenceAdded
  BY <1>3, AttemptStutters DEF A!NoChange, A!vars, attemptVars
<1>. QED
  BY <1>1, <1>2, <1>3, ReopenKeeps DEF A!Next

LEMMA AttemptGranted == AttemptInv => AtMostOneGrant
BY DEF AttemptInv, StoresFollow, OneKeyOnFile, GrantIsOnFile, AtMostOneGrant, A!AtMostOneGrant, A!RevisionVouches

-----------------------------------------------------------------------------
(* The case of HumanReview.                                                *)

\* A transition works on what was the record: its events are still there, and at
\* the same revision nothing else has changed either.
LoadedWasRecord ==
  \A w \in Workers : \A r \in loaded[w] :
    /\ Len(r.events) <= Len(review.events)
    /\ \A i \in 1..Len(r.events) : r.events[i] = review.events[i]
    /\ Len(r.events) = Len(review.events) => r = review

Admitted == \A w \in Workers : \A asked \in call[w] : asked.role \in ReviewRoles

\* A case has one reviewing role, whose it is unless the external authority has it.
OneRole ==
  /\ \A i \in 1..Len(review.events) : review.events[i].request.role \in ReviewRoles
  /\ \A i, j \in 1..Len(review.events) : review.events[i].request.role = review.events[j].request.role
  /\ \A i \in 1..Len(review.events) :
       /\ review.events[i].request.action = "REQUIRE_EXTERNAL_AUTHORITY" =>
            review.events[i].ownerFrom = review.events[i].request.role
       /\ review.events[i].request.action = "RECORD_EXTERNAL_RESPONSE" =>
            review.events[i].ownerTo = review.events[i].request.role
  /\ review.owner # "EXTERNAL" => \A i \in 1..Len(review.events) : review.events[i].request.role = review.owner

\* The role took the case at j and has it still after i.
Holds(events, j, i, role) ==
  /\ events[j].request.action \in H!Takes /\ events[j].request.role = role
  /\ \A k \in (j + 1)..i : events[k].request.action \notin H!Takes \cup H!Drops

Assigned ==
  review.assigned # "none" =>
    \E j \in 1..Len(review.events) : Holds(review.events, j, Len(review.events), review.assigned)

HolderActs ==
  \A i \in 1..Len(review.events) : review.events[i].request.action \notin H!Takes =>
    \E j \in 1..(i - 1) : Holds(review.events, j, i - 1, review.events[i].request.role)

OneReceipt ==
  /\ \A a \in answered : /\ a.revision - 1 \in 1..Len(review.events)
                         /\ review.events[a.revision - 1].request = a.request
  /\ \A i, j \in 1..Len(review.events) :
       review.events[i].request.key = review.events[j].request.key => i = j

ReviewInv ==
  H!TypeOK /\ LoadedWasRecord /\ Admitted /\ OneRole /\ Assigned /\ HolderActs /\ OneReceipt

-----------------------------------------------------------------------------
LEMMA AppendFacts ==
  ASSUME NEW T, NEW s \in Seq(T), NEW e \in T
  PROVE  /\ Append(s, e) \in Seq(T) /\ Len(Append(s, e)) = Len(s) + 1 /\ Len(s) \in Nat
         /\ DOMAIN s = 1..Len(s) /\ DOMAIN Append(s, e) = 1..(Len(s) + 1)
         /\ \A i \in 1..Len(s) : Append(s, e)[i] = s[i]
         /\ Append(s, e)[Len(s) + 1] = e
OBVIOUS

LEMMA ReviewInit == H!Init => ReviewInv
<1>. SUFFICES ASSUME H!Init PROVE ReviewInv
  OBVIOUS
<1>1. /\ review \in H!Records /\ review.events = <<>> /\ review.assigned = "none"
      /\ \/ review.status = "PENDING" /\ review.owner \in {"SUPERVISOR", "OPERATIONS"}
         \/ review.status = "EXTERNAL_AUTHORITY_REQUIRED" /\ review.owner = "EXTERNAL"
  <2>1. ReviewRoles \subseteq {"SUPERVISOR", "OPERATIONS"}
    BY ServerStoresAssumption
  <2>2. \/ review \in [status : {"PENDING"}, owner : ReviewRoles, assigned : {"none"}, events : {<<>>}]
        \/ review \in [status : {"EXTERNAL_AUTHORITY_REQUIRED"}, owner : {"EXTERNAL"}, assigned : {"none"},
                       events : {<<>>}]
    BY DEF H!Init
  <2>3. <<>> \in Seq(H!Events)
    OBVIOUS
  <2>4. CASE review \in [status : {"PENDING"}, owner : ReviewRoles, assigned : {"none"}, events : {<<>>}]
    BY <2>1, <2>3, <2>4 DEF H!Records, H!Statuses, H!Owners, H!Roles
  <2>5. CASE review \in [status : {"EXTERNAL_AUTHORITY_REQUIRED"}, owner : {"EXTERNAL"}, assigned : {"none"},
                         events : {<<>>}]
    BY <2>3, <2>5 DEF H!Records, H!Statuses, H!Owners, H!Roles
  <2>. QED
    BY <2>2, <2>4, <2>5
<1>2. /\ loaded \in [Workers -> SUBSET H!Records] /\ call \in [Workers -> SUBSET ReviewRequests] /\ answered = {}
      /\ \A w \in Workers : loaded[w] = {} /\ call[w] = {}
  BY DEF H!Init
<1>3. Len(review.events) = 0
  BY <1>1
<1>4. H!TypeOK
  BY <1>1, <1>2 DEF H!TypeOK
<1>. QED
  BY <1>1, <1>2, <1>3, <1>4 DEF ReviewInv, LoadedWasRecord, Admitted, OneRole, Assigned, HolderActs, OneReceipt

\* What a request that is allowed needs, and what it makes of the case's state.
LEMMA AllowedFacts ==
  ASSUME ReviewInv, NEW asked \in ReviewRequests, asked.role \in ReviewRoles, H!Allowed(review, asked)
  PROVE  /\ H!Target[asked.action] \in H!Statuses
         /\ H!OwnerAfter(review, asked) \in H!Owners
         /\ H!AssignedAfter(review, asked) \in H!Roles \cup {"none"}
         /\ H!AssignedAfter(review, asked) = "none" <=>
              H!Target[asked.action] \in {"PENDING", "EXTERNAL_AUTHORITY_REQUIRED"}
         /\ H!OwnerAfter(review, asked) = "EXTERNAL" <=> H!Target[asked.action] = "EXTERNAL_AUTHORITY_REQUIRED"
         /\ asked.action \notin H!Takes => review.assigned = asked.role /\ asked.role # "none"
         /\ H!AssignedAfter(review, asked) # "none" => H!AssignedAfter(review, asked) = asked.role
         /\ asked.action \in H!Drops => H!AssignedAfter(review, asked) = "none"
         /\ asked.action # "RECORD_EXTERNAL_RESPONSE" => review.owner = asked.role /\ review.owner # "EXTERNAL"
         /\ asked.action = "RECORD_EXTERNAL_RESPONSE" =>
              review.owner = "EXTERNAL" /\ asked.role \in H!ReturnOwners(review)
         /\ H!OwnerAfter(review, asked) # "EXTERNAL" => H!OwnerAfter(review, asked) = asked.role
<1>1. /\ asked.action \in {"CLAIM", "UNCLAIM", "ESCALATE", "RETURN_TO_REVIEW", "REQUIRE_EXTERNAL_AUTHORITY",
                           "RECORD_EXTERNAL_RESPONSE", "RESOLVE", "CLOSE"}
      /\ asked.role \in {"SUPERVISOR", "OPERATIONS"}
  BY ServerStoresAssumption
<1>2. /\ review.status \in H!Statuses /\ review.owner \in H!Owners /\ review.assigned \in H!Roles \cup {"none"}
      /\ review.assigned = "none" <=> review.status \in {"PENDING", "EXTERNAL_AUTHORITY_REQUIRED"}
      /\ review.owner = "EXTERNAL" <=> review.status = "EXTERNAL_AUTHORITY_REQUIRED"
  BY DEF ReviewInv, H!TypeOK, H!Records
<1>3. /\ H!Target[asked.action] \in H!Transitions[review.status]
      /\ IF asked.action = "RECORD_EXTERNAL_RESPONSE"
         THEN review.owner = "EXTERNAL" /\ asked.role \in H!ReturnOwners(review)
         ELSE review.owner = asked.role /\ review.assigned = (IF asked.action = "CLAIM" THEN "none" ELSE asked.role)
  BY DEF H!Allowed, H!Owns
<1>. HIDE DEF H!ReturnOwners
<1>4. CASE asked.action = "CLAIM"
  BY <1>1, <1>2, <1>3, <1>4 DEF H!Target, H!Statuses, H!Owners, H!Roles, H!OwnerAfter, H!AssignedAfter, H!Takes, H!Drops
<1>5. CASE asked.action = "UNCLAIM"
  BY <1>1, <1>2, <1>3, <1>5 DEF H!Target, H!Statuses, H!Owners, H!Roles, H!OwnerAfter, H!AssignedAfter, H!Takes, H!Drops
<1>6. CASE asked.action \in {"ESCALATE", "RETURN_TO_REVIEW", "RESOLVE", "CLOSE"}
  BY <1>1, <1>2, <1>3, <1>6 DEF H!Target, H!Statuses, H!Owners, H!Roles, H!OwnerAfter, H!AssignedAfter, H!Takes, H!Drops
<1>7. CASE asked.action = "REQUIRE_EXTERNAL_AUTHORITY"
  BY <1>1, <1>2, <1>3, <1>7 DEF H!Target, H!Statuses, H!Owners, H!Roles, H!OwnerAfter, H!AssignedAfter, H!Takes, H!Drops
<1>8. CASE asked.action = "RECORD_EXTERNAL_RESPONSE"
  BY <1>1, <1>2, <1>3, <1>8 DEF H!Target, H!Statuses, H!Owners, H!Roles, H!OwnerAfter, H!AssignedAfter, H!Takes, H!Drops
<1>. QED
  BY <1>1, <1>4, <1>5, <1>6, <1>7, <1>8

\* The record after an event of a request: its history is the old one and the event.
LEMMA NextFacts ==
  ASSUME ReviewInv, NEW asked \in ReviewRequests, asked.role \in ReviewRoles, H!Allowed(review, asked),
         review' = H!NextRecord(review, asked)
  PROVE  /\ review' \in H!Records
         /\ Len(review.events) \in Nat /\ DOMAIN review.events = 1..Len(review.events)
         /\ Len(review'.events) = Len(review.events) + 1
         /\ \A i \in 1..Len(review.events) : review'.events[i] = review.events[i]
         /\ review'.events[Len(review.events) + 1].request = asked
         /\ review'.events[Len(review.events) + 1].ownerFrom = review.owner
         /\ review'.events[Len(review.events) + 1].ownerTo = H!OwnerAfter(review, asked)
         /\ review'.status = H!Target[asked.action]
         /\ review'.owner = H!OwnerAfter(review, asked) /\ review'.assigned = H!AssignedAfter(review, asked)
<1>1. PICK e : /\ e = [request |-> asked, from |-> review.status, to |-> H!Target[asked.action],
                       ownerFrom |-> review.owner, ownerTo |-> H!OwnerAfter(review, asked)]
               /\ review' = [status |-> H!Target[asked.action], owner |-> H!OwnerAfter(review, asked),
                             assigned |-> H!AssignedAfter(review, asked), events |-> Append(review.events, e)]
  BY DEF H!NextRecord
<1>2. review.events \in Seq(H!Events) /\ e \in H!Events
  BY <1>1, AllowedFacts DEF ReviewInv, H!TypeOK, H!Records, H!Events
<1>3. /\ Append(review.events, e) \in Seq(H!Events)
      /\ Len(Append(review.events, e)) = Len(review.events) + 1 /\ Len(review.events) \in Nat
      /\ DOMAIN review.events = 1..Len(review.events)
      /\ \A i \in 1..Len(review.events) : Append(review.events, e)[i] = review.events[i]
      /\ Append(review.events, e)[Len(review.events) + 1] = e
  BY <1>2, AppendFacts
<1>4. /\ review'.status = H!Target[asked.action] /\ review'.owner = H!OwnerAfter(review, asked)
      /\ review'.assigned = H!AssignedAfter(review, asked) /\ review'.events = Append(review.events, e)
      /\ e.request = asked /\ e.ownerFrom = review.owner /\ e.ownerTo = H!OwnerAfter(review, asked)
  BY <1>1
<1>5. review' \in H!Records
  BY <1>1, <1>3, AllowedFacts DEF H!Records
<1>. QED
  BY <1>3, <1>4, <1>5

LEMMA ReturnsToTheRole ==
  ASSUME ReviewInv, NEW role \in ReviewRoles, role \in H!ReturnOwners(review)
  PROVE  \A i \in 1..Len(review.events) : review.events[i].request.role = role
<1>1. DOMAIN review.events = 1..Len(review.events)
  BY DEF ReviewInv, H!TypeOK, H!Records
<1>2. CASE H!Externalizations(review) = {}
  BY <1>1, <1>2 DEF H!ReturnOwners, ReviewInv, OneRole
<1>3. CASE H!Externalizations(review) # {}
  <2>1. PICK i \in H!Externalizations(review) : role = review.events[i].ownerFrom
    BY <1>3 DEF H!ReturnOwners
  <2>2. i \in 1..Len(review.events) /\ review.events[i].request.action = "REQUIRE_EXTERNAL_AUTHORITY"
    BY <1>1 DEF H!Externalizations
  <2>. QED
    BY <2>1, <2>2 DEF ReviewInv, OneRole
<1>. QED
  BY <1>2, <1>3

\* The role that may act is the one that every event of the case is of.
LEMMA AllowedIsTheRole ==
  ASSUME ReviewInv, NEW asked \in ReviewRequests, asked.role \in ReviewRoles, H!Allowed(review, asked)
  PROVE  \A i \in 1..Len(review.events) : review.events[i].request.role = asked.role
<1>1. CASE asked.action = "RECORD_EXTERNAL_RESPONSE"
  BY <1>1, AllowedFacts, ReturnsToTheRole
<1>2. CASE asked.action # "RECORD_EXTERNAL_RESPONSE"
  BY <1>2, AllowedFacts DEF ReviewInv, OneRole
<1>. QED
  BY <1>1, <1>2

LEMMA StoreKeeps ==
  ASSUME ReviewInv, NEW w \in Workers, H!Store(w)
  PROVE  ReviewInv'
<1>1. PICK asked \in call[w] : \E r \in loaded[w] :
        /\ H!Receipts(r, asked.key) = {} /\ H!Allowed(r, asked)
        /\ Len(review.events) = Len(r.events)
        /\ review' = H!NextRecord(r, asked)
        /\ \/ answered' = answered \cup {[request |-> asked, revision |-> Len(r.events) + 2]}
           \/ UNCHANGED answered
        /\ H!Done(w)
  BY DEF H!Store
<1>2. /\ H!Receipts(review, asked.key) = {} /\ H!Allowed(review, asked)
      /\ review' = H!NextRecord(review, asked)
      /\ \/ answered' = answered \cup {[request |-> asked, revision |-> Len(review.events) + 2]}
         \/ UNCHANGED answered
      /\ H!Done(w)
  BY <1>1 DEF ReviewInv, LoadedWasRecord
<1>3. asked \in ReviewRequests /\ asked.role \in ReviewRoles
  BY DEF ReviewInv, H!TypeOK, Admitted
<1>. DEFINE n == Len(review.events)
<1>4. /\ review' \in H!Records /\ n \in Nat /\ DOMAIN review.events = 1..n
      /\ Len(review'.events) = n + 1
      /\ \A i \in 1..n : review'.events[i] = review.events[i]
      /\ review'.events[n + 1].request = asked
      /\ review'.events[n + 1].ownerFrom = review.owner
      /\ review'.events[n + 1].ownerTo = H!OwnerAfter(review, asked)
      /\ review'.status = H!Target[asked.action]
      /\ review'.owner = H!OwnerAfter(review, asked) /\ review'.assigned = H!AssignedAfter(review, asked)
  BY <1>2, <1>3, NextFacts
<1>. HIDE DEF n
<1>5. /\ loaded' \in [Workers -> SUBSET H!Records] /\ call' \in [Workers -> SUBSET ReviewRequests]
      /\ \A u \in Workers : loaded'[u] \subseteq loaded[u] /\ call'[u] \subseteq call[u]
  BY <1>2 DEF H!Done, ReviewInv, H!TypeOK
<1>6. H!TypeOK'
  <2>1. answered' \subseteq [request : ReviewRequests, revision : Nat]
    BY <1>2, <1>3, <1>4 DEF ReviewInv, H!TypeOK, n
  <2>. QED
    BY <1>2, <1>3, <1>4, <1>5, <2>1, AllowedFacts DEF H!TypeOK
<1>7. LoadedWasRecord'
  <2>. SUFFICES ASSUME NEW u \in Workers, NEW r \in loaded[u]
                PROVE  /\ Len(r.events) <= n + 1 /\ Len(r.events) # n + 1
                       /\ \A i \in 1..Len(r.events) : r.events[i] = review'.events[i]
    BY <1>4, <1>5 DEF LoadedWasRecord
  <2>1. /\ Len(r.events) \in Nat /\ Len(r.events) <= n
        /\ \A i \in 1..Len(r.events) : r.events[i] = review.events[i]
    BY DEF ReviewInv, H!TypeOK, H!Records, LoadedWasRecord, n
  <2>. QED
    BY <1>4, <2>1
<1>8. Admitted'
  BY <1>5 DEF ReviewInv, Admitted
<1>9. /\ \A i \in 1..(n + 1) : i \in 1..n \/ i = n + 1
      /\ \A i \in 1..n : i \in 1..(n + 1)
      /\ n + 1 \in 1..(n + 1)
  BY <1>4
<1>10. OneRole'
  <2>1. \A i \in 1..(n + 1) : review'.events[i].request.role = asked.role
    <3>1. \A i \in 1..n : review.events[i].request.role = asked.role
      BY <1>2, <1>3, AllowedIsTheRole DEF n
    <3>. QED
      BY <1>4, <1>9, <3>1
  <2>2. \A i \in 1..(n + 1) :
          /\ review'.events[i].request.action = "REQUIRE_EXTERNAL_AUTHORITY" =>
               review'.events[i].ownerFrom = review'.events[i].request.role
          /\ review'.events[i].request.action = "RECORD_EXTERNAL_RESPONSE" =>
               review'.events[i].ownerTo = review'.events[i].request.role
    <3>1. asked.action = "REQUIRE_EXTERNAL_AUTHORITY" => review.owner = asked.role
      BY <1>2, <1>3, AllowedFacts
    <3>2. asked.action = "RECORD_EXTERNAL_RESPONSE" => H!OwnerAfter(review, asked) = asked.role
      BY DEF H!OwnerAfter
    <3>. QED
      BY <1>4, <1>9, <3>1, <3>2 DEF ReviewInv, OneRole, n
  <2>3. review'.owner # "EXTERNAL" => review'.owner = asked.role
    BY <1>2, <1>3, <1>4, AllowedFacts
  <2>. QED
    BY <1>3, <1>4, <2>1, <2>2, <2>3 DEF OneRole
<1>11. ASSUME NEW j \in 1..n, NEW i \in 1..n, NEW role, Holds(review.events, j, i, role)
       PROVE  Holds(review'.events, j, i, role)
  <2>1. \A k \in (j + 1)..i : k \in 1..n
    BY <1>4
  <2>. QED
    BY <1>4, <1>11, <2>1 DEF Holds
<1>12. asked.action \notin H!Takes => \E j \in 1..n : Holds(review'.events, j, n, asked.role)
  <2>. SUFFICES ASSUME asked.action \notin H!Takes PROVE \E j \in 1..n : Holds(review'.events, j, n, asked.role)
    OBVIOUS
  <2>1. review.assigned = asked.role /\ review.assigned # "none"
    BY <1>2, <1>3, AllowedFacts
  <2>2. PICK j \in 1..n : Holds(review.events, j, n, asked.role)
    BY <2>1 DEF ReviewInv, Assigned, n
  <2>3. n \in 1..n
    BY <1>4
  <2>. QED
    BY <1>11, <2>2, <2>3
<1>13. Assigned'
  <2>. SUFFICES ASSUME review'.assigned # "none"
                PROVE  \E j \in 1..(n + 1) : Holds(review'.events, j, n + 1, review'.assigned)
    BY <1>4 DEF Assigned
  <2>1. review'.assigned = asked.role /\ asked.action \notin H!Drops
    BY <1>2, <1>3, <1>4, AllowedFacts
  <2>2. CASE asked.action \in H!Takes
    BY <1>4, <1>9, <2>1, <2>2 DEF Holds
  <2>3. CASE asked.action \notin H!Takes
    <3>1. PICK j \in 1..n : Holds(review'.events, j, n, asked.role)
      BY <1>12, <2>3
    <3>2. \A k \in (j + 1)..(n + 1) : k \in (j + 1)..n \/ k = n + 1
      BY <1>4
    <3>3. Holds(review'.events, j, n + 1, asked.role)
      BY <1>4, <2>1, <2>3, <3>1, <3>2 DEF Holds
    <3>. QED
      BY <1>9, <2>1, <3>3
  <2>. QED
    BY <2>2, <2>3
<1>14. HolderActs'
  <2>. SUFFICES ASSUME NEW i \in 1..(n + 1), review'.events[i].request.action \notin H!Takes
                PROVE  \E j \in 1..(i - 1) : Holds(review'.events, j, i - 1, review'.events[i].request.role)
    BY <1>4 DEF HolderActs
  <2>1. CASE i = n + 1
    BY <1>4, <1>12, <2>1
  <2>2. CASE i \in 1..n
    <3>1. PICK j \in 1..(i - 1) : Holds(review.events, j, i - 1, review.events[i].request.role)
      BY <1>4, <2>2 DEF ReviewInv, HolderActs, n
    <3>2. j \in 1..n /\ i - 1 \in 1..n
      BY <1>4, <2>2
    <3>. QED
      BY <1>4, <1>11, <2>2, <3>1, <3>2
  <2>. QED
    BY <1>9, <2>1, <2>2
<1>15. OneReceipt'
  <2>1. \A i \in 1..n : review.events[i].request.key # asked.key
    BY <1>2, <1>4 DEF H!Receipts
  <2>2. \A i, j \in 1..(n + 1) : review'.events[i].request.key = review'.events[j].request.key => i = j
    <3>1. \A i, j \in 1..n : review'.events[i].request.key = review'.events[j].request.key => i = j
      BY <1>4 DEF ReviewInv, OneReceipt, n
    <3>2. \A i \in 1..n : review'.events[i].request.key # review'.events[n + 1].request.key
      BY <1>4, <2>1
    <3>. QED
      BY <1>9, <3>1, <3>2
  <2>3. \A a \in answered' : a.revision - 1 \in 1..(n + 1) /\ review'.events[a.revision - 1].request = a.request
    <3>. SUFFICES ASSUME NEW a \in answered'
                  PROVE  a.revision - 1 \in 1..(n + 1) /\ review'.events[a.revision - 1].request = a.request
      OBVIOUS
    <3>1. CASE a \in answered
      BY <1>4, <1>9, <3>1 DEF ReviewInv, OneReceipt, n
    <3>2. CASE a = [request |-> asked, revision |-> n + 2]
      <4>1. a.revision - 1 = n + 1 /\ a.request = asked
        BY <1>4, <3>2
      <4>. QED
        BY <1>4, <1>9, <4>1
    <3>. QED
      BY <1>2, <3>1, <3>2 DEF n
  <2>. QED
    BY <1>4, <2>2, <2>3 DEF OneReceipt
<1>. QED
  BY <1>6, <1>7, <1>8, <1>10, <1>13, <1>14, <1>15 DEF ReviewInv

LEMMA ReplayKeeps ==
  ASSUME ReviewInv, NEW w \in Workers, H!Replay(w)
  PROVE  ReviewInv'
<1>1. PICK asked \in call[w] : \E r \in loaded[w] : \E i \in H!Receipts(r, asked.key) :
        /\ r.events[i].request = asked
        /\ answered' = answered \cup {[request |-> asked, revision |-> i + 1]}
        /\ H!Done(w) /\ UNCHANGED review
  BY DEF H!Replay
<1>2. PICK r \in loaded[w] : \E i \in H!Receipts(r, asked.key) :
        /\ r.events[i].request = asked
        /\ answered' = answered \cup {[request |-> asked, revision |-> i + 1]}
        /\ H!Done(w) /\ UNCHANGED review
  BY <1>1
<1>3. PICK i \in H!Receipts(r, asked.key) :
        /\ r.events[i].request = asked
        /\ answered' = answered \cup {[request |-> asked, revision |-> i + 1]}
        /\ H!Done(w) /\ UNCHANGED review
  BY <1>2
<1>4. i \in 1..Len(review.events) /\ Len(review.events) \in Nat /\ review.events[i].request = asked
  <2>1. i \in 1..Len(r.events) /\ Len(r.events) \in Nat
    BY DEF H!Receipts, ReviewInv, H!TypeOK, H!Records
  <2>2. /\ Len(r.events) <= Len(review.events) /\ r.events[i] = review.events[i]
        /\ Len(review.events) \in Nat
    BY <2>1 DEF ReviewInv, LoadedWasRecord, H!TypeOK, H!Records
  <2>. QED
    BY <1>3, <2>1, <2>2
<1>5. asked \in ReviewRequests
  BY DEF ReviewInv, H!TypeOK
<1>6. OneReceipt'
  <2>1. \A a \in answered' : a.revision - 1 \in 1..Len(review.events) /\ review.events[a.revision - 1].request = a.request
    <3>. SUFFICES ASSUME NEW a \in answered'
                  PROVE  a.revision - 1 \in 1..Len(review.events) /\ review.events[a.revision - 1].request = a.request
      OBVIOUS
    <3>1. CASE a \in answered
      BY <3>1 DEF ReviewInv, OneReceipt
    <3>2. CASE a = [request |-> asked, revision |-> i + 1]
      <4>1. a.revision - 1 = i /\ a.request = asked
        BY <1>4, <3>2
      <4>. QED
        BY <1>4, <4>1
    <3>. QED
      BY <1>3, <3>1, <3>2
  <2>. QED
    BY <1>3, <2>1 DEF ReviewInv, OneReceipt
<1>7. answered' \subseteq [request : ReviewRequests, revision : Nat]
  BY <1>3, <1>4, <1>5 DEF ReviewInv, H!TypeOK
<1>8. /\ loaded' \in [Workers -> SUBSET H!Records] /\ call' \in [Workers -> SUBSET ReviewRequests]
      /\ \A u \in Workers : loaded'[u] \subseteq loaded[u] /\ call'[u] \subseteq call[u]
  BY <1>3 DEF H!Done, ReviewInv, H!TypeOK
<1>9. H!TypeOK'
  BY <1>3, <1>7, <1>8 DEF ReviewInv, H!TypeOK
<1>10. LoadedWasRecord' /\ Admitted'
  BY <1>3, <1>8 DEF ReviewInv, LoadedWasRecord, Admitted
<1>11. OneRole' /\ Assigned' /\ HolderActs'
  BY <1>3 DEF ReviewInv, OneRole, Assigned, HolderActs, Holds
<1>. QED
  BY <1>6, <1>9, <1>10, <1>11 DEF ReviewInv

LEMMA LoadKeeps ==
  ASSUME ReviewInv, NEW w \in Workers, NEW asked \in ReviewRequests, H!Load(w, asked)
  PROVE  ReviewInv'
<1>1. /\ asked.role \in ReviewRoles /\ UNCHANGED <<review, answered>>
      /\ call' \in [Workers -> SUBSET ReviewRequests] /\ loaded' \in [Workers -> SUBSET H!Records]
      /\ \A u \in Workers : call'[u] \subseteq call[u] \cup {asked} /\ loaded'[u] \subseteq loaded[u] \cup {review}
  BY DEF H!Load, ReviewInv, H!TypeOK
<1>2. Len(review.events) \in Nat
  BY DEF ReviewInv, H!TypeOK, H!Records
<1>3. H!TypeOK' /\ Admitted'
  BY <1>1 DEF ReviewInv, H!TypeOK, Admitted
<1>4. LoadedWasRecord'
  BY <1>1, <1>2 DEF ReviewInv, LoadedWasRecord
<1>. QED
  BY <1>1, <1>3, <1>4 DEF ReviewInv, OneRole, Assigned, HolderActs, OneReceipt

LEMMA DoneKeeps ==
  ASSUME ReviewInv, NEW w \in Workers, H!Done(w), UNCHANGED <<review, answered>>
  PROVE  ReviewInv'
<1>1. /\ loaded' \in [Workers -> SUBSET H!Records] /\ call' \in [Workers -> SUBSET ReviewRequests]
      /\ \A u \in Workers : loaded'[u] \subseteq loaded[u] /\ call'[u] \subseteq call[u]
  BY DEF H!Done, ReviewInv, H!TypeOK
<1>2. H!TypeOK' /\ LoadedWasRecord' /\ Admitted'
  BY <1>1 DEF ReviewInv, H!TypeOK, LoadedWasRecord, Admitted
<1>3. OneRole' /\ Assigned' /\ HolderActs' /\ OneReceipt'
  BY DEF ReviewInv, OneRole, Assigned, HolderActs, OneReceipt, Holds
<1>. QED
  BY <1>2, <1>3 DEF ReviewInv

LEMMA ReviewStep == ReviewInv /\ [H!Next]_reviewVars => ReviewInv'
<1>. SUFFICES ASSUME ReviewInv, [H!Next]_reviewVars PROVE ReviewInv'
  OBVIOUS
<1>1. CASE UNCHANGED reviewVars
  <2>1. UNCHANGED <<review, loaded, call, answered>>
    BY <1>1 DEF reviewVars
  <2>2. H!TypeOK' /\ LoadedWasRecord' /\ Admitted'
    BY <2>1 DEF ReviewInv, H!TypeOK, LoadedWasRecord, Admitted
  <2>3. OneRole' /\ Assigned' /\ HolderActs' /\ OneReceipt'
    BY <2>1 DEF ReviewInv, OneRole, Assigned, HolderActs, OneReceipt, Holds
  <2>. QED
    BY <2>2, <2>3 DEF ReviewInv
<1>2. ASSUME NEW w \in Workers, H!Refuse(w) \/ H!NotStored(w)
      PROVE  ReviewInv'
  BY <1>2, DoneKeeps DEF H!Refuse, H!NotStored
<1>. QED
  BY <1>1, <1>2, LoadKeeps, ReplayKeeps, StoreKeeps DEF H!Next

LEMMA ReviewTold == ReviewInv => ToldHolds
BY DEF ReviewInv, H!TypeOK, H!Records, OneReceipt, ToldHolds, H!ToldHolds

LEMMA ReviewActs == ReviewInv => ReviewerActs
<1>. SUFFICES ASSUME ReviewInv, NEW i \in DOMAIN review.events
              PROVE  /\ H!Act(i) \notin H!Takes => \E j \in 1..(i - 1) :
                          /\ H!Act(j) \in H!Takes /\ review.events[j].request.role = review.events[i].request.role
                          /\ \A k \in (j + 1)..(i - 1) : H!Act(k) \notin H!Takes \cup H!Drops
                     /\ \A j \in 1..(i - 1) :
                          H!Act(j) = "REQUIRE_EXTERNAL_AUTHORITY" /\ H!Act(i) = "RECORD_EXTERNAL_RESPONSE" =>
                            review.events[j].ownerFrom = review.events[i].ownerTo
  BY DEF ReviewerActs, H!ReviewerActs
<1>1. i \in 1..Len(review.events) /\ Len(review.events) \in Nat
  BY DEF ReviewInv, H!TypeOK, H!Records
<1>2. \A j \in 1..(i - 1) : j \in 1..Len(review.events)
  BY <1>1
<1>3. ASSUME H!Act(i) \notin H!Takes
      PROVE  \E j \in 1..(i - 1) :
               /\ H!Act(j) \in H!Takes /\ review.events[j].request.role = review.events[i].request.role
               /\ \A k \in (j + 1)..(i - 1) : H!Act(k) \notin H!Takes \cup H!Drops
  BY <1>1, <1>3 DEF ReviewInv, HolderActs, Holds, H!Act
<1>4. ASSUME NEW j \in 1..(i - 1), H!Act(j) = "REQUIRE_EXTERNAL_AUTHORITY", H!Act(i) = "RECORD_EXTERNAL_RESPONSE"
      PROVE  review.events[j].ownerFrom = review.events[i].ownerTo
  BY <1>1, <1>2, <1>4 DEF ReviewInv, OneRole, H!Act
<1>. QED
  BY <1>3, <1>4

-----------------------------------------------------------------------------
(* The customer, whose operations are writes of three stores one after the *)
(* other, of which any may be the last.                                    *)

\* Some numbers have a least one.
LEMMA LeastElement ==
  ASSUME NEW P, P \subseteq Nat, P # {}
  PROVE  \E i \in P : \A j \in P : i <= j
<1>1. PICK i \in P : \A j \in P : <<j, i>> \notin OpToRel(<, Nat)
  BY NatLessThanWellFounded, WFMin
<1>2. \A j \in P : ~(j < i)
  BY <1>1 DEF OpToRel
<1>. QED
  BY <1>2

\* The last of some positions.
LEMMA LastPosition ==
  ASSUME NEW n \in Nat, NEW P, P \subseteq 1..n, P # {}
  PROVE  C!Max(P) \in P /\ \A i \in P : i <= C!Max(P)
<1>. DEFINE T == {n - i : i \in P}
<1>1. PICK t \in T : \A u \in T : t <= u
  <2>1. T \subseteq Nat /\ T # {}
    <3>1. \A i \in P : i \in 1..n
      OBVIOUS
    <3>2. \A i \in 1..n : n - i \in Nat
      OBVIOUS
    <3>. QED
      BY <3>1, <3>2
  <2>. HIDE DEF T
  <2>. QED
    BY <2>1, LeastElement
<1>2. PICK m \in P : t = n - m
  OBVIOUS
<1>3. ASSUME NEW i \in P PROVE m >= i
  <2>1. n - i \in T /\ i \in Nat /\ m \in Nat
    OBVIOUS
  <2>. HIDE DEF T
  <2>2. n - m <= n - i
    BY <1>1, <1>2, <2>1
  <2>. QED
    BY <2>1, <2>2
<1>. DEFINE z == C!Max(P)
<1>4. z \in P /\ \A i \in P : z >= i
  BY <1>2, <1>3 DEF C!Max
<1>. HIDE DEF z
<1>5. z \in P /\ \A i \in P : i <= z
  BY <1>4
<1>. QED
  BY <1>5 DEF z

LEMMA MaxIs ==
  ASSUME NEW P, P \subseteq Nat, NEW m \in P, \A i \in P : i <= m
  PROVE  C!Max(P) = m
<1>. DEFINE z == C!Max(P)
<1>1. m \in P /\ \A i \in P : m >= i
  OBVIOUS
<1>2. z \in P /\ \A i \in P : z >= i
  BY <1>1 DEF C!Max
<1>. HIDE DEF z
<1>3. z = m
  BY <1>1, <1>2
<1>. QED
  BY <1>3 DEF z

StoreNames == {"customer", "requests", "pending"}
WriteTypes == [store : StoreNames, value : (SUBSET C!Customers) \cup [C!Ids -> {"NONE", "PENDING", "VERIFIED"}] \cup (SUBSET C!Challenges)]
Put(s, x) == [s EXCEPT ![x.store] = x.value]

LEMMA FirstOfNone == \A s, w : s = [x \in StoreNames |-> s[x]] => C!FirstWrites(s, w, 0) = s
BY DEF C!FirstWrites

LEMMA FirstOfOne ==
  ASSUME NEW s, s = [x \in StoreNames |-> s[x]], NEW y \in WriteTypes
  PROVE  C!FirstWrites(s, <<y>>, 1) = Put(s, y) /\ C!After(s, <<y>>) = Put(s, y)
<1>1. \A x \in StoreNames : {i \in 1..1 : <<y>>[i].store = x} = IF y.store = x THEN {1} ELSE {}
  OBVIOUS
<1>2. C!Max({1}) = 1
  BY MaxIs
<1>3. C!FirstWrites(s, <<y>>, 1) = [x \in StoreNames |-> IF y.store = x THEN y.value ELSE s[x]]
  <2>. DEFINE U(x) == {i \in 1..1 : <<y>>[i].store = x}
  <2>1. DOMAIN s = StoreNames
    OBVIOUS
  <2>2. C!FirstWrites(s, <<y>>, 1) = [x \in StoreNames |-> IF U(x) = {} THEN s[x] ELSE <<y>>[C!Max(U(x))].value]
    BY <2>1 DEF C!FirstWrites
  <2>3. ASSUME NEW x \in StoreNames
        PROVE  (IF U(x) = {} THEN s[x] ELSE <<y>>[C!Max(U(x))].value) = (IF y.store = x THEN y.value ELSE s[x])
    <3>1. U(x) = (IF y.store = x THEN {1} ELSE {}) /\ <<y>>[1] = y
      BY <1>1
    <3>. HIDE DEF U
    <3>2. CASE y.store = x
      BY <1>2, <3>1, <3>2
    <3>3. CASE y.store # x
      BY <3>1, <3>3
    <3>. QED
      BY <3>2, <3>3
  <2>. HIDE DEF U
  <2>. QED
    BY <2>2, <2>3
<1>4. y.store \in StoreNames
  BY DEF WriteTypes
<1>5. [x \in StoreNames |-> IF y.store = x THEN y.value ELSE s[x]] = Put(s, y)
  BY <1>4 DEF Put
<1>. QED
  BY <1>3, <1>5 DEF C!After

\* What writes leave is what their parts leave one after the other.
LEMMA FirstOfBoth ==
  ASSUME NEW s, s = [x \in StoreNames |-> s[x]], NEW a \in Seq(WriteTypes), NEW b \in Seq(WriteTypes)
  PROVE  /\ \A k \in 0..Len(a) : C!FirstWrites(s, a \o b, k) = C!FirstWrites(s, a, k)
         /\ \A k \in 0..Len(b) : C!FirstWrites(s, a \o b, Len(a) + k) = C!FirstWrites(C!After(s, a), b, k)
         /\ C!After(s, a \o b) = C!After(C!After(s, a), b)
<1>. DEFINE n == Len(a)
            w == a \o b
<1>1. /\ n \in Nat /\ Len(b) \in Nat /\ Len(w) = n + Len(b)
      /\ \A i \in 1..n : w[i] = a[i]
      /\ \A i \in 1..Len(b) : w[n + i] = b[i]
  OBVIOUS
<1>2. ASSUME NEW k \in 0..n PROVE C!FirstWrites(s, w, k) = C!FirstWrites(s, a, k)
  <2>. DEFINE U(x) == {i \in 1..k : a[i].store = x}
              W(x) == {i \in 1..k : w[i].store = x}
  <2>. HIDE DEF n, w
  <2>1. ASSUME NEW x \in StoreNames PROVE W(x) = U(x) /\ (U(x) # {} => w[C!Max(U(x))] = a[C!Max(U(x))])
    <3>1. \A i \in 1..k : w[i] = a[i]
      BY <1>1
    <3>2. W(x) = U(x)
      BY <3>1
    <3>3. U(x) \subseteq 1..k
      OBVIOUS
    <3>. HIDE DEF U
    <3>4. U(x) # {} => C!Max(U(x)) \in 1..k
      BY <3>3, LastPosition
    <3>. QED
      BY <3>1, <3>2, <3>4
  <2>2. \A x \in StoreNames : (IF W(x) = {} THEN s[x] ELSE w[C!Max(W(x))].value) = (IF U(x) = {} THEN s[x] ELSE a[C!Max(U(x))].value)
    <3>. HIDE DEF W, U
    <3>. QED
      BY <2>1
  <2>3. DOMAIN s = StoreNames
    OBVIOUS
  <2>. QED
    BY <2>2, <2>3 DEF C!FirstWrites
<1>3. ASSUME NEW k \in 0..Len(b) PROVE C!FirstWrites(s, w, n + k) = C!FirstWrites(C!After(s, a), b, k)
  <2>. DEFINE U(x) == {i \in 1..n : a[i].store = x}
              V(x) == {i \in 1..k : b[i].store = x}
              W(x) == {i \in 1..(n + k) : w[i].store = x}
              t == C!After(s, a)
  <2>1. t = [x \in StoreNames |-> IF U(x) = {} THEN s[x] ELSE a[C!Max(U(x))].value]
    BY DEF C!After, C!FirstWrites
  <2>. HIDE DEF n, w, t
  <2>2. ASSUME NEW x \in StoreNames
        PROVE  (IF W(x) = {} THEN s[x] ELSE w[C!Max(W(x))].value) = (IF V(x) = {} THEN t[x] ELSE b[C!Max(V(x))].value)
    <3>1. CASE V(x) = {}
      <4>1. ASSUME NEW i \in 1..(n + k), i > n PROVE w[i].store # x
        <5>1. i - n \in 1..k /\ n + (i - n) = i
          BY <1>1, <4>1
        <5>2. i - n \notin V(x) /\ i - n \in 1..Len(b)
          BY <1>1, <3>1, <5>1
        <5>3. w[n + (i - n)] = b[i - n]
          BY <1>1, <5>2
        <5>. QED
          BY <5>1, <5>2, <5>3
      <4>2. W(x) = U(x)
        BY <1>1, <4>1
      <4>3. U(x) \subseteq 1..n
        OBVIOUS
      <4>. HIDE DEF U, W, V
      <4>4. U(x) # {} => C!Max(U(x)) \in 1..n
        BY <1>1, <4>3, LastPosition
      <4>5. U(x) # {} => w[C!Max(U(x))] = a[C!Max(U(x))]
        BY <1>1, <4>4
      <4>. QED
        BY <2>1, <3>1, <4>2, <4>5
    <3>2. CASE V(x) # {}
      <4>. DEFINE m == C!Max(V(x))
      <4>1. m \in V(x) /\ \A i \in V(x) : i <= m
        <5>1. V(x) \subseteq 1..k /\ k \in Nat
          BY <1>1
        <5>. HIDE DEF V
        <5>. QED
          BY <3>2, <5>1, LastPosition
      <4>. HIDE DEF m
      <4>2. m \in 1..k /\ m \in 1..Len(b) /\ b[m].store = x /\ w[n + m] = b[m]
        BY <1>1, <4>1
      <4>3. n + m \in 1..(n + k)
        BY <1>1, <4>2
      <4>4. n + m \in W(x)
        BY <4>2, <4>3
      <4>5. ASSUME NEW i \in W(x), i > n + m PROVE FALSE
        <5>1. i \in 1..(n + k) /\ w[i].store = x
          OBVIOUS
        <5>2. i - n \in 1..k /\ i - n \in 1..Len(b) /\ n + (i - n) = i /\ i - n > m
          BY <1>1, <4>2, <4>5, <5>1
        <5>3. w[n + (i - n)] = b[i - n]
          BY <1>1, <5>2
        <5>4. i - n \in V(x)
          BY <5>1, <5>2, <5>3
        <5>5. i - n <= m
          BY <4>1, <5>4
        <5>. QED
          BY <4>2, <5>2, <5>5
      <4>6. C!Max(W(x)) = n + m
        <5>1. W(x) \subseteq Nat
          BY <1>1
        <5>2. n + m \in Nat
          BY <1>1, <4>2
        <5>3. \A i \in W(x) : i <= n + m
          BY <4>5, <5>1, <5>2
        <5>. HIDE DEF W
        <5>. QED
          BY <4>4, <5>1, <5>3, MaxIs
      <4>7. W(x) # {}
        BY <4>4
      <4>. HIDE DEF W, V
      <4>. QED
        BY <3>2, <4>2, <4>6, <4>7 DEF m
    <3>. QED
      BY <3>1, <3>2
  <2>3. DOMAIN t = StoreNames /\ DOMAIN s = StoreNames
    BY <2>1
  <2>4. C!FirstWrites(s, w, n + k) = [x \in StoreNames |-> IF W(x) = {} THEN s[x] ELSE w[C!Max(W(x))].value]
    BY <2>3 DEF C!FirstWrites
  <2>5. C!FirstWrites(t, b, k) = [x \in StoreNames |-> IF V(x) = {} THEN t[x] ELSE b[C!Max(V(x))].value]
    BY <2>3 DEF C!FirstWrites
  <2>. HIDE DEF W, V
  <2>. QED
    BY <2>2, <2>4, <2>5 DEF t
<1>. HIDE DEF n, w
<1>4. C!After(s, w) = C!After(C!After(s, a), b)
  BY <1>1, <1>3 DEF C!After
<1>. QED
  BY <1>2, <1>3, <1>4 DEF n, w

-----------------------------------------------------------------------------
\* A customer whose identity was once verified.
PastKyc == {"VERIFIED", "SUSPENDED", "REVERIFICATION_REQUIRED"}

Historical(c) == c.kyc \in PastKyc /\ c.phoneStatus # "REVERIFICATION_REQUIRED" => c.confirmed

\* The requests f has on file have what a customer refers to.
Asked(c, f) ==
  /\ c.kyc \in PastKyc => \E i \in C!Ids : f.requests[i] = "VERIFIED"
  /\ c.reference # 0 => f.requests[c.reference] = "VERIFIED"

SoundStore(m) ==
  /\ m \in C!Stores
  /\ m.customer = {} \/ \E c \in C!Customers : m.customer = {c}
  /\ m.pending = {} \/ \E p \in C!Challenges : m.pending = {p}
  /\ \A c \in m.customer : Historical(c)
  /\ m.pending # {} => m.customer # {} /\ \A c \in m.customer : c.kyc # "UNVERIFIED"
  /\ m.customer = {} => \A i \in C!Ids : m.requests[i] = "NONE"

\* The file f is behind the memory m, and its customer never ahead of its requests;
\* when it is up, both customers are past their first verification.
Behind(m, f, r) ==
  /\ SoundStore(m) /\ SoundStore(f)
  /\ \A c \in m.customer \cup f.customer : Asked(c, f)
  /\ \A i \in C!Ids : f.requests[i] = "VERIFIED" => m.requests[i] = "VERIFIED"
  /\ r = "up" => \A t \in {m, f} : t.customer # {} /\ \A c \in t.customer : c.kyc \in PastKyc

\* The writes w are safe: whenever they stop, and whichever save fails.
Safe(m, f, r, w) ==
  /\ w \in Seq(WriteTypes) /\ Behind(m, f, r)
  /\ \A k \in 0..Len(w) : Behind(C!FirstWrites(m, w, k), C!FirstWrites(f, w, k), r)
  /\ \A k \in 1..Len(w) : Behind(C!FirstWrites(m, w, k), C!FirstWrites(f, w, k - 1), r)

LEMMA StoreIsFunction ==
  ASSUME NEW m \in C!Stores
  PROVE  m = [x \in StoreNames |-> m[x]]
BY DEF C!Stores, StoreNames

LEMMA SafeNone ==
  ASSUME NEW m, NEW f, NEW r, Behind(m, f, r)
  PROVE  /\ Safe(m, f, r, <<>>)
         /\ C!After(m, <<>>) = m /\ C!After(f, <<>>) = f
<1>1. m = [x \in StoreNames |-> m[x]] /\ f = [x \in StoreNames |-> f[x]]
  BY StoreIsFunction DEF Behind, SoundStore
<1>2. C!FirstWrites(m, <<>>, 0) = m /\ C!FirstWrites(f, <<>>, 0) = f
  BY <1>1, FirstOfNone
<1>3. <<>> \in Seq(WriteTypes) /\ Len(<<>>) = 0 /\ 0..0 = {0} /\ 1..0 = {}
  OBVIOUS
<1>4. \A k \in 0..Len(<<>>) : k = 0
  BY <1>3
<1>5. C!After(m, <<>>) = m /\ C!After(f, <<>>) = f
  BY <1>2, <1>3 DEF C!After
<1>. QED
  BY <1>2, <1>3, <1>4, <1>5 DEF Safe

LEMMA SafeOne ==
  ASSUME NEW m, NEW f, NEW r, NEW y \in WriteTypes,
         Behind(m, f, r), Behind(Put(m, y), f, r), Behind(Put(m, y), Put(f, y), r)
  PROVE  /\ Safe(m, f, r, <<y>>)
         /\ C!After(m, <<y>>) = Put(m, y) /\ C!After(f, <<y>>) = Put(f, y)
<1>1. m = [x \in StoreNames |-> m[x]] /\ f = [x \in StoreNames |-> f[x]]
  BY StoreIsFunction DEF Behind, SoundStore
<1>2. C!FirstWrites(m, <<y>>, 0) = m /\ C!FirstWrites(f, <<y>>, 0) = f
  BY <1>1, FirstOfNone
<1>3. /\ C!FirstWrites(m, <<y>>, 1) = Put(m, y) /\ C!FirstWrites(f, <<y>>, 1) = Put(f, y)
      /\ C!After(m, <<y>>) = Put(m, y) /\ C!After(f, <<y>>) = Put(f, y)
  BY <1>1, FirstOfOne
<1>4. <<y>> \in Seq(WriteTypes) /\ Len(<<y>>) = 1
  OBVIOUS
<1>5. (\A k \in 0..Len(<<y>>) : k = 0 \/ k = 1) /\ (\A k \in 1..Len(<<y>>) : k = 1 /\ k - 1 = 0)
  BY <1>4
<1>6. \A k \in 0..Len(<<y>>) : Behind(C!FirstWrites(m, <<y>>, k), C!FirstWrites(f, <<y>>, k), r)
  BY <1>2, <1>3, <1>5
<1>7. \A k \in 1..Len(<<y>>) : Behind(C!FirstWrites(m, <<y>>, k), C!FirstWrites(f, <<y>>, k - 1), r)
  BY <1>2, <1>3, <1>5
<1>. QED
  BY <1>3, <1>4, <1>6, <1>7 DEF Safe

LEMMA SafeBoth ==
  ASSUME NEW m, NEW f, NEW r, NEW a, NEW b,
         Safe(m, f, r, a), Safe(C!After(m, a), C!After(f, a), r, b)
  PROVE  /\ Safe(m, f, r, a \o b)
         /\ C!After(m, a \o b) = C!After(C!After(m, a), b)
         /\ C!After(f, a \o b) = C!After(C!After(f, a), b)
<1>. DEFINE n == Len(a)
            w == a \o b
            ma == C!After(m, a)
            fa == C!After(f, a)
<1>1. a \in Seq(WriteTypes) /\ b \in Seq(WriteTypes)
  BY DEF Safe
<1>2. n \in Nat /\ Len(b) \in Nat /\ Len(w) = n + Len(b) /\ w \in Seq(WriteTypes)
  BY <1>1
<1>3. m = [x \in StoreNames |-> m[x]] /\ f = [x \in StoreNames |-> f[x]]
  BY StoreIsFunction DEF Safe, Behind, SoundStore
<1>4. \A t : t = [x \in StoreNames |-> t[x]] =>
        /\ \A k \in 0..n : C!FirstWrites(t, w, k) = C!FirstWrites(t, a, k)
        /\ \A k \in 0..Len(b) : C!FirstWrites(t, w, n + k) = C!FirstWrites(C!After(t, a), b, k)
        /\ C!After(t, w) = C!After(C!After(t, a), b)
  BY <1>1, FirstOfBoth
<1>5. ASSUME NEW k \in 0..Len(w) PROVE Behind(C!FirstWrites(m, w, k), C!FirstWrites(f, w, k), r)
  <2>1. CASE k <= n
    <3>1. k \in 0..n
      BY <1>2, <2>1
    <3>. HIDE DEF n, w
    <3>2. C!FirstWrites(m, w, k) = C!FirstWrites(m, a, k) /\ C!FirstWrites(f, w, k) = C!FirstWrites(f, a, k)
      BY <1>3, <1>4, <3>1
    <3>. QED
      BY <3>1, <3>2 DEF Safe, n
  <2>2. CASE k > n
    <3>. DEFINE j == k - n
    <3>1. j \in 0..Len(b) /\ n + j = k
      BY <1>2, <2>2
    <3>. HIDE DEF n, w, j
    <3>2. C!FirstWrites(m, w, n + j) = C!FirstWrites(ma, b, j) /\ C!FirstWrites(f, w, n + j) = C!FirstWrites(fa, b, j)
      BY <1>3, <1>4, <3>1
    <3>3. Behind(C!FirstWrites(ma, b, j), C!FirstWrites(fa, b, j), r)
      BY <3>1 DEF Safe
    <3>. QED
      BY <3>1, <3>2, <3>3
  <2>. QED
    BY <1>2, <2>1, <2>2
<1>6. ASSUME NEW k \in 1..Len(w) PROVE Behind(C!FirstWrites(m, w, k), C!FirstWrites(f, w, k - 1), r)
  <2>1. CASE k <= n
    <3>1. k \in 1..n /\ k \in 0..n /\ k - 1 \in 0..n
      BY <1>2, <2>1
    <3>. HIDE DEF n, w
    <3>2. C!FirstWrites(m, w, k) = C!FirstWrites(m, a, k) /\ C!FirstWrites(f, w, k - 1) = C!FirstWrites(f, a, k - 1)
      BY <1>3, <1>4, <3>1
    <3>. QED
      BY <3>1, <3>2 DEF Safe, n
  <2>2. CASE k > n
    <3>. DEFINE j == k - n
    <3>1. j \in 1..Len(b) /\ j \in 0..Len(b) /\ j - 1 \in 0..Len(b) /\ n + j = k /\ n + (j - 1) = k - 1
      BY <1>2, <2>2
    <3>. HIDE DEF n, w, j
    <3>2. C!FirstWrites(m, w, n + j) = C!FirstWrites(ma, b, j) /\ C!FirstWrites(f, w, n + (j - 1)) = C!FirstWrites(fa, b, j - 1)
      BY <1>3, <1>4, <3>1
    <3>3. Behind(C!FirstWrites(ma, b, j), C!FirstWrites(fa, b, j - 1), r)
      BY <3>1 DEF Safe
    <3>. QED
      BY <3>1, <3>2, <3>3
  <2>. QED
    BY <1>2, <2>1, <2>2
<1>. HIDE DEF n, w
<1>7. C!After(m, w) = C!After(ma, b) /\ C!After(f, w) = C!After(fa, b)
  BY <1>3, <1>4
<1>8. Behind(m, f, r)
  BY DEF Safe
<1>. QED
  BY <1>2, <1>5, <1>6, <1>7, <1>8 DEF Safe, w

\* Writes after which the memory is n and the file g.
Leads(m, f, r, w, n, g) == Safe(m, f, r, w) /\ C!After(m, w) = n /\ C!After(f, w) = g /\ Behind(n, g, r)

LEMMA WriteCustomer ==
  ASSUME NEW m, NEW f, NEW r, Behind(m, f, r), NEW c \in C!Customers,
         Historical(c), Asked(c, f), r = "up" => c.kyc \in PastKyc,
         m.pending # {} \/ f.pending # {} => c.kyc # "UNVERIFIED"
  PROVE  Leads(m, f, r, C!SetCustomer(c), [m EXCEPT !.customer = {c}], [f EXCEPT !.customer = {c}])
<1>. DEFINE y == [store |-> "customer", value |-> {c}]
            n == [m EXCEPT !.customer = {c}]
            g == [f EXCEPT !.customer = {c}]
<1>1. y \in WriteTypes
  BY DEF WriteTypes, StoreNames
<1>2. Put(m, y) = n /\ Put(f, y) = g
  BY DEF Put
<1>3. ASSUME NEW t, SoundStore(t), t.pending # {} => c.kyc # "UNVERIFIED"
      PROVE  /\ SoundStore([t EXCEPT !.customer = {c}])
             /\ [t EXCEPT !.customer = {c}].customer = {c}
             /\ [t EXCEPT !.customer = {c}].requests = t.requests
             /\ [t EXCEPT !.customer = {c}].pending = t.pending
  <2>1. t \in C!Stores
    BY <1>3 DEF SoundStore
  <2>2. /\ [t EXCEPT !.customer = {c}].customer = {c}
        /\ [t EXCEPT !.customer = {c}].requests = t.requests
        /\ [t EXCEPT !.customer = {c}].pending = t.pending
        /\ [t EXCEPT !.customer = {c}] \in C!Stores
    BY <2>1 DEF C!Stores
  <2>. QED
    BY <1>3, <2>2 DEF SoundStore
<1>4. SoundStore(m) /\ SoundStore(f)
  BY DEF Behind
<1>5. SoundStore(n) /\ n.customer = {c} /\ n.requests = m.requests /\ n.pending = m.pending
  BY <1>3, <1>4
<1>6. SoundStore(g) /\ g.customer = {c} /\ g.requests = f.requests /\ g.pending = f.pending
  BY <1>3, <1>4
<1>. HIDE DEF n, g, y
<1>7. Behind(n, f, r)
  BY <1>5 DEF Behind, Asked
<1>8. Behind(n, g, r)
  BY <1>5, <1>6 DEF Behind, Asked
<1>9. Safe(m, f, r, <<y>>) /\ C!After(m, <<y>>) = n /\ C!After(f, <<y>>) = g
  BY <1>1, <1>2, <1>7, <1>8, SafeOne
<1>. QED
  BY <1>8, <1>9 DEF Leads, C!SetCustomer, n, g, y

\* Of a customer whose verification was started.
Known(t) == t.customer # {} /\ \A c \in t.customer : c.kyc # "UNVERIFIED"

LEMMA WritePending ==
  ASSUME NEW m, NEW f, NEW r, Behind(m, f, r), NEW q,
         q = {} \/ \E p \in C!Challenges : q = {p},
         q # {} => Known(m) /\ Known(f)
  PROVE  Leads(m, f, r, C!SetPending(q), [m EXCEPT !.pending = q], [f EXCEPT !.pending = q])
<1>. DEFINE y == [store |-> "pending", value |-> q]
            n == [m EXCEPT !.pending = q]
            g == [f EXCEPT !.pending = q]
<1>1. y \in WriteTypes
  BY DEF WriteTypes, StoreNames
<1>2. Put(m, y) = n /\ Put(f, y) = g
  BY DEF Put
<1>3. ASSUME NEW t, SoundStore(t), q # {} => Known(t)
      PROVE  /\ SoundStore([t EXCEPT !.pending = q])
             /\ [t EXCEPT !.pending = q].customer = t.customer
             /\ [t EXCEPT !.pending = q].requests = t.requests
  <2>1. t \in C!Stores
    BY <1>3 DEF SoundStore
  <2>2. /\ [t EXCEPT !.pending = q].customer = t.customer
        /\ [t EXCEPT !.pending = q].requests = t.requests
        /\ [t EXCEPT !.pending = q].pending = q
        /\ [t EXCEPT !.pending = q] \in C!Stores
    BY <2>1 DEF C!Stores
  <2>. QED
    BY <1>3, <2>2 DEF SoundStore, Known
<1>4. SoundStore(m) /\ SoundStore(f)
  BY DEF Behind
<1>5. SoundStore(n) /\ n.customer = m.customer /\ n.requests = m.requests
  BY <1>3, <1>4
<1>6. SoundStore(g) /\ g.customer = f.customer /\ g.requests = f.requests
  BY <1>3, <1>4
<1>. HIDE DEF n, g, y
<1>7. Behind(n, f, r)
  BY <1>5 DEF Behind, Asked
<1>8. Behind(n, g, r)
  BY <1>5, <1>6 DEF Behind, Asked
<1>9. Safe(m, f, r, <<y>>) /\ C!After(m, <<y>>) = n /\ C!After(f, <<y>>) = g
  BY <1>1, <1>2, <1>7, <1>8, SafeOne
<1>. QED
  BY <1>8, <1>9 DEF Leads, C!SetPending, n, g, y

LEMMA WriteRequest ==
  ASSUME NEW m, NEW f, NEW r, Behind(m, f, r), NEW i \in C!Ids, NEW status \in {"PENDING", "VERIFIED"},
         m.customer # {}, f.customer # {}, m.requests[i] = "VERIFIED" => status = "VERIFIED"
  PROVE  Leads(m, f, r, C!SetRequest(m, i, status),
               [m EXCEPT !.requests = [m.requests EXCEPT ![i] = status]],
               [f EXCEPT !.requests = [m.requests EXCEPT ![i] = status]])
<1>. DEFINE q == [m.requests EXCEPT ![i] = status]
            y == [store |-> "requests", value |-> q]
            n == [m EXCEPT !.requests = q]
            g == [f EXCEPT !.requests = q]
<1>4. SoundStore(m) /\ SoundStore(f) /\ m \in C!Stores /\ f \in C!Stores
  BY DEF Behind, SoundStore
<1>a. q \in [C!Ids -> {"NONE", "PENDING", "VERIFIED"}]
  BY <1>4 DEF C!Stores
<1>b. \A j \in C!Ids : m.requests[j] = "VERIFIED" => q[j] = "VERIFIED"
  BY <1>4 DEF C!Stores
<1>. HIDE DEF q
<1>1. y \in WriteTypes
  BY <1>a DEF WriteTypes, StoreNames
<1>2. Put(m, y) = n /\ Put(f, y) = g
  BY DEF Put
<1>3. ASSUME NEW t, SoundStore(t), t.customer # {}
      PROVE  /\ SoundStore([t EXCEPT !.requests = q])
             /\ [t EXCEPT !.requests = q].customer = t.customer
             /\ [t EXCEPT !.requests = q].requests = q
  <2>1. t \in C!Stores
    BY <1>3 DEF SoundStore
  <2>2. /\ [t EXCEPT !.requests = q].customer = t.customer
        /\ [t EXCEPT !.requests = q].requests = q
        /\ [t EXCEPT !.requests = q].pending = t.pending
        /\ [t EXCEPT !.requests = q] \in C!Stores
    BY <1>a, <2>1 DEF C!Stores
  <2>. QED
    BY <1>3, <2>2 DEF SoundStore
<1>5. SoundStore(n) /\ n.customer = m.customer /\ n.requests = q
  BY <1>3, <1>4
<1>6. SoundStore(g) /\ g.customer = f.customer /\ g.requests = q
  BY <1>3, <1>4
<1>. HIDE DEF n, g, y
<1>7. Behind(n, f, r)
  BY <1>b, <1>5 DEF Behind
<1>8. Behind(n, g, r)
  <2>1. \A j \in C!Ids : f.requests[j] = "VERIFIED" => q[j] = "VERIFIED"
    BY <1>b DEF Behind
  <2>2. \A c \in m.customer \cup f.customer : Asked(c, f) /\ c.reference \in C!Ids \cup {0}
    BY <1>4 DEF Behind, C!Stores, C!Customers
  <2>3. \A c \in m.customer \cup f.customer : Asked(c, g)
    BY <1>6, <2>1, <2>2 DEF Asked
  <2>. QED
    BY <1>5, <1>6, <2>3 DEF Behind
<1>9. Safe(m, f, r, <<y>>) /\ C!After(m, <<y>>) = n /\ C!After(f, <<y>>) = g
  BY <1>1, <1>2, <1>7, <1>8, SafeOne
<1>. QED
  BY <1>8, <1>9 DEF Leads, C!SetRequest, n, g, y, q

LEMMA LeadsBoth ==
  ASSUME NEW m, NEW f, NEW r, NEW a, NEW n, NEW g, Leads(m, f, r, a, n, g),
         NEW b, NEW o, NEW h, Leads(n, g, r, b, o, h)
  PROVE  Leads(m, f, r, a \o b, o, h)
BY SafeBoth DEF Leads

LEMMA LeadsNowhere ==
  ASSUME NEW m, NEW f, NEW r, Behind(m, f, r)
  PROVE  Leads(m, f, r, <<>>, m, f)
BY SafeNone DEF Leads

LEMMA TheOnly == \A t, c : t.customer = {c} => C!TheCustomer(t) = c
BY DEF C!TheCustomer

LEMMA TheOnlyPending == \A t, p : t.pending = {p} => C!ThePending(t) = p
BY DEF C!ThePending

LEMMA AFreshId ==
  ASSUME NEW m, C!Fresh(m) # {}
  PROVE  C!FreshId(m) \in C!Ids /\ m.requests[C!FreshId(m)] = "NONE"
<1>1. C!Fresh(m) \subseteq Nat
  BY DEF C!Fresh, C!Ids
<1>2. \E i \in C!Fresh(m) : \A j \in C!Fresh(m) : i <= j
  BY <1>1, LeastElement
<1>3. C!FreshId(m) \in C!Fresh(m)
  BY <1>2 DEF C!FreshId
<1>. QED
  BY <1>3 DEF C!Fresh

\* Writes that end with a challenge that waits for the customer c.
AskedFor(m, f, r, w, c) ==
  \E n, g, p :
    /\ Leads(m, f, r, w, n, g)
    /\ n.customer = {c} /\ g.customer # {} /\ n.pending = {p}
    /\ p \in C!Challenges /\ p.phone = c.phone /\ n.requests[p.id] = "PENDING"

\* A challenge of the customer, asked for and then waiting.
LEMMA Challenged ==
  ASSUME NEW m, NEW f, NEW r, Behind(m, f, r), NEW c, m.customer = {c}, Known(m), Known(f), C!Fresh(m) # {}
  PROVE  AskedFor(m, f, r, C!Challenge(m), c)
<1>. DEFINE i == C!FreshId(m)
            q == [m.requests EXCEPT ![i] = "PENDING"]
            n == [m EXCEPT !.requests = q]
            g == [f EXCEPT !.requests = q]
            p == [id |-> i, phone |-> c.phone]
            o == [n EXCEPT !.pending = {p}]
            h == [g EXCEPT !.pending = {p}]
<1>1. i \in C!Ids /\ m.requests[i] = "NONE"
  BY AFreshId
<1>2. m \in C!Stores /\ f \in C!Stores
  BY DEF Behind, SoundStore
<1>3. c \in C!Customers /\ p \in C!Challenges /\ p.phone = c.phone /\ p.id = i
  BY <1>1, <1>2 DEF C!Stores, C!Customers, C!Challenges
<1>4. Leads(m, f, r, C!SetRequest(m, i, "PENDING"), n, g)
  BY <1>1, WriteRequest DEF Known
<1>5. n.customer = {c} /\ g.customer = f.customer /\ n.requests = q /\ q[i] = "PENDING"
  BY <1>1, <1>2 DEF C!Stores
<1>k. f.customer # {}
  BY DEF Known
<1>6. /\ C!After(m, C!SetRequest(m, i, "PENDING")) = n /\ Behind(n, g, r)
  BY <1>4 DEF Leads
<1>7. C!Challenge(m) = C!SetRequest(m, i, "PENDING") \o C!SetPending({[id |-> i, phone |-> C!TheCustomer(C!After(m, C!SetRequest(m, i, "PENDING"))).phone]})
  BY DEF C!Challenge, C!Then
<1>8. n \in C!Stores
  BY <1>6 DEF Behind, SoundStore
<1>9. o.customer = n.customer /\ o.requests = n.requests /\ o.pending = {p} /\ h.customer = g.customer
  BY <1>6, <1>8 DEF Behind, SoundStore, C!Stores
<1>. HIDE DEF n, g, i, q
<1>a. C!TheCustomer(n) = c
  BY <1>5, TheOnly
<1>b. Leads(n, g, r, C!SetPending({p}), o, h)
  <2>1. Known(n) /\ Known(g)
    BY <1>5 DEF Known
  <2>. HIDE DEF p
  <2>. QED
    BY <1>3, <1>6, <2>1, WritePending
<1>c. C!Challenge(m) = C!SetRequest(m, i, "PENDING") \o C!SetPending({p})
  BY <1>6, <1>7, <1>a
<1>. HIDE DEF o, h, p
<1>d. Leads(m, f, r, C!Challenge(m), o, h)
  BY <1>4, <1>b, <1>c, LeadsBoth
<1>. QED
  BY <1>3, <1>5, <1>9, <1>d, <1>k DEF AskedFor

LEMMA StartedVerification ==
  ASSUME NEW m, NEW f, NEW r, Behind(m, f, r), NEW c, m.customer = {c}, f.customer # {},
         NEW from \in C!Kyc, NEW to \in C!Kyc, m.pending = {},
         to # "UNVERIFIED", c.kyc \in {from, to}, r = "up" => to \in PastKyc, to \in PastKyc => from \in PastKyc,
         c.kyc = from \/ \A d \in f.customer : d.kyc # "UNVERIFIED", C!Fresh(m) # {}
  PROVE  \E d : d.kyc = to /\ AskedFor(m, f, r, C!Started(m, from, to), d)
<1>. DEFINE d == [c EXCEPT !.kyc = to]
            w == IF c.kyc = from THEN C!SetCustomer(d) ELSE <<>>
<1>1. m \in C!Stores /\ f \in C!Stores /\ Historical(c) /\ Asked(c, f)
  BY DEF Behind, SoundStore
<1>2. c \in C!Customers
  BY <1>1 DEF C!Stores
<1>3. C!Started(m, from, to) = w \o C!Challenge(C!After(m, w))
  <2>1. C!TheCustomer(m) = c
    BY TheOnly
  <2>. QED
    BY <2>1 DEF C!Started, C!Then
<1>4. \E n, g, e :
        /\ Leads(m, f, r, w, n, g) /\ n.customer = {e} /\ e.kyc = to
        /\ g.customer # {} /\ (\A x \in g.customer : x.kyc # "UNVERIFIED") /\ n.requests = m.requests
  <2>1. CASE c.kyc = from
    <3>. DEFINE n == [m EXCEPT !.customer = {d}]
                g == [f EXCEPT !.customer = {d}]
    <3>1. /\ d \in C!Customers /\ d.kyc = to /\ d.reference = c.reference
          /\ d.confirmed = c.confirmed /\ d.phoneStatus = c.phoneStatus
      BY <1>2 DEF C!Customers, C!Kyc
    <3>2. w = C!SetCustomer(d)
      BY <2>1
    <3>3. n.customer = {d} /\ g.customer = {d} /\ n.requests = m.requests
      BY <1>1 DEF C!Stores
    <3>. HIDE DEF d, w
    <3>4. Historical(d) /\ Asked(d, f)
      BY <1>1, <2>1, <3>1 DEF Historical, Asked
    <3>5. Leads(m, f, r, w, n, g)
      BY <3>1, <3>2, <3>4, WriteCustomer
    <3>. HIDE DEF n, g
    <3>. QED
      BY <3>1, <3>3, <3>5
  <2>2. CASE c.kyc # from
    <3>1. w = <<>> /\ c.kyc = to
      BY <2>2
    <3>2. Leads(m, f, r, <<>>, m, f)
      BY LeadsNowhere
    <3>. HIDE DEF w
    <3>. QED
      BY <2>2, <3>1, <3>2
  <2>. QED
    BY <2>1, <2>2
<1>. HIDE DEF w, d
<1>5. PICK n, g, e :
        /\ Leads(m, f, r, w, n, g) /\ n.customer = {e} /\ e.kyc = to
        /\ g.customer # {} /\ (\A x \in g.customer : x.kyc # "UNVERIFIED") /\ n.requests = m.requests
  BY <1>4
<1>6. C!After(m, w) = n /\ Behind(n, g, r)
  BY <1>5 DEF Leads
<1>9. C!Fresh(n) # {}
  BY <1>5 DEF C!Fresh
<1>7. AskedFor(n, g, r, C!Challenge(n), e)
  <2>1. Behind(n, g, r) /\ n.customer = {e} /\ C!Fresh(n) # {} /\ Known(n) /\ Known(g)
    BY <1>5, <1>6, <1>9 DEF Known
  <2>. QED
    BY <2>1, Challenged
<1>8. PICK o, h, p :
           /\ Leads(n, g, r, C!Challenge(n), o, h)
           /\ o.customer = {e} /\ h.customer # {} /\ o.pending = {p}
           /\ p \in C!Challenges /\ p.phone = e.phone /\ o.requests[p.id] = "PENDING"
  BY <1>7 DEF AskedFor
<1>a. Leads(m, f, r, C!Started(m, from, to), o, h)
  BY <1>3, <1>5, <1>6, <1>8, LeadsBoth
<1>b. AskedFor(m, f, r, C!Started(m, from, to), e)
  BY <1>8, <1>a DEF AskedFor
<1>. QED
  BY <1>5, <1>b

\* A confirmation: of a challenge that waits for the phone the customer has.
LEMMA ConfirmedIdentity ==
  ASSUME NEW m, NEW f, NEW r, Behind(m, f, r), NEW c, m.customer = {c}, f.customer # {},
         NEW p, m.pending = {p}, p.phone = c.phone
  PROVE  \E n, g, d :
           /\ Leads(m, f, r, C!ConfirmedWithPhone(m), n, g)
           /\ n.customer = {d} /\ g.customer = {d} /\ d.kyc = "VERIFIED"
<1>. DEFINE i == p.id
            q == [m.requests EXCEPT ![i] = "VERIFIED"]
            d1 == [c EXCEPT !.kyc = "VERIFIED", !.confirmed = TRUE]
            d2 == [d1 EXCEPT !.reference = i]
            d3 == [d2 EXCEPT !.phoneStatus = "VERIFIED"]
            m1 == [m EXCEPT !.requests = q]
            f1 == [f EXCEPT !.requests = q]
            m2 == [m1 EXCEPT !.customer = {d1}]
            f2 == [f1 EXCEPT !.customer = {d1}]
            m3 == [m2 EXCEPT !.pending = {}]
            f3 == [f2 EXCEPT !.pending = {}]
            m4 == [m3 EXCEPT !.customer = {d2}]
            f4 == [f3 EXCEPT !.customer = {d2}]
            m5 == [m4 EXCEPT !.customer = {d3}]
            f5 == [f4 EXCEPT !.customer = {d3}]
<1>1. m \in C!Stores /\ f \in C!Stores
  BY DEF Behind, SoundStore
<1>2. c \in C!Customers /\ p \in C!Challenges /\ i \in C!Ids
  BY <1>1 DEF C!Stores, C!Challenges
<1>3. d1 \in C!Customers /\ d1.kyc = "VERIFIED" /\ d1.confirmed /\ d1.reference = c.reference
  BY <1>2 DEF C!Customers, C!Kyc
<1>4. d1 = [c EXCEPT !.kyc = "VERIFIED", !.confirmed = @ \/ p.phone = c.phone]
  BY <1>2 DEF C!Customers
<1>5. C!Verified(m) = d1
  <2>1. C!TheCustomer(m) = c /\ C!ThePending(m) = p
    BY TheOnly, TheOnlyPending
  <2>. HIDE DEF d1
  <2>. QED
    BY <1>4, <2>1 DEF C!Verified
<1>. HIDE DEF d1
<1>6. d2 \in C!Customers /\ d2.kyc = "VERIFIED" /\ d2.confirmed /\ d2.reference = i
  BY <1>2, <1>3 DEF C!Customers, C!Kyc
<1>7. C!Confirmed(m) =
        ((C!SetRequest(m, i, "VERIFIED") \o C!SetCustomer(d1)) \o C!SetPending({})) \o C!SetCustomer(d2)
  <2>1. C!ThePending(m) = p
    BY TheOnlyPending
  <2>2. C!Confirmed(m) =
        C!SetRequest(m, C!ThePending(m).id, "VERIFIED") \o C!SetCustomer(C!Verified(m)) \o C!SetPending({})
          \o C!SetCustomer([C!Verified(m) EXCEPT !.reference = C!ThePending(m).id])
    BY DEF C!Confirmed
  <2>. QED
    BY <1>5, <2>1, <2>2
<1>. HIDE DEF d2
<1>8. d3 \in C!Customers /\ d3.kyc = "VERIFIED" /\ d3.confirmed /\ d3.reference = i
  BY <1>2, <1>6 DEF C!Customers, C!Kyc
<1>. HIDE DEF d3
<1>a. Historical(d1) /\ Historical(d2) /\ Historical(d3)
  BY <1>3, <1>6, <1>8 DEF Historical
<1>b. Leads(m, f, r, C!SetRequest(m, i, "VERIFIED"), m1, f1)
  BY <1>2, WriteRequest
<1>c. Behind(m1, f1, r) /\ m1.customer = {c} /\ f1.requests[i] = "VERIFIED"
  <2>1. Behind(m1, f1, r)
    BY <1>b DEF Leads
  <2>. QED
    BY <1>1, <1>2, <2>1 DEF C!Stores
<1>. HIDE DEF m1, f1
<1>d. Asked(c, f1) /\ Asked(d1, f1) /\ Asked(d2, f1) /\ Asked(d3, f1) /\ f1 \in C!Stores /\ m1 \in C!Stores
  <2>1. Asked(c, f1)
    BY <1>c DEF Behind
  <2>2. Asked(d1, f1) /\ Asked(d2, f1) /\ Asked(d3, f1)
    BY <1>2, <1>3, <1>6, <1>8, <1>c, <2>1 DEF Asked
  <2>. QED
    BY <1>c, <2>1, <2>2 DEF Behind, SoundStore
<1>e. Leads(m1, f1, r, C!SetCustomer(d1), m2, f2) /\ f2.requests = f1.requests
  <2>1. Leads(m1, f1, r, C!SetCustomer(d1), m2, f2)
    BY <1>3, <1>a, <1>c, <1>d, WriteCustomer DEF PastKyc
  <2>. QED
    BY <1>d, <2>1 DEF C!Stores
<1>f. Behind(m2, f2, r) /\ m2 \in C!Stores /\ f2 \in C!Stores
  BY <1>e DEF Leads, Behind, SoundStore
<1>. HIDE DEF m2, f2
<1>g. Leads(m2, f2, r, C!SetPending({}), m3, f3) /\ f3.requests = f2.requests /\ m3.pending = {} /\ f3.pending = {}
  <2>1. Leads(m2, f2, r, C!SetPending({}), m3, f3)
    BY <1>f, WritePending DEF m3, f3
  <2>. QED
    BY <1>f, <2>1 DEF C!Stores
<1>h. Behind(m3, f3, r) /\ m3 \in C!Stores /\ f3 \in C!Stores
  BY <1>g DEF Leads, Behind, SoundStore
<1>. HIDE DEF m3, f3
<1>i. Asked(d2, f3)
  BY <1>d, <1>e, <1>g DEF Asked
<1>j. Leads(m3, f3, r, C!SetCustomer(d2), m4, f4) /\ f4.requests = f3.requests /\ m4.customer = {d2}
  <2>1. Leads(m3, f3, r, C!SetCustomer(d2), m4, f4)
    BY <1>6, <1>a, <1>h, <1>i, WriteCustomer DEF PastKyc
  <2>. QED
    BY <1>h, <2>1 DEF C!Stores
<1>k. Behind(m4, f4, r) /\ m4 \in C!Stores /\ f4 \in C!Stores
  BY <1>j DEF Leads, Behind, SoundStore
<1>. HIDE DEF m4, f4
<1>l. Asked(d3, f4)
  BY <1>d, <1>e, <1>g, <1>j DEF Asked
<1>m. Leads(m4, f4, r, C!SetCustomer(d3), m5, f5) /\ m5.customer = {d3} /\ f5.customer = {d3}
  <2>1. Leads(m4, f4, r, C!SetCustomer(d3), m5, f5)
    BY <1>8, <1>a, <1>k, <1>l, WriteCustomer DEF PastKyc
  <2>. QED
    BY <1>k, <2>1 DEF C!Stores
<1>. HIDE DEF m5, f5
<1>n. Leads(m, f, r, C!SetRequest(m, i, "VERIFIED") \o C!SetCustomer(d1), m2, f2)
  BY <1>b, <1>e, LeadsBoth
<1>o. Leads(m, f, r, (C!SetRequest(m, i, "VERIFIED") \o C!SetCustomer(d1)) \o C!SetPending({}), m3, f3)
  BY <1>g, <1>n, LeadsBoth
<1>p. Leads(m, f, r, C!Confirmed(m), m4, f4)
  BY <1>7, <1>j, <1>o, LeadsBoth
<1>q. C!ConfirmedWithPhone(m) = C!Confirmed(m) \o C!SetCustomer(d3)
  <2>1. C!ConfirmedWithPhone(m) = C!Confirmed(m) \o C!PhoneVerified(C!After(m, C!Confirmed(m)))
    BY DEF C!ConfirmedWithPhone, C!Then
  <2>2. C!After(m, C!Confirmed(m)) = m4
    BY <1>p DEF Leads
  <2>3. C!PhoneVerified(m4) = C!SetCustomer([C!TheCustomer(m4) EXCEPT !.phoneStatus = "VERIFIED"])
    BY DEF C!PhoneVerified
  <2>4. C!TheCustomer(m4) = d2
    BY <1>j, TheOnly
  <2>. QED
    BY <2>1, <2>2, <2>3, <2>4 DEF d3
<1>r. Leads(m, f, r, C!ConfirmedWithPhone(m), m5, f5)
  BY <1>m, <1>p, <1>q, LeadsBoth
<1>. QED
  BY <1>8, <1>m, <1>r

\* Writes that end with one customer, of this state.
EndsIn(m, w, state) ==
  \E n, g, d : Leads(m, m, "down", w, n, g) /\ n.customer = {d} /\ d.kyc = state

LEMMA LinkedPartner ==
  ASSUME NEW m, Behind(m, m, "down"), NEW c, m.customer = {c}, c.kyc # "UNVERIFIED"
  PROVE  EndsIn(m, C!Linked(m), c.kyc)
<1>1. m \in C!Stores /\ Historical(c) /\ Asked(c, m)
  BY DEF Behind, SoundStore
<1>2. c \in C!Customers
  BY <1>1 DEF C!Stores
<1>3. C!TheCustomer(m) = c
  BY TheOnly
<1>4. CASE c.partner
  <2>1. C!Linked(m) = <<>>
    BY <1>3, <1>4 DEF C!Linked
  <2>2. Leads(m, m, "down", <<>>, m, m)
    BY LeadsNowhere
  <2>. QED
    BY <2>1, <2>2 DEF EndsIn
<1>5. CASE ~c.partner
  <2>. DEFINE d == [c EXCEPT !.partner = TRUE]
              n == [m EXCEPT !.customer = {d}]
  <2>1. C!Linked(m) = C!SetCustomer(d)
    BY <1>3, <1>5 DEF C!Linked
  <2>2. /\ d \in C!Customers /\ d.kyc = c.kyc /\ d.reference = c.reference
        /\ d.phoneStatus = c.phoneStatus /\ (c.confirmed => d.confirmed)
    BY <1>2 DEF C!Customers
  <2>3. n.customer = {d}
    BY <1>1 DEF C!Stores
  <2>. HIDE DEF d
  <2>4. Historical(d) /\ Asked(d, m)
    BY <1>1, <2>2 DEF Historical, Asked
  <2>5. Leads(m, m, "down", C!SetCustomer(d), n, n)
    BY <2>2, <2>4, WriteCustomer
  <2>. HIDE DEF n
  <2>. QED
    BY <2>1, <2>2, <2>3, <2>5 DEF EndsIn
<1>. QED
  BY <1>4, <1>5

\* From one store, both copies come to the same.
LEMMA LeadsToOne ==
  ASSUME NEW m, NEW w, NEW n, NEW g, Leads(m, m, "down", w, n, g)
  PROVE  n = g
BY DEF Leads

\* Registration leaves a customer whose identity was verified.
LEMMA Finished ==
  ASSUME NEW m, Behind(m, m, "down"), NEW c, m.customer = {c},
         c.kyc = "PENDING" /\ m.pending # {} => C!Confirmable(m),
         m.pending = {} /\ c.kyc \in {"UNVERIFIED", "PENDING"} => C!Fresh(m) # {}
  PROVE  \E n, d : Leads(m, m, "down", C!Finish(m), n, n) /\ n.customer = {d} /\ d.kyc \in PastKyc
<1>. DEFINE w == IF C!TheCustomer(m).kyc \in {"UNVERIFIED", "PENDING"}
                 THEN C!Then(m, C!Started(m, "UNVERIFIED", "PENDING"), C!ConfirmedWithPhone) ELSE <<>>
<1>1. SoundStore(m) /\ m \in C!Stores /\ C!TheCustomer(m) = c
  BY TheOnly DEF Behind, SoundStore
<1>2. c \in C!Customers
  BY <1>1 DEF C!Stores
<1>3. \E n, g, d : Leads(m, m, "down", w, n, g) /\ n.customer = {d} /\ d.kyc \in PastKyc
  <2>1. CASE c.kyc \in {"UNVERIFIED", "PENDING"} /\ m.pending = {}
    <3>1. \E d : d.kyc = "PENDING" /\ AskedFor(m, m, "down", C!Started(m, "UNVERIFIED", "PENDING"), d)
      BY <1>1, <2>1, StartedVerification DEF C!Kyc, PastKyc
    <3>2. PICK d, n, g, p :
            /\ Leads(m, m, "down", C!Started(m, "UNVERIFIED", "PENDING"), n, g)
            /\ n.customer = {d} /\ g.customer # {} /\ n.pending = {p} /\ p.phone = d.phone
      BY <3>1 DEF AskedFor
    <3>3. Behind(n, g, "down") /\ C!After(m, C!Started(m, "UNVERIFIED", "PENDING")) = n
      BY <3>2 DEF Leads
    <3>4. PICK o, h, e : Leads(n, g, "down", C!ConfirmedWithPhone(n), o, h) /\ o.customer = {e} /\ e.kyc = "VERIFIED"
      BY <3>2, <3>3, ConfirmedIdentity
    <3>5. w = C!Started(m, "UNVERIFIED", "PENDING") \o C!ConfirmedWithPhone(C!After(m, C!Started(m, "UNVERIFIED", "PENDING")))
      BY <1>1, <2>1 DEF C!Then
    <3>. HIDE DEF w
    <3>6. Leads(m, m, "down", w, o, h)
      BY <3>2, <3>3, <3>4, <3>5, LeadsBoth
    <3>. QED
      BY <3>4, <3>6 DEF PastKyc
  <2>2. CASE c.kyc \in {"UNVERIFIED", "PENDING"} /\ m.pending # {}
    <3>1. c.kyc = "PENDING"
      BY <1>1, <2>2 DEF SoundStore
    <3>2. PICK p : m.pending = {p}
      BY <1>1, <2>2 DEF SoundStore
    <3>3. p.phone = c.phone
      BY <1>1, <2>2, <3>1, <3>2, TheOnlyPending DEF C!Confirmable
    <3>4. PICK o, h, e : Leads(m, m, "down", C!ConfirmedWithPhone(m), o, h) /\ o.customer = {e} /\ e.kyc = "VERIFIED"
      BY <3>2, <3>3, ConfirmedIdentity
    <3>5. w = C!Started(m, "UNVERIFIED", "PENDING") \o C!ConfirmedWithPhone(C!After(m, C!Started(m, "UNVERIFIED", "PENDING")))
      BY <1>1, <2>2 DEF C!Then
    <3>6. C!Started(m, "UNVERIFIED", "PENDING") = <<>>
      BY <2>2 DEF C!Started
    <3>7. Leads(m, m, "down", <<>>, m, m) /\ C!After(m, <<>>) = m
      BY LeadsNowhere DEF Leads
    <3>. HIDE DEF w
    <3>8. w = <<>> \o C!ConfirmedWithPhone(m)
      BY <3>5, <3>6, <3>7
    <3>9. Leads(m, m, "down", w, o, h)
      BY <3>4, <3>7, <3>8, LeadsBoth
    <3>. QED
      BY <3>4, <3>9 DEF PastKyc
  <2>3. CASE c.kyc \notin {"UNVERIFIED", "PENDING"}
    <3>1. w = <<>> /\ c.kyc \in PastKyc
      BY <1>1, <1>2, <2>3 DEF C!Customers, C!Kyc, PastKyc
    <3>2. Leads(m, m, "down", <<>>, m, m)
      BY LeadsNowhere
    <3>. HIDE DEF w
    <3>. QED
      BY <3>1, <3>2
  <2>. QED
    BY <2>1, <2>2, <2>3
<1>4. C!Finish(m) = w \o C!Linked(C!After(m, w))
  BY DEF C!Finish, C!Then
<1>. HIDE DEF w
<1>5. PICK n, d : Leads(m, m, "down", w, n, n) /\ n.customer = {d} /\ d.kyc \in PastKyc
  BY <1>3, LeadsToOne
<1>6. Behind(n, n, "down") /\ C!After(m, w) = n /\ d.kyc # "UNVERIFIED"
  BY <1>5 DEF Leads, PastKyc
<1>a. EndsIn(n, C!Linked(n), d.kyc)
  BY <1>5, <1>6, LinkedPartner
<1>7. PICK o, h, e : Leads(n, n, "down", C!Linked(n), o, h) /\ o.customer = {e} /\ e.kyc = d.kyc
  BY <1>a DEF EndsIn
<1>9. o = h
  BY <1>7, LeadsToOne
<1>8. Leads(m, m, "down", C!Finish(m), o, o)
  BY <1>4, <1>5, <1>6, <1>7, <1>9, LeadsBoth
<1>. QED
  BY <1>5, <1>7, <1>8

-----------------------------------------------------------------------------
\* Of a server that is down only the files matter: its memory was sound when it stopped.
CustomerSafe ==
  /\ Behind(kycFile, kycFile, "down") /\ SoundStore(kyc)
  /\ kycRunning \in BOOLEAN /\ (kycRunning => Behind(kyc, kycFile, "up"))

LEMMA BehindOfFile ==
  ASSUME NEW m, NEW f, NEW r, Behind(m, f, r)
  PROVE  Behind(f, f, "down") /\ SoundStore(m)
BY DEF Behind

LEMMA AtStartup ==
  ASSUME CustomerSafe, NEW w, C!Startup(w), NEW n, NEW d,
         Leads(kycFile, kycFile, "down", w, n, n), n.customer = {d}, d.kyc \in PastKyc
  PROVE  CustomerSafe'
<1>1. Behind(n, n, "down") /\ C!After(kycFile, w) = n /\ Len(w) \in Nat
  BY DEF Leads, Safe
<1>2. CASE kyc' = C!After(kycFile, w) /\ kycFile' = kyc' /\ kycRunning' = TRUE
  <2>1. kyc' = n /\ kycFile' = n
    BY <1>1, <1>2
  <2>2. Behind(n, n, "up")
    BY <1>1 DEF Behind
  <2>3. SoundStore(n)
    BY <1>1 DEF Behind
  <2>. QED
    BY <1>1, <1>2, <2>1, <2>2, <2>3 DEF CustomerSafe
<1>3. CASE \E k \in 0..Len(w) : kycFile' = C!FirstWrites(kycFile, w, k) /\ UNCHANGED <<kyc, kycRunning>>
  <2>1. PICK k \in 0..Len(w) : kycFile' = C!FirstWrites(kycFile, w, k) /\ UNCHANGED <<kyc, kycRunning>>
    BY <1>3
  <2>2. Behind(C!FirstWrites(kycFile, w, k), C!FirstWrites(kycFile, w, k), "down")
    BY DEF Leads, Safe
  <2>3. ~kycRunning
    BY DEF C!Startup
  <2>. QED
    BY <2>1, <2>2, <2>3 DEF CustomerSafe
<1>. QED
  BY <1>2, <1>3 DEF C!Startup

LEMMA WhilePerforming ==
  ASSUME CustomerSafe, NEW w, C!Perform(w), NEW n, NEW g, Leads(kyc, kycFile, "up", w, n, g)
  PROVE  CustomerSafe'
<1>1. Behind(n, g, "up") /\ C!After(kyc, w) = n /\ C!After(kycFile, w) = g /\ Len(w) \in Nat /\ kycRunning
  BY DEF Leads, Safe, C!Perform
<1>2. CASE kyc' = C!After(kyc, w) /\ kycFile' = C!After(kycFile, w) /\ UNCHANGED kycRunning
  <2>1. kyc' = n /\ kycFile' = g
    BY <1>1, <1>2
  <2>. QED
    BY <1>1, <1>2, <2>1, BehindOfFile DEF CustomerSafe
<1>3. CASE /\ \E k \in 1..Len(w) : kyc' = C!FirstWrites(kyc, w, k) /\ kycFile' = C!FirstWrites(kycFile, w, k - 1)
           /\ UNCHANGED kycRunning
  <2>1. PICK k \in 1..Len(w) : kyc' = C!FirstWrites(kyc, w, k) /\ kycFile' = C!FirstWrites(kycFile, w, k - 1)
    BY <1>3
  <2>2. Behind(C!FirstWrites(kyc, w, k), C!FirstWrites(kycFile, w, k - 1), "up")
    BY DEF Leads, Safe
  <2>3. Behind(kyc', kycFile', "up")
    BY <2>1, <2>2
  <2>. QED
    BY <1>1, <1>3, <2>3, BehindOfFile DEF CustomerSafe
<1>4. CASE /\ \E k \in 0..Len(w) : kycFile' = C!FirstWrites(kycFile, w, k)
           /\ kycRunning' = FALSE /\ UNCHANGED kyc
  <2>1. PICK k \in 0..Len(w) : kycFile' = C!FirstWrites(kycFile, w, k)
    BY <1>4
  <2>2. Behind(C!FirstWrites(kyc, w, k), C!FirstWrites(kycFile, w, k), "up")
    BY DEF Leads, Safe
  <2>3. Behind(kycFile', kycFile', "down")
    BY <2>1, <2>2, BehindOfFile
  <2>. QED
    BY <1>4, <2>3 DEF CustomerSafe
<1>. QED
  BY <1>2, <1>3, <1>4 DEF C!Perform

LEMMA StartsNew ==
  ASSUME CustomerSafe, C!StartNew
  PROVE  CustomerSafe'
<1>. DEFINE phone == CHOOSE q \in Phones : TRUE
            c == [phone |-> phone, kyc |-> "UNVERIFIED", reference |-> 0, confirmed |-> FALSE,
                  partner |-> FALSE, phoneStatus |-> "UNVERIFIED"]
            w == C!Then(kycFile, C!NewCustomer(phone), C!Finish)
            m == [kycFile EXCEPT !.customer = {c}]
<1>1. phone \in Phones
  BY ServerStoresAssumption
<1>. HIDE DEF phone
<1>2. c \in C!Customers /\ c.kyc = "UNVERIFIED" /\ c.reference = 0
  BY <1>1 DEF C!Customers, C!Kyc
<1>3. Behind(kycFile, kycFile, "down") /\ kycFile.customer = {} /\ SoundStore(kycFile) /\ kycFile \in C!Stores
  BY DEF CustomerSafe, C!StartNew, Behind, SoundStore
<1>4. kycFile.pending = {} /\ \A i \in C!Ids : kycFile.requests[i] = "NONE"
  BY <1>3 DEF SoundStore
<1>5. C!NewCustomer(phone) = C!SetCustomer(c)
  BY DEF C!NewCustomer
<1>6. m.customer = {c} /\ m.pending = {} /\ m.requests = kycFile.requests
  BY <1>3, <1>4 DEF C!Stores
<1>. HIDE DEF c
<1>7. Historical(c) /\ Asked(c, kycFile)
  BY <1>2 DEF Historical, Asked, PastKyc
<1>8. Leads(kycFile, kycFile, "down", C!NewCustomer(phone), m, m)
  BY <1>2, <1>3, <1>4, <1>5, <1>7, WriteCustomer
<1>9. Behind(m, m, "down") /\ C!After(kycFile, C!NewCustomer(phone)) = m
  BY <1>8 DEF Leads
<1>a. 1 \in C!Ids /\ m.requests[1] = "NONE"
  BY <1>4, <1>6, ServerStoresAssumption DEF C!Ids
<1>b. C!Fresh(m) # {}
  BY <1>a DEF C!Fresh
<1>. HIDE DEF m
<1>c. PICK n, d : Leads(m, m, "down", C!Finish(m), n, n) /\ n.customer = {d} /\ d.kyc \in PastKyc
  BY <1>2, <1>6, <1>9, <1>b, Finished
<1>d. w = C!NewCustomer(phone) \o C!Finish(m)
  BY <1>9 DEF C!Then
<1>e. Leads(kycFile, kycFile, "down", w, n, n)
  BY <1>8, <1>c, <1>d, LeadsBoth
<1>f. C!Startup(w)
  BY DEF C!StartNew, phone
<1>. QED
  BY <1>c, <1>e, <1>f, AtStartup

LEMMA StartsAgain ==
  ASSUME CustomerSafe, C!StartAgain
  PROVE  CustomerSafe'
<1>1. Behind(kycFile, kycFile, "down") /\ SoundStore(kycFile) /\ kycFile.customer # {}
  BY DEF CustomerSafe, C!StartAgain, Behind
<1>2. PICK c : kycFile.customer = {c}
  BY <1>1 DEF SoundStore
<1>3. C!TheCustomer(kycFile) = c
  BY <1>2, TheOnly
<1>4. c.kyc = "PENDING" /\ kycFile.pending # {} => C!Confirmable(kycFile)
  BY <1>1, <1>3 DEF C!StartAgain, C!CannotStart
<1>5. kycFile.pending = {} /\ c.kyc \in {"UNVERIFIED", "PENDING"} => C!Fresh(kycFile) # {}
  BY <1>3 DEF C!StartAgain
<1>6. PICK n, d : Leads(kycFile, kycFile, "down", C!Finish(kycFile), n, n) /\ n.customer = {d} /\ d.kyc \in PastKyc
  BY <1>1, <1>2, <1>4, <1>5, Finished
<1>7. C!Startup(C!Finish(kycFile))
  BY DEF C!StartAgain
<1>. QED
  BY <1>6, <1>7, AtStartup

\* Of a server that is up.
LEMMA CustomerOfAServerThatIsUp ==
  ASSUME CustomerSafe, kycRunning
  PROVE  \E c :
           /\ Behind(kyc, kycFile, "up") /\ kyc.customer = {c} /\ C!customer = c /\ c \in C!Customers
           /\ c.kyc \in PastKyc /\ Historical(c) /\ Asked(c, kycFile)
           /\ Known(kyc) /\ Known(kycFile)
<1>1. Behind(kyc, kycFile, "up") /\ SoundStore(kyc) /\ kyc \in C!Stores
  BY DEF CustomerSafe, SoundStore
<1>2. \A t \in {kyc, kycFile} : t.customer # {} /\ \A c \in t.customer : c.kyc \in PastKyc
  BY <1>1 DEF Behind
<1>3. PICK c : kyc.customer = {c}
  BY <1>1, <1>2 DEF SoundStore
<1>4. C!customer = c
  BY <1>3, TheOnly DEF C!customer
<1>5. c \in C!Customers
  BY <1>1, <1>3 DEF C!Stores
<1>6. Historical(c) /\ Asked(c, kycFile) /\ c.kyc \in PastKyc
  BY <1>1, <1>2, <1>3 DEF SoundStore, Behind
<1>7. Known(kyc) /\ Known(kycFile)
  BY <1>2 DEF Known, PastKyc
<1>. QED
  BY <1>1, <1>3, <1>4, <1>5, <1>6, <1>7

LEMMA ChangesPhone ==
  ASSUME CustomerSafe, kycRunning, NEW phone \in Phones, C!ChangePhone(phone)
  PROVE  CustomerSafe'
<1>1. PICK c :
           /\ Behind(kyc, kycFile, "up") /\ kyc.customer = {c} /\ C!customer = c /\ c \in C!Customers
           /\ c.kyc \in PastKyc /\ Historical(c) /\ Asked(c, kycFile)
           /\ Known(kyc) /\ Known(kycFile)
  BY CustomerOfAServerThatIsUp
<1>. DEFINE d == [c EXCEPT !.phone = phone, !.confirmed = FALSE, !.phoneStatus = "REVERIFICATION_REQUIRED",
                           !.kyc = IF c.kyc = "VERIFIED" THEN "REVERIFICATION_REQUIRED" ELSE c.kyc]
<1>2. /\ d \in C!Customers /\ d.kyc \in PastKyc /\ d.reference = c.reference
      /\ d.phoneStatus = "REVERIFICATION_REQUIRED"
  BY <1>1 DEF C!Customers, C!Kyc, PastKyc
<1>3. C!Perform(C!SetCustomer(d))
  BY <1>1 DEF C!ChangePhone
<1>. HIDE DEF d
<1>4. Historical(d) /\ Asked(d, kycFile) /\ d.kyc # "UNVERIFIED"
  BY <1>1, <1>2 DEF Historical, Asked, PastKyc
<1>5. Leads(kyc, kycFile, "up", C!SetCustomer(d), [kyc EXCEPT !.customer = {d}], [kycFile EXCEPT !.customer = {d}])
  BY <1>1, <1>2, <1>4, WriteCustomer
<1>. QED
  BY <1>3, <1>5, WhilePerforming

LEMMA Suspends ==
  ASSUME CustomerSafe, kycRunning, C!Suspend
  PROVE  CustomerSafe'
<1>1. PICK c :
           /\ Behind(kyc, kycFile, "up") /\ kyc.customer = {c} /\ C!customer = c /\ c \in C!Customers
           /\ c.kyc \in PastKyc /\ Historical(c) /\ Asked(c, kycFile)
           /\ Known(kyc) /\ Known(kycFile)
  BY CustomerOfAServerThatIsUp
<1>. DEFINE d == [c EXCEPT !.kyc = "SUSPENDED"]
<1>2. /\ d \in C!Customers /\ d.kyc = "SUSPENDED" /\ d.reference = c.reference
      /\ d.phoneStatus = c.phoneStatus /\ (c.confirmed => d.confirmed)
  BY <1>1 DEF C!Customers, C!Kyc
<1>3. C!Perform(C!SetCustomer(d))
  BY <1>1 DEF C!Suspend
<1>. HIDE DEF d
<1>4. Historical(d) /\ Asked(d, kycFile) /\ d.kyc # "UNVERIFIED" /\ d.kyc \in PastKyc
  BY <1>1, <1>2 DEF Historical, Asked, PastKyc
<1>5. Leads(kyc, kycFile, "up", C!SetCustomer(d), [kyc EXCEPT !.customer = {d}], [kycFile EXCEPT !.customer = {d}])
  BY <1>1, <1>2, <1>4, WriteCustomer
<1>. QED
  BY <1>3, <1>5, WhilePerforming

LEMMA Recovers ==
  ASSUME CustomerSafe, kycRunning, C!Recover
  PROVE  CustomerSafe'
<1>1. PICK c :
           /\ Behind(kyc, kycFile, "up") /\ kyc.customer = {c} /\ C!customer = c /\ c \in C!Customers
           /\ c.kyc \in PastKyc /\ Historical(c) /\ Asked(c, kycFile)
           /\ Known(kyc) /\ Known(kycFile)
  BY CustomerOfAServerThatIsUp
<1>. DEFINE d == [c EXCEPT !.kyc = "VERIFIED"]
<1>2. /\ d \in C!Customers /\ d.kyc = "VERIFIED" /\ d.reference = c.reference
      /\ d.phoneStatus = c.phoneStatus /\ (c.confirmed => d.confirmed)
  BY <1>1 DEF C!Customers, C!Kyc
<1>3. C!Perform(C!SetCustomer(d))
  BY <1>1 DEF C!Recover
<1>. HIDE DEF d
<1>4. Historical(d) /\ Asked(d, kycFile) /\ d.kyc # "UNVERIFIED" /\ d.kyc \in PastKyc
  BY <1>1, <1>2 DEF Historical, Asked, PastKyc
<1>5. Leads(kyc, kycFile, "up", C!SetCustomer(d), [kyc EXCEPT !.customer = {d}], [kycFile EXCEPT !.customer = {d}])
  BY <1>1, <1>2, <1>4, WriteCustomer
<1>. QED
  BY <1>3, <1>5, WhilePerforming

LEMMA RequestsReverification ==
  ASSUME CustomerSafe, kycRunning, C!RequestReverification
  PROVE  CustomerSafe'
<1>. DEFINE w == C!Started(kyc, "VERIFIED", "REVERIFICATION_REQUIRED")
<1>1. PICK c :
           /\ Behind(kyc, kycFile, "up") /\ kyc.customer = {c} /\ C!customer = c /\ c \in C!Customers
           /\ c.kyc \in PastKyc /\ Historical(c) /\ Asked(c, kycFile)
           /\ Known(kyc) /\ Known(kycFile)
  BY CustomerOfAServerThatIsUp
<1>2. /\ kyc.pending = {} /\ c.kyc \in {"VERIFIED", "REVERIFICATION_REQUIRED"} /\ C!Fresh(kyc) # {}
      /\ C!Perform(w)
  BY <1>1 DEF C!RequestReverification
<1>3. kycFile.customer # {} /\ \A d \in kycFile.customer : d.kyc # "UNVERIFIED"
  BY <1>1 DEF Known
<1>4. \E d : d.kyc = "REVERIFICATION_REQUIRED" /\ AskedFor(kyc, kycFile, "up", w, d)
  <2>1. "VERIFIED" \in PastKyc /\ "REVERIFICATION_REQUIRED" \in PastKyc
        /\ "VERIFIED" \in C!Kyc /\ "REVERIFICATION_REQUIRED" \in C!Kyc
    BY DEF PastKyc, C!Kyc
  <2>. QED
    BY <1>1, <1>2, <1>3, <2>1, StartedVerification
<1>. HIDE DEF w
<1>5. PICK n, g : Leads(kyc, kycFile, "up", w, n, g)
  BY <1>4 DEF AskedFor
<1>. QED
  BY <1>2, <1>5, WhilePerforming

LEMMA Confirms ==
  ASSUME CustomerSafe, kycRunning, C!Confirm
  PROVE  CustomerSafe'
<1>1. PICK c :
           /\ Behind(kyc, kycFile, "up") /\ kyc.customer = {c} /\ C!customer = c /\ c \in C!Customers
           /\ c.kyc \in PastKyc /\ Historical(c) /\ Asked(c, kycFile)
           /\ Known(kyc) /\ Known(kycFile)
  BY CustomerOfAServerThatIsUp
<1>2. /\ kyc.pending # {} /\ C!ThePending(kyc).phone = c.phone
      /\ C!Perform(C!ConfirmedWithPhone(kyc))
  BY <1>1 DEF C!Confirm, C!Confirmable, C!customer
<1>3. PICK p : kyc.pending = {p}
  BY <1>1, <1>2 DEF Behind, SoundStore
<1>4. p.phone = c.phone
  BY <1>2, <1>3, TheOnlyPending
<1>5. PICK n, g : Leads(kyc, kycFile, "up", C!ConfirmedWithPhone(kyc), n, g)
  BY <1>1, <1>3, <1>4, ConfirmedIdentity DEF Known
<1>. QED
  BY <1>2, <1>5, WhilePerforming

LEMMA CustomerStart ==
  ASSUME C!Init
  PROVE  CustomerSafe
<1>. DEFINE none == [i \in C!Ids |-> "NONE"]
<1>1. none \in [C!Ids -> {"NONE", "PENDING", "VERIFIED"}] /\ \A i \in C!Ids : none[i] = "NONE"
  OBVIOUS
<1>. HIDE DEF none
<1>2. kyc = [customer |-> {}, requests |-> none, pending |-> {}] /\ kycFile = kyc /\ kycRunning = FALSE
  BY DEF C!Init, none
<1>3. kyc.customer = {} /\ kyc.requests = none /\ kyc.pending = {} /\ kyc \in C!Stores
  BY <1>1, <1>2 DEF C!Stores
<1>4. SoundStore(kyc)
  BY <1>1, <1>3 DEF SoundStore
<1>5. Behind(kyc, kyc, "down")
  BY <1>1, <1>3, <1>4 DEF Behind
<1>. QED
  BY <1>2, <1>4, <1>5 DEF CustomerSafe

LEMMA CustomerStep ==
  ASSUME CustomerSafe, [C!Next]_kycVars
  PROVE  CustomerSafe'
<1>1. CASE C!StartNew
  BY <1>1, StartsNew
<1>2. CASE C!StartAgain
  BY <1>2, StartsAgain
<1>3. ASSUME kycRunning, NEW phone \in Phones, C!ChangePhone(phone) PROVE CustomerSafe'
  BY <1>3, ChangesPhone
<1>4. CASE kycRunning /\ C!RequestReverification
  BY <1>4, RequestsReverification
<1>5. CASE kycRunning /\ C!Confirm
  BY <1>5, Confirms
<1>6. CASE kycRunning /\ C!Suspend
  BY <1>6, Suspends
<1>7. CASE kycRunning /\ C!Recover
  BY <1>7, Recovers
<1>8. CASE UNCHANGED kycVars
  BY <1>8 DEF kycVars, CustomerSafe
<1>. QED
  BY <1>1, <1>2, <1>3, <1>4, <1>5, <1>6, <1>7, <1>8 DEF C!Next

LEMMA SafeIsConfirmed == CustomerSafe => EligibleIsConfirmed
<1>. SUFFICES ASSUME CustomerSafe PROVE C!EligibleIsConfirmed
  BY DEF EligibleIsConfirmed
<1>1. \A t \in {kyc, kycFile} : \A c \in t.customer : C!Eligible(c) => c.confirmed
  BY DEF CustomerSafe, Behind, SoundStore, Historical, C!Eligible, PastKyc
<1>2. \A c \in kycFile.customer :
        /\ c.kyc = "VERIFIED" => \E i \in C!Ids : kycFile.requests[i] = "VERIFIED"
        /\ c.reference # 0 => kycFile.requests[c.reference] = "VERIFIED"
  BY DEF CustomerSafe, Behind, Asked, PastKyc
<1>. QED
  BY <1>1, <1>2 DEF C!EligibleIsConfirmed

LEMMA CountOfAtMostOne ==
  ASSUME NEW T, \A x, y \in T : x = y
  PROVE  Cardinality(T) <= 1
<1>1. CASE T = {}
  BY <1>1, FS_EmptySet
<1>2. CASE T # {}
  <2>1. PICK x : x \in T
    BY <1>2
  <2>2. T = {x}
    BY <2>1
  <2>3. Cardinality({x}) = 1
    BY FS_Singleton
  <2>. QED
    BY <2>2, <2>3
<1>. QED
  BY <1>1, <1>2

\* The modules' number of elements is the library's.
LEMMA Counts == \A T : C!Cardinality(T) = Cardinality(T) /\ S!Cardinality(T) = Cardinality(T)
BY DEF C!Cardinality, S!Cardinality, Cardinality

CustomerBounds == kycStops \in 0..MaxStops /\ kycFailedSaves \in 0..MaxFailedSaves

LEMMA CustomerBounded ==
  /\ C!Init => CustomerBounds
  /\ CustomerBounds /\ [C!Next]_kycVars => CustomerBounds'
<1>1. C!Init => CustomerBounds
  BY ServerStoresAssumption, PartnerReconciliationAssumption DEF C!Init, CustomerBounds
<1>2. ASSUME CustomerBounds, NEW w, C!Startup(w) PROVE CustomerBounds'
  <2>1. /\ kycStops' = kycStops \/ (kycStops < MaxStops /\ kycStops' = kycStops + 1)
        /\ kycFailedSaves' = kycFailedSaves \/ (kycFailedSaves < MaxFailedSaves /\ kycFailedSaves' = kycFailedSaves + 1)
    BY <1>2 DEF C!Startup
  <2>2. MaxStops \in Nat /\ MaxFailedSaves \in Nat
    BY ServerStoresAssumption, PartnerReconciliationAssumption
  <2>. QED
    BY <1>2, <2>1, <2>2 DEF CustomerBounds
<1>3. ASSUME CustomerBounds, NEW w, C!Perform(w) PROVE CustomerBounds'
  <2>1. /\ kycStops' = kycStops \/ (kycStops < MaxStops /\ kycStops' = kycStops + 1)
        /\ kycFailedSaves' = kycFailedSaves \/ (kycFailedSaves < MaxFailedSaves /\ kycFailedSaves' = kycFailedSaves + 1)
    BY <1>3 DEF C!Perform
  <2>2. MaxStops \in Nat /\ MaxFailedSaves \in Nat
    BY ServerStoresAssumption, PartnerReconciliationAssumption
  <2>. QED
    BY <1>3, <2>1, <2>2 DEF CustomerBounds
<1>4. ASSUME CustomerBounds, C!Next PROVE CustomerBounds'
  BY <1>2, <1>3, <1>4 DEF C!Next, C!StartNew, C!StartAgain, C!ChangePhone, C!RequestReverification, C!Confirm, C!Suspend, C!Recover
<1>5. ASSUME CustomerBounds, UNCHANGED kycVars PROVE CustomerBounds'
  BY <1>5 DEF kycVars, CustomerBounds
<1>. QED
  BY <1>1, <1>4, <1>5

LEMMA CustomerTypes == CustomerSafe /\ CustomerBounds => C!TypeOK
<1>. SUFFICES ASSUME CustomerSafe, CustomerBounds PROVE C!TypeOK
  OBVIOUS
<1>1. SoundStore(kyc) /\ SoundStore(kycFile)
  BY DEF CustomerSafe, Behind
<1>2. ASSUME NEW t \in {kyc, kycFile} PROVE C!Cardinality(t.customer) <= 1 /\ C!Cardinality(t.pending) <= 1
  <2>1. \A x, y \in t.customer : x = y
    BY <1>1, <1>2 DEF SoundStore
  <2>2. \A x, y \in t.pending : x = y
    BY <1>1, <1>2 DEF SoundStore
  <2>. QED
    BY <2>1, <2>2, CountOfAtMostOne, Counts
<1>3. kyc \in C!Stores /\ kycFile \in C!Stores
  BY <1>1 DEF SoundStore
<1>4. kycRunning => kyc.customer # {}
  BY DEF CustomerSafe, Behind
<1>. QED
  BY <1>2, <1>3, <1>4 DEF C!TypeOK, CustomerSafe, CustomerBounds

LEMMA ShadowTypes == ShadowInv => S!TypeOK
<1>. SUFFICES ASSUME ShadowInv PROVE S!TypeOK
  OBVIOUS
<1>1. ASSUME NEW x \in S!Items PROVE S!Cardinality(row[x]) <= 1
  <2>1. \A q, r \in row[x] : q = r
    BY DEF ShadowInv, RowsOK, S!Row
  <2>. QED
    BY <2>1, CountOfAtMostOne, Counts
<1>2. ASSUME NEW x \in S!Items PROVE S!Cardinality({j \in Jobs : x \in S!Staged(j)}) <= 1
  <2>1. \A i, j \in {j \in Jobs : x \in S!Staged(j)} : i = j
    BY DEF ShadowInv, Locks, Staged, S!Staged
  <2>. QED
    BY <2>1, CountOfAtMostOne, Counts
<1>. QED
  BY <1>1, <1>2 DEF S!TypeOK, ShadowInv, Types, Revisions

-----------------------------------------------------------------------------
(* All stores together.                                                    *)

StoresInv == CallbackInv /\ AttemptInv /\ ReviewInv /\ ShadowInv /\ CustomerSafe

LEMMA ServerParts == ServerInit => Init /\ A!Init /\ H!Init /\ S!Init /\ C!Init
BY DEF ServerInit

\* A step of the server is a step of each store, or leaves it alone.
LEMMA ServerStepParts ==
  [ServerNext]_serverVars =>
    /\ [Next]_vars /\ [A!Next]_attemptVars /\ [H!Next]_reviewVars /\ [S!Next]_sessionVars
    /\ [C!Next]_kycVars
BY DEF ServerNext, serverVars

\* Every store keeps what its part of the invariant says.
THEOREM StoresInvariant == ServerSpec => []StoresInv
<1>1. ServerInit => StoresInv
  BY ServerParts, CallbackInit, AttemptInit, ReviewInit, ShadowInit, CustomerStart DEF StoresInv
<1>2. StoresInv /\ [ServerNext]_serverVars => StoresInv'
  BY ServerStepParts, CallbackStep, AttemptStep, ReviewStep, ShadowStep, CustomerStep DEF StoresInv
<1>. QED
  BY <1>1, <1>2, PTL DEF ServerSpec

\* Every store keeps its types.
THEOREM StoresKeepTypes == ServerSpec => []TypeOKStores
<1>1. StoresInv => TypeOK /\ A!TypeOK /\ H!TypeOK /\ S!TypeOK
  BY ShadowTypes DEF StoresInv, CallbackInv, AttemptInv, ReviewInv
<1>2. StoresInv /\ CustomerBounds => C!TypeOK
  BY CustomerTypes DEF StoresInv
<1>3. ServerInit => CustomerBounds
  BY ServerParts, CustomerBounded
<1>4. CustomerBounds /\ [ServerNext]_serverVars => CustomerBounds'
  BY ServerStepParts, CustomerBounded
<1>5. StoresInv /\ CustomerBounds => TypeOKStores
  BY <1>1, <1>2 DEF TypeOKStores
<1>. QED
  BY <1>3, <1>4, <1>5, StoresInvariant, PTL DEF ServerSpec

\* PartnerReconciliationService: whatever outcome a partner was answered for is on
\* record while no save has failed, settlement is only ever the partner's word, and
\* of the callbacks of a transaction the one with the highest number counts, for any
\* callbacks in any order, with duplicates, failed saves and restarts.
THEOREM CallbacksAreBelieved == ServerSpec => []PartnerIsBelieved
<1>1. StoresInv => PartnerIsBelieved
  BY CallbackBelieved DEF StoresInv
<1>. QED
  BY <1>1, StoresInvariant, PTL

\* PaymentAttemptStore: of all the stores on one file, with their stale copies and
\* failed saves, one is granted the attempt of a transaction, and a copy whose number
\* is the file's is the file's.
THEOREM OneGrantOnly == ServerSpec => []AtMostOneGrant
<1>1. StoresInv => AtMostOneGrant
  BY AttemptGranted DEF StoresInv
<1>. QED
  BY <1>1, StoresInvariant, PTL

\* HumanReviewService: an answer that a reviewer got, with a retry of the same key and
\* a stale copy in between, is what the record says.
THEOREM ReviewersAreTold == ServerSpec => []ToldHolds
<1>1. StoresInv => ToldHolds
  BY ReviewTold DEF StoresInv
<1>. QED
  BY <1>1, StoresInvariant, PTL

\* HumanReviewService: every event of a case but those open to all was of the reviewer
\* who held it at the time.
THEOREM OnlyTheReviewerActs == ServerSpec => []ReviewerActs
<1>1. StoresInv => ReviewerActs
  BY ReviewActs DEF StoresInv
<1>. QED
  BY <1>1, StoresInvariant, PTL

\* CustomerService, KycService and registerDemoApi: whatever was changed, suspended,
\* retried or lost between two saves, a customer who may transact has confirmed a challenge
\* for the phone they have, and the confirmed request is on the provider's file.
THEOREM CustomersStayConfirmed == ServerSpec => []EligibleIsConfirmed
<1>1. StoresInv => EligibleIsConfirmed
  BY SafeIsConfirmed DEF StoresInv
<1>. QED
  BY <1>1, StoresInvariant, PTL

\* canarySessionLifecycle and the sync job: no job, however late, refuses a session in
\* use in canary mode, or brings back a row that a logout removed.
THEOREM SessionsStayServed == ServerSpec => []SessionsAreKept
<1>1. StoresInv => SessionsAreKept
  BY ShadowSessions DEF StoresInv
<1>. QED
  BY <1>1, StoresInvariant, PTL

\* No step undoes an outcome or the number of a callback on file, the revision of an
\* intent's row, or evidence of an attempt; evidence is added by its reserver only.
THEOREM NothingGoesBack == ServerSpec => NothingIsUndone
<1>1. StoresInv /\ [ServerNext]_serverVars => FileKeeps /\ EvidenceAdded /\ IntentsKept
  BY ServerStepParts, CallbackStep, AttemptStep, ShadowStep DEF StoresInv
<1>2. StoresInv /\ [ServerNext]_serverVars =>
        [\A t \in Transactions : \A o \in file.operation[t] : \E p \in file'.operation[t] :
           p.last >= o.last /\ (o.state \in TerminalStates => p.state = o.state)]_vars
  BY <1>1 DEF FileKeeps, Keeps
<1>3. StoresInv /\ [ServerNext]_serverVars =>
        [\A i \in Intents : \A r \in row[i] : \E q \in row'[i] : q.revision >= r.revision]_(S!vars)
  BY <1>1 DEF IntentsKept
<1>4. StoresInv /\ [ServerNext]_serverVars =>
        [\A k \in Keys : attempts.record[k] # attempts'.record[k] /\ attempts.record[k] # {} =>
           \E s \in PaymentStores :
             /\ k \in granted[s]
             /\ \E r \in attempts.record[k] : r.evidence = {}
             /\ \E q \in attempts'.record[k] : \E r \in attempts.record[k] :
                  q.request = r.request /\ q.evidence # {}]_(A!vars)
  BY <1>1 DEF EvidenceAdded
<1>. QED
  BY <1>2, <1>3, <1>4, StoresInvariant, PTL
  DEF ServerSpec, NothingIsUndone, FileNeverRegresses, S!IntentNeverRegresses, A!EvidenceByTheReserver

\* The lease of the records is used within the bounds that its proofs assume.
LEMMA LeaseBounds ==
  /\ LeaseMs \in Nat \ {0} /\ WaitMs \in Nat /\ MaxTime \in Nat /\ MaxLocks \in Nat /\ 2 \in Nat
  /\ None \notin R!Locks
BY ServerStoresAssumption DEF R!Locks

\* LeasedRecordStore: while no locked section outlives its lease and no recovery meets
\* another of the same lock, the calls on a record of two processes of the server,
\* crashes and failed writes at any step included, implement atomic compare-and-set
\* operations, for any lease, wait and clock.
THEOREM StoresImplementAtomicStore == ServerSpec => ImplementsAtomicStore
<1>1. ServerInit => R!RecordInit
  BY DEF ServerInit
<1>2. [ServerNext]_serverVars => [R!RecordNext /\ breach' = {}]_(R!allVars)
  BY Zenon DEF ServerNext, serverVars, recordVars, R!allVars, R!vars, R!recordVars, R!files, R!local
<1>3. R!UnbreachedSpec => R!ImplementsAtomicStore
  BY LeaseBounds, R!LeaseImplementsAtomicStore
<1>. QED
  BY <1>1, <1>2, <1>3, PTL DEF ServerSpec, R!UnbreachedSpec, ImplementsAtomicStore
=============================================================================
