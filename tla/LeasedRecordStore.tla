-------------------------- MODULE LeasedRecordStore -------------------------
(***************************************************************************)
(* create and compareAndSet of the directory stores that keep one JSON     *)
(* file per record and write it inside a lease (hub workflow intents; the  *)
(* human-review and payment-attempt stores have the same shape), composed  *)
(* with the steps of LocalFileLease.                                       *)
(***************************************************************************)
EXTENDS LocalFileLease

VARIABLES
  revision,  \* revision in the record file, 0 while there is no file
  expected,  \* [Procs -> expectedRevision], 0 for create
  section,   \* [Procs -> stage of the locked section; "unsynced" is written, then thrown]
  result,    \* [Procs -> what the last call returned or threw]
  writes     \* history: the <<revision, lease>> of every rename into place

recordVars == <<revision, expected, section, result, writes>>
allVars == <<vars, recordVars>>

RecordInit ==
  /\ Init
  /\ revision = 0
  /\ expected = [p \in Procs |-> 0]
  /\ section = [p \in Procs |-> "outside"]
  /\ result = [p \in Procs |-> "none"]
  /\ writes = {}

-----------------------------------------------------------------------------
\* The caller loads without the lock, then enters withScopeLock.
Call(p) ==
  /\ Begin(p)
  /\ expected' = [expected EXCEPT ![p] = revision]
  /\ section' = [section EXCEPT ![p] = "waiting"]
  /\ result' = [result EXCEPT ![p] = "none"]
  /\ UNCHANGED <<revision, writes>>

\* Mutant: the revision is not compared under the lock.
ReadCurrentMut(p) ==
  /\ At(p, "hold") /\ section[p] = "waiting"
  /\ section' = [section EXCEPT ![p] = "matched"]
  /\ UNCHANGED <<vars, revision, expected, result, writes>>

\* The locked section reads the file and compares.
ReadCurrent(p) ==
  /\ At(p, "hold") /\ section[p] = "waiting"
  /\ section' = [section EXCEPT ![p] =
                   IF revision = expected[p] THEN "matched" ELSE "refused"]
  /\ UNCHANGED <<vars, revision, expected, result, writes>>

\* renameSync(temporary, file).  The directory fsync that follows may throw.
WriteRecordFile(p) ==
  /\ At(p, "hold") /\ section[p] = "matched"
  /\ revision' = expected[p] + 1
  /\ writes' = writes \cup {<<expected[p] + 1, mine[p]>>}
  /\ \E after \in {"written", "unsynced"} : section' = [section EXCEPT ![p] = after]
  /\ UNCHANGED <<vars, expected, result>>

\* Writing or syncing the temporary file throws: the record is untouched.
WriteTemporaryFails(p) ==
  /\ At(p, "hold") /\ section[p] = "matched"
  /\ section' = [section EXCEPT ![p] = "failed"]
  /\ UNCHANGED <<vars, revision, expected, result, writes>>

\* What withLocalFileLeaseSync hands back: the action's value once the release
\* has succeeded, otherwise an error.
Outcome(p) ==
  CASE section[p] = "written" /\ At(p, "releaseCheck") -> "true"
    [] section[p] = "refused" /\ At(p, "releaseCheck") -> "false"
    [] OTHER -> "error"

\* A step of the lease protocol; the section itself comes before the release,
\* and the call ends when the process is idle again.
LeaseStep(p) ==
  /\ Step(p)
  /\ At(p, "hold") => section[p] \in {"written", "unsynced", "refused", "failed"}
  /\ IF pc'[p] = "idle"
       THEN /\ section' = [section EXCEPT ![p] = "outside"]
            /\ result' = [result EXCEPT ![p] = Outcome(p)]
       ELSE UNCHANGED <<section, result>>
  /\ UNCHANGED <<revision, expected, writes>>

CrashInCall(p) ==
  /\ Crash(p)
  /\ section' = [section EXCEPT ![p] = "outside"]
  /\ UNCHANGED <<revision, expected, result, writes>>

RecordNext ==
  \/ \E p \in Procs :
       \/ Call(p) \/ LeaseStep(p) \/ CrashInCall(p)
       \/ ReadCurrent(p) \/ WriteRecordFile(p) \/ WriteTemporaryFails(p)
  \/ Tick /\ UNCHANGED recordVars

RecordSpec == RecordInit /\ [][RecordNext]_allVars

\* The environment the stores are used in: every locked section is over well
\* within the lease, and no recovery meets another recovery of the same lock.
UnbreachedSpec == RecordInit /\ [][RecordNext /\ breach' = {}]_allVars

-----------------------------------------------------------------------------
\* Through the lease, the calls of several processes, with crashes and failed
\* writes at any step, look like atomic compare-and-set operations.
Stage(p) ==
  CASE section[p] = "outside" -> "none"
    [] section[p] \in {"waiting", "matched", "failed"} -> "called"
    [] section[p] = "refused" -> "refused"
    [] section[p] \in {"written", "unsynced"} -> "applied"

Atomic == INSTANCE AtomicRecordStore WITH call <- [p \in Procs |-> Stage(p)]
ImplementsAtomicStore == Atomic!Spec

\* The stale-lock closure's claim that the revision compare-and-set is the
\* authoritative lost-update guard: no two calls write the same revision.
NoLostUpdate ==
  \A v, w \in writes : v[1] = w[1] => v = w
=============================================================================
