--------------------------- MODULE LocalFileLease ---------------------------
(***************************************************************************)
(* The lock file behind every durable record store of the hub, as the      *)
(* processes that share one directory run it: one step per file-system     *)
(* call whose effect another process can see (src/server/local-file-       *)
(* lease.ts).                                                              *)
(*                                                                         *)
(* A lock file is identified by the attempt that created it (the code's    *)
(* random owner UUID).  A path is the identifier of the file it names, or  *)
(* None.  A process that crashes forgets everything; the files stay.      *)
(***************************************************************************)
EXTENDS Integers, FiniteSets

CONSTANTS
  Procs,       \* processes sharing the lock path
  LeaseMs,     \* options.leaseMs
  WaitMs,      \* options.waitMs
  MaxTime,     \* bound: the clock stops here
  MaxLocks,    \* bound: lock files ever created
  MaxFaults,   \* bound: crashes and failed writes
  None         \* no file

Locks == 1 .. MaxLocks

ASSUME LeaseAssumption ==
  /\ LeaseMs \in Nat \ {0}
  /\ WaitMs \in Nat
  /\ MaxTime \in Nat
  /\ MaxLocks \in Nat
  /\ MaxFaults \in Nat
  /\ None \notin Locks

VARIABLES
  clock,       \* Date.now() and file time stamps
  faults,      \* crashes and failed writes so far
  made,        \* lock files created so far
  written,     \* [Locks -> BOOLEAN]: the record is in the file, else it is empty
  expiresAt,   \* [Locks -> time]: leaseExpiresAtMs of the record
  mtime,       \* [Locks -> time]: when the empty file was created
  lockPath,    \* the file at options.lockPath
  aside,       \* [Procs -> file]: its quarantine or release path
  pc,          \* [Procs -> step about to run]
  mine,        \* [Procs -> file]: the lease it created last
  nowMs,       \* [Procs -> time]: Date.now() of this iteration
  startedAtMs, \* [Procs -> time]: Date.now() of this acquisition
  observedRaw, \* [Procs -> content seen]: a file's record, None when empty
  observedFile,\* [Procs -> file]: history, the file the staleness verdict is about
  breach       \* history: how the lease discipline has been broken so far

files == <<written, expiresAt, mtime, lockPath, made>>
local == <<mine, nowMs, startedAtMs, observedRaw, observedFile>>
vars  == <<clock, faults, files, aside, pc, local, breach>>

-----------------------------------------------------------------------------
\* What reading a file returns: records are unique, empty files are alike.
Raw(f) == IF written[f] THEN f ELSE None

\* Mutant: an empty lock file is taken for an abandoned one at once.
StaleMut(raw, file, now) == IF raw # None THEN expiresAt[raw] <= now ELSE TRUE

\* The two staleness tests: the record's expiry, or an empty file's age.
Stale(raw, file, now) ==
  IF raw # None THEN expiresAt[raw] <= now ELSE mtime[file] + LeaseMs <= now

Goto(p, step) == pc' = [pc EXCEPT ![p] = step]
At(p, step) == pc[p] = step

\* The process has a lock file of its own on disk, as far as it knows.
OwningSteps  == {"write", "undo", "hold", "releaseRename", "releaseCheck"}
HoldingSteps == {"hold", "releaseRename"}
Steps == OwningSteps \cup
  {"idle", "loop", "open", "read", "stat", "rename", "recheck",
   "restore", "restoreAgain", "putBack"}

Owns(p)  == pc[p] \in OwningSteps
Holds(p) == pc[p] \in HoldingSteps
Fresh(f) == clock < expiresAt[f]

\* Acquisitions under way that may still create a file.
Acquiring == {p \in Procs : pc[p] \in {"loop", "open", "read", "stat", "rename",
                                      "recheck", "restore", "restoreAgain", "putBack"}}

Init ==
  /\ clock = 0 /\ faults = 0 /\ made = 0
  /\ written = [f \in Locks |-> FALSE]
  /\ expiresAt = [f \in Locks |-> 0]
  /\ mtime = [f \in Locks |-> 0]
  /\ lockPath = None
  /\ aside = [p \in Procs |-> None]
  /\ pc = [p \in Procs |-> "idle"]
  /\ mine = [p \in Procs |-> None]
  /\ nowMs = [p \in Procs |-> 0]
  /\ startedAtMs = [p \in Procs |-> 0]
  /\ observedRaw = [p \in Procs |-> None]
  /\ observedFile = [p \in Procs |-> None]
  /\ breach = {}

-----------------------------------------------------------------------------
(* acquireLocalFileLeaseSync                                               *)

Begin(p) ==
  /\ At(p, "idle")
  /\ made + Cardinality(Acquiring) < MaxLocks
  /\ clock + WaitMs <= MaxTime
  /\ startedAtMs' = [startedAtMs EXCEPT ![p] = clock]
  /\ Goto(p, "loop")
  /\ UNCHANGED <<clock, faults, files, aside, mine, nowMs, observedRaw, observedFile, breach>>

\* Top of the loop: the time that stamps the record and judges staleness.
ReadClock(p) ==
  /\ At(p, "loop")
  /\ nowMs' = [nowMs EXCEPT ![p] = clock]
  /\ Goto(p, "open")
  /\ observedRaw' = [observedRaw EXCEPT ![p] = None]
  /\ observedFile' = [observedFile EXCEPT ![p] = None]
  /\ UNCHANGED <<clock, faults, files, aside, mine, startedAtMs, breach>>

\* openSync(lockPath, "wx") succeeds: an empty file is at the path.
OpenCreated(p) ==
  /\ At(p, "open")
  /\ lockPath = None
  /\ made < MaxLocks
  /\ LET f == made + 1 IN
       /\ made' = f
       /\ lockPath' = f
       /\ mtime' = [mtime EXCEPT ![f] = clock]
       /\ expiresAt' = [expiresAt EXCEPT ![f] = nowMs[p] + LeaseMs]
       /\ mine' = [mine EXCEPT ![p] = f]
       /\ breach' = IF nowMs[p] + LeaseMs <= clock THEN breach \cup {"overrun"} ELSE breach
  /\ Goto(p, "write")
  /\ UNCHANGED <<clock, faults, written, aside, nowMs, startedAtMs, observedRaw, observedFile>>

\* EEXIST: go and look whether the lock is stale.
OpenExists(p) ==
  /\ At(p, "open")
  /\ lockPath # None
  /\ Goto(p, "read")
  /\ UNCHANGED <<clock, faults, files, aside, local, breach>>

\* The record goes into the file the descriptor names, wherever it is now.
WriteRecord(p) ==
  /\ At(p, "write")
  /\ written' = [written EXCEPT ![mine[p]] = TRUE]
  /\ Goto(p, "hold")
  /\ UNCHANGED <<clock, faults, expiresAt, mtime, lockPath, made, aside, local, breach>>

\* The write or an fsync fails; the record may or may not be in the file.
WriteFails(p) ==
  /\ At(p, "write")
  /\ faults < MaxFaults
  /\ faults' = faults + 1
  /\ \E done \in BOOLEAN : written' = [written EXCEPT ![mine[p]] = done]
  /\ Goto(p, "undo")
  /\ UNCHANGED <<clock, expiresAt, mtime, lockPath, made, aside, local, breach>>

\* createdByUs: whatever is at the path is unlinked, and the call throws.
Undo(p) ==
  /\ At(p, "undo")
  /\ lockPath' = None
  /\ Goto(p, "idle")
  /\ UNCHANGED <<clock, faults, written, expiresAt, mtime, made, aside, local, breach>>

\* Not recovered: give up once waitMs have passed, else sleep and try again.
GiveUpOrRetry(p) ==
  Goto(p, IF clock - startedAtMs[p] >= WaitMs THEN "idle" ELSE "loop")

-----------------------------------------------------------------------------
(* recoverStaleLock                                                        *)

ReadLock(p) ==
  /\ At(p, "read")
  /\ \/ /\ lockPath = None
        /\ Goto(p, "loop")
        /\ UNCHANGED <<observedRaw, observedFile>>
     \/ /\ lockPath # None
        /\ observedRaw' = [observedRaw EXCEPT ![p] = Raw(lockPath)]
        /\ observedFile' = [observedFile EXCEPT ![p] = lockPath]
        /\ Goto(p, "stat")
  /\ UNCHANGED <<clock, faults, files, aside, mine, nowMs, startedAtMs, breach>>

\* statSync, then the verdict; an empty content is judged by this file's age.
StatLock(p) ==
  /\ At(p, "stat")
  /\ \/ /\ lockPath = None
        /\ Goto(p, "loop")
        /\ UNCHANGED observedFile
     \/ /\ lockPath # None
        /\ observedFile' = IF observedRaw[p] = None
                             THEN [observedFile EXCEPT ![p] = lockPath]
                             ELSE observedFile
        /\ IF Stale(observedRaw[p], lockPath, nowMs[p])
             THEN Goto(p, "rename")
             ELSE GiveUpOrRetry(p)
  /\ UNCHANGED <<clock, faults, files, aside, mine, nowMs, startedAtMs, observedRaw, breach>>

\* renameSync(lockPath, quarantine): moves whatever lock is there by now.
Quarantine(p) ==
  /\ At(p, "rename")
  /\ \/ /\ lockPath = None
        /\ Goto(p, "loop")
        /\ UNCHANGED <<lockPath, aside, breach>>
     \/ /\ lockPath # None
        /\ aside' = [aside EXCEPT ![p] = lockPath]
        /\ lockPath' = None
        /\ breach' = IF lockPath # observedFile[p] THEN breach \cup {"displaced"} ELSE breach
        /\ Goto(p, "recheck")
  /\ UNCHANGED <<clock, faults, written, expiresAt, mtime, made, local>>

\* Mutant: a lock that cannot be moved counts as recovered.
QuarantineDeniedMut(p) ==
  /\ At(p, "rename")
  /\ lockPath # None
  /\ Goto(p, "loop")
  /\ UNCHANGED <<clock, faults, files, aside, local, breach>>

\* EACCES or EPERM: the lock stays, and the attempt has failed like that on a live one.
QuarantineDenied(p) ==
  /\ At(p, "rename")
  /\ lockPath # None
  /\ GiveUpOrRetry(p)
  /\ UNCHANGED <<clock, faults, files, aside, local, breach>>

\* Mutant: the quarantined file is trusted to be the one observed.
SameStaleLockMut(p) == Stale(observedRaw[p], observedFile[p], nowMs[p])

SameStaleLock(p) ==
  /\ Raw(aside[p]) = observedRaw[p]
  /\ Stale(Raw(aside[p]), aside[p], nowMs[p])

RecheckQuarantine(p) ==
  /\ At(p, "recheck")
  /\ IF SameStaleLock(p)
       THEN /\ aside' = [aside EXCEPT ![p] = None]
            /\ Goto(p, "loop")
       ELSE /\ Goto(p, "restore")
            /\ UNCHANGED aside
  /\ UNCHANGED <<clock, faults, files, local, breach>>

-----------------------------------------------------------------------------
(* restoreQuarantinedLock: tried before the throw and again in the catch.  *)

FirstRestore(p) ==
  /\ At(p, "restore")
  /\ Goto(p, IF lockPath # None THEN "restoreAgain" ELSE "putBack")
  /\ UNCHANGED <<clock, faults, files, aside, local, breach>>

SecondRestore(p) ==
  /\ At(p, "restoreAgain")
  /\ \/ /\ lockPath # None   \* the file stays under its private name
        /\ aside' = [aside EXCEPT ![p] = None]
        /\ Goto(p, "idle")
     \/ /\ lockPath = None
        /\ Goto(p, "putBack")
        /\ UNCHANGED aside
  /\ UNCHANGED <<clock, faults, files, local, breach>>

\* renameSync replaces a lock created since the existsSync test.
PutBack(p) ==
  /\ At(p, "putBack")
  /\ lockPath' = aside[p]
  /\ aside' = [aside EXCEPT ![p] = None]
  /\ Goto(p, "idle")
  /\ UNCHANGED <<clock, faults, written, expiresAt, mtime, made, local, breach>>

-----------------------------------------------------------------------------
(* releaseLocalFileLeaseSync                                               *)

ReadOwn(p) ==
  /\ At(p, "hold")
  /\ Goto(p, IF lockPath # None /\ Raw(lockPath) = mine[p] THEN "releaseRename" ELSE "idle")
  /\ UNCHANGED <<clock, faults, files, aside, local, breach>>

RenameOwn(p) ==
  /\ At(p, "releaseRename")
  /\ \/ /\ lockPath = None
        /\ Goto(p, "idle")
        /\ UNCHANGED <<lockPath, aside>>
     \/ /\ lockPath # None
        /\ aside' = [aside EXCEPT ![p] = lockPath]
        /\ lockPath' = None
        /\ Goto(p, "releaseCheck")
  /\ UNCHANGED <<clock, faults, written, expiresAt, mtime, made, local, breach>>

CheckReleased(p) ==
  /\ At(p, "releaseCheck")
  /\ IF Raw(aside[p]) = mine[p]
       THEN /\ aside' = [aside EXCEPT ![p] = None]
            /\ Goto(p, "idle")
       ELSE /\ Goto(p, "restore")
            /\ UNCHANGED aside
  /\ UNCHANGED <<clock, faults, files, local, breach>>

-----------------------------------------------------------------------------
(* The environment                                                         *)

\* A lease that runs out under its owner is an overrun.
Tick ==
  /\ clock < MaxTime
  /\ clock' = clock + 1
  /\ breach' = IF \E p \in Procs : Owns(p) /\ expiresAt[mine[p]] <= clock + 1
                 THEN breach \cup {"overrun"} ELSE breach
  /\ UNCHANGED <<faults, files, aside, pc, local>>

\* The process dies; its quarantine or release file is never looked at again.
Crash(p) ==
  /\ pc[p] # "idle"
  /\ faults < MaxFaults
  /\ faults' = faults + 1
  /\ aside' = [aside EXCEPT ![p] = None]
  /\ Goto(p, "idle")
  /\ UNCHANGED <<clock, files, local, breach>>

Step(p) ==
  \/ ReadClock(p) \/ OpenCreated(p) \/ OpenExists(p)
  \/ WriteRecord(p) \/ WriteFails(p) \/ Undo(p)
  \/ ReadLock(p) \/ StatLock(p) \/ Quarantine(p) \/ QuarantineDenied(p) \/ RecheckQuarantine(p)
  \/ FirstRestore(p) \/ SecondRestore(p) \/ PutBack(p)
  \/ ReadOwn(p) \/ RenameOwn(p) \/ CheckReleased(p)

Next ==
  \/ \E p \in Procs : Begin(p) \/ Step(p) \/ Crash(p)
  \/ Tick

\* A process that is running keeps running, and time passes.
Fairness == WF_vars(Tick) /\ \A p \in Procs : WF_vars(Step(p))

Spec == Init /\ [][Next]_vars

-----------------------------------------------------------------------------
(* Runs without end in a finite instance.  Identifiers are only compared   *)
(* with one another, and so are times: the files in use may be numbered    *)
(* anew and the clock set back.                                            *)

\* The files that a step to come can tell from others.
InUse ==
  LET judging == {p \in Procs : pc[p] \in {"stat", "rename", "recheck"}} IN
  ({lockPath} \cup {aside[p] : p \in Procs} \cup {mine[p] : p \in {q \in Procs : Owns(q)}}
     \cup {observedRaw[p] : p \in judging} \cup {observedFile[p] : p \in judging}) \ {None}

Renumber ==
  LET new(f) == IF f \in InUse THEN Cardinality({g \in InUse : g <= f}) ELSE None
      was(n) == CHOOSE f \in InUse : new(f) = n
      kept == 1 .. Cardinality(InUse)
  IN
  /\ InUse # 1 .. made
  /\ made' = Cardinality(InUse)
  /\ written' = [n \in Locks |-> n \in kept /\ written[was(n)]]
  /\ expiresAt' = [n \in Locks |-> IF n \in kept THEN expiresAt[was(n)] ELSE 0]
  /\ mtime' = [n \in Locks |-> IF n \in kept THEN mtime[was(n)] ELSE 0]
  /\ lockPath' = new(lockPath)
  /\ aside' = [p \in Procs |-> new(aside[p])]
  /\ mine' = [p \in Procs |-> new(mine[p])]
  /\ observedRaw' = [p \in Procs |-> new(observedRaw[p])]
  /\ observedFile' = [p \in Procs |-> new(observedFile[p])]
  /\ UNCHANGED <<clock, faults, pc, nowMs, startedAtMs, breach>>

\* One back, as far as it can matter: what has expired, an age of leaseMs and a wait of
\* waitMs stay so.  A time that a process has read and will compare must not be cut off.
SetBack ==
  LET back(time, floor) == IF time > floor THEN time - 1 ELSE floor IN
  /\ clock = MaxTime /\ clock > 0
  /\ \A p \in Procs : pc[p] \in {"open", "read", "stat", "rename", "recheck"} => nowMs[p] > 0
  /\ clock' = clock - 1
  /\ nowMs' = [p \in Procs |-> back(nowMs[p], 0)]
  /\ startedAtMs' = [p \in Procs |-> back(startedAtMs[p], -WaitMs)]
  /\ expiresAt' = [f \in Locks |-> back(expiresAt[f], 0)]
  /\ mtime' = [f \in Locks |-> back(mtime[f], -LeaseMs)]
  /\ UNCHANGED <<faults, made, written, lockPath, aside, pc, mine, observedRaw, observedFile, breach>>

EndlessNext == Next \/ Renumber \/ SetBack

EndlessSpec == Init /\ [][EndlessNext]_vars /\ Fairness

-----------------------------------------------------------------------------
(* Properties                                                              *)

\* Types, and: a process has a file set aside exactly during the steps between the
\* rename that took it off the path and the call that disposes of it.
TypeOK ==
  /\ clock \in 0 .. MaxTime
  /\ faults \in 0 .. MaxFaults
  /\ made \in 0 .. MaxLocks
  /\ written \in [Locks -> BOOLEAN]
  /\ expiresAt \in [Locks -> Nat]
  /\ mtime \in [Locks -> Nat]
  /\ lockPath \in Locks \cup {None}
  /\ aside \in [Procs -> Locks \cup {None}]
  /\ pc \in [Procs -> Steps]
  /\ mine \in [Procs -> Locks \cup {None}]
  /\ nowMs \in [Procs -> 0 .. MaxTime]
  /\ startedAtMs \in [Procs -> 0 .. MaxTime]
  /\ observedRaw \in [Procs -> Locks \cup {None}]
  /\ observedFile \in [Procs -> Locks \cup {None}]
  /\ breach \subseteq {"overrun", "displaced"}
  /\ \A p \in Procs : aside[p] # None <=> pc[p] \in
       {"recheck", "restore", "restoreAgain", "putBack", "releaseCheck"}

\* While no owner has outlived its lease and no recovery has moved a lock other
\* than the one it judged stale, at most one process is inside the section the
\* lease protects, and its release will find its own lock at the path.
MutualExclusion ==
  breach = {} =>
    /\ \A p, q \in Procs : Holds(p) /\ Holds(q) => p = q
    /\ \A p \in Procs : Holds(p) => lockPath = mine[p]

\* Whatever the timing and the crashes, the unlink that ends a recovery removes a
\* lock whose lease has run out, also when the file was swapped, or was empty and
\* is being written, between the verdict and the unlink.
RecoveryDeletesOnlyExpired ==
  [][\A p \in Procs :
       At(p, "recheck") /\ pc'[p] = "loop" => ~Fresh(aside[p])]_vars

\* A release that finds another owner's lock, however it got there, never unlinks
\* it: a lock leaves the disk through a release only if it is the releaser's own.
ReleaseDeletesOnlyOwn ==
  [][\A p \in Procs :
       At(p, "releaseCheck") /\ pc'[p] = "idle" /\ faults' = faults
         => aside[p] = mine[p]]_vars

\* A successful recovery, and a lock that vanishes under one, lead to the next attempt
\* without a look at the deadline, so that under contention an acquisition may go on
\* for ever.  But only then: every acquisition and every release returns or throws,
\* unless other processes get the lock again and again meanwhile.
LockFreedom ==
  \A p \in Procs : []<>(pc[p] = "idle") \/ []<>(\E q \in Procs \ {p} : pc[q] = "write")
=============================================================================
