---------------------- MODULE LeasedRecordStoreProofs -----------------------
(***************************************************************************)
(* Proofs about LocalFileLease and about the record store that works under *)
(* it, for every number of processes, locks, calls and faults.             *)
(*                                                                         *)
(* The inductive invariant IInv of the lease says who can be where while   *)
(* the lease discipline has not been broken: an owner's lock is fresh and  *)
(* at the path, a lock judged stale has no owner, and therefore no         *)
(* recovery is ever undone.  As long as that holds, create and             *)
(* compareAndSet implement AtomicRecordStore.                              *)
(***************************************************************************)
EXTENDS LeasedRecordStore, TLAPS

Created(f) == f \in Locks /\ f <= made

\* Files on disk have been created; a file expires no later than its age says.
FilesOK ==
  /\ lockPath # None => Created(lockPath)
  /\ \A p \in Procs : aside[p] # None => Created(aside[p])
  /\ \A f \in Locks :
       /\ expiresAt[f] <= mtime[f] + LeaseMs
       /\ f > made => ~written[f]

\* Two owners never own the same file, and only its owner fills it.
OwnersOK ==
  /\ \A p, q \in Procs : Owns(p) /\ Owns(q) /\ mine[p] = mine[q] => p = q
  /\ \A p \in Procs : Owns(p) => Created(mine[p])
  /\ \A p \in Procs : At(p, "write") => ~written[mine[p]]
  /\ \A p \in Procs : pc[p] \in HoldingSteps \cup {"releaseCheck"} => written[mine[p]]

ClocksOK == \A p \in Procs : nowMs[p] <= clock

\* A verdict is about the file that was read, and a stale one stays so.
VerdictOK(p) ==
  /\ pc[p] \in {"stat", "rename", "recheck"} =>
       /\ Created(observedFile[p])
       /\ observedRaw[p] # None =>
            observedRaw[p] = observedFile[p] /\ written[observedFile[p]]
  /\ pc[p] \in {"rename", "recheck"} =>
       Stale(observedRaw[p], observedFile[p], nowMs[p])

VerdictsOK == \A p \in Procs : VerdictOK(p)

\* Until the first breach: where each owner's lock is, ...
KeepsItsLock(p) ==
  /\ Owns(p) => Fresh(mine[p])
  /\ Owns(p) /\ ~At(p, "releaseCheck") => lockPath = mine[p]
  /\ At(p, "releaseCheck") => aside[p] = mine[p]

\* ... and why no recovery is undone.
FindsWhatItSaw(p) ==
  /\ pc[p] \notin {"restore", "restoreAgain", "putBack"}
  /\ At(p, "recheck") => aside[p] = observedFile[p]
  /\ pc[p] \in {"rename", "recheck"} => Raw(observedFile[p]) = observedRaw[p]
  /\ At(p, "stat") =>
       /\ lockPath \notin {None, observedFile[p]} => nowMs[p] <= mtime[lockPath]
       /\ observedRaw[p] = None /\ written[observedFile[p]]
            => nowMs[p] < expiresAt[observedFile[p]]

Unbroken == breach = {} => \A p \in Procs : KeepsItsLock(p) /\ FindsWhatItSaw(p)

IInv == TypeOK /\ FilesOK /\ OwnersOK /\ ClocksOK /\ VerdictsOK /\ Unbroken

-----------------------------------------------------------------------------
(* What a step of one process leaves alone                                 *)

Moves(p) == Begin(p) \/ Step(p) \/ Crash(p)

\* A process changes only its own variables, and not the clock.
LEMMA OthersStay ==
  ASSUME TypeOK, NEW p \in Procs, Moves(p)
  PROVE  /\ clock' = clock
         /\ \A q \in Procs : q # p =>
              /\ pc'[q] = pc[q] /\ aside'[q] = aside[q] /\ mine'[q] = mine[q]
              /\ nowMs'[q] = nowMs[q]
              /\ observedRaw'[q] = observedRaw[q] /\ observedFile'[q] = observedFile[q]
<1> USE DEF TypeOK, Goto, files, local, GiveUpOrRetry
<1>1. CASE Begin(p) \/ ReadClock(p) \/ OpenCreated(p) \/ OpenExists(p)
  BY <1>1 DEF Begin, ReadClock, OpenCreated, OpenExists
<1>2. CASE WriteRecord(p) \/ WriteFails(p) \/ Undo(p) \/ ReadLock(p)
  BY <1>2 DEF WriteRecord, WriteFails, Undo, ReadLock
<1>3. CASE StatLock(p)
  BY <1>3 DEF StatLock
<1>4. CASE Quarantine(p) \/ QuarantineDenied(p) \/ RecheckQuarantine(p) \/ FirstRestore(p)
  BY <1>4 DEF Quarantine, QuarantineDenied, RecheckQuarantine, FirstRestore
<1>5. CASE SecondRestore(p) \/ PutBack(p) \/ ReadOwn(p)
  BY <1>5 DEF SecondRestore, PutBack, ReadOwn
<1>6. CASE RenameOwn(p) \/ CheckReleased(p) \/ Crash(p)
  BY <1>6 DEF RenameOwn, CheckReleased, Crash
<1>. QED
  BY <1>1, <1>2, <1>3, <1>4, <1>5, <1>6 DEF Moves, Step

-----------------------------------------------------------------------------
(* Types                                                                   *)

AsideOK(p) ==
  aside[p] # None <=> pc[p] \in
    {"recheck", "restore", "restoreAgain", "putBack", "releaseCheck"}

\* Types are preserved by every step; under each action, the variables it changes.
LEMMA TypeStep ==
  ASSUME TypeOK, Next
  PROVE  TypeOK'
<1>0. ASSUME NEW p \in Procs, Moves(p), AsideOK(p)'
      PROVE  \A q \in Procs : AsideOK(q)'
  <2>1. \A q \in Procs : q # p => aside'[q] = aside[q] /\ pc'[q] = pc[q]
    BY <1>0, OthersStay
  <2>2. \A q \in Procs : AsideOK(q)
    BY DEF TypeOK, AsideOK
  <2>3. \A q \in Procs : q # p => AsideOK(q)'
    BY <2>1, <2>2 DEF AsideOK
  <2>. QED
    BY <1>0, <2>3
<1> USE LeaseAssumption DEF TypeOK, Locks, Steps, OwningSteps, Goto, At, files, local
<1>1. ASSUME NEW p \in Procs, Begin(p) PROVE TypeOK'
  <2>1. startedAtMs' \in [Procs -> 0 .. MaxTime]
    BY <1>1 DEF Begin
  <2>2. pc' \in [Procs -> Steps]
    BY <1>1 DEF Begin
  <2>3. AsideOK(p)'
    BY <1>1 DEF AsideOK, Begin
  <2>4. \A q \in Procs : AsideOK(q)'
    BY <1>0, <1>1, <2>3 DEF Moves, Step
  <2>5. UNCHANGED <<clock, faults, made, written, expiresAt, mtime, lockPath,
                    aside, mine, nowMs, observedRaw,
                    observedFile, breach>>
    BY <1>1 DEF Begin
  <2>. QED
    BY <2>1, <2>2, <2>3, <2>4, <2>5 DEF AsideOK
<1>2. ASSUME NEW p \in Procs, ReadClock(p) PROVE TypeOK'
  <2>1. nowMs' \in [Procs -> 0 .. MaxTime]
    BY <1>2 DEF ReadClock
  <2>2. pc' \in [Procs -> Steps]
    BY <1>2 DEF ReadClock
  <2>3. observedRaw' \in [Procs -> Locks \cup {None}]
    BY <1>2 DEF ReadClock
  <2>4. observedFile' \in [Procs -> Locks \cup {None}]
    BY <1>2 DEF ReadClock
  <2>5. AsideOK(p)'
    BY <1>2 DEF AsideOK, ReadClock
  <2>6. \A q \in Procs : AsideOK(q)'
    BY <1>0, <1>2, <2>5 DEF Moves, Step
  <2>7. UNCHANGED <<clock, faults, made, written, expiresAt, mtime, lockPath,
                    aside, mine, startedAtMs, breach>>
    BY <1>2 DEF ReadClock
  <2>. QED
    BY <2>1, <2>2, <2>3, <2>4, <2>5, <2>6, <2>7 DEF AsideOK
<1>3. ASSUME NEW p \in Procs, OpenCreated(p) PROVE TypeOK'
  <2>1. made' \in 0 .. MaxLocks
    BY <1>3 DEF OpenCreated
  <2>2. lockPath' \in Locks \cup {None}
    BY <1>3 DEF OpenCreated
  <2>3. mtime' \in [Locks -> Nat]
    BY <1>3 DEF OpenCreated
  <2>4. expiresAt' \in [Locks -> Nat]
    BY <1>3 DEF OpenCreated
  <2>5. mine' \in [Procs -> Locks \cup {None}]
    BY <1>3 DEF OpenCreated
  <2>6. breach' = breach \/ breach' = breach \cup {"overrun"}
    BY <1>3 DEF OpenCreated
  <2>7. pc' \in [Procs -> Steps]
    BY <1>3 DEF OpenCreated
  <2>8. AsideOK(p)'
    BY <1>3 DEF AsideOK, OpenCreated
  <2>9. \A q \in Procs : AsideOK(q)'
    BY <1>0, <1>3, <2>8 DEF Moves, Step
  <2>10. UNCHANGED <<clock, faults, written, aside, nowMs, startedAtMs,
                    observedRaw, observedFile>>
    BY <1>3 DEF OpenCreated
  <2>. QED
    BY <2>1, <2>2, <2>3, <2>4, <2>5, <2>6, <2>7, <2>8, <2>9, <2>10 DEF AsideOK
<1>4. ASSUME NEW p \in Procs, OpenExists(p) PROVE TypeOK'
  <2>1. pc' \in [Procs -> Steps]
    BY <1>4 DEF OpenExists
  <2>2. AsideOK(p)'
    BY <1>4 DEF AsideOK, OpenExists
  <2>3. \A q \in Procs : AsideOK(q)'
    BY <1>0, <1>4, <2>2 DEF Moves, Step
  <2>4. UNCHANGED <<clock, faults, made, written, expiresAt, mtime, lockPath,
                    aside, mine, nowMs, startedAtMs,
                    observedRaw, observedFile, breach>>
    BY <1>4 DEF OpenExists
  <2>. QED
    BY <2>1, <2>2, <2>3, <2>4 DEF AsideOK
<1>5. ASSUME NEW p \in Procs, WriteRecord(p) PROVE TypeOK'
  <2>1. written' \in [Locks -> BOOLEAN]
    BY <1>5 DEF WriteRecord
  <2>2. pc' \in [Procs -> Steps]
    BY <1>5 DEF WriteRecord
  <2>3. AsideOK(p)'
    BY <1>5 DEF AsideOK, WriteRecord
  <2>4. \A q \in Procs : AsideOK(q)'
    BY <1>0, <1>5, <2>3 DEF Moves, Step
  <2>5. UNCHANGED <<clock, faults, made, expiresAt, mtime, lockPath, aside, mine,
                    nowMs, startedAtMs, observedRaw,
                    observedFile, breach>>
    BY <1>5 DEF WriteRecord
  <2>. QED
    BY <2>1, <2>2, <2>3, <2>4, <2>5 DEF AsideOK
<1>6. ASSUME NEW p \in Procs, WriteFails(p) PROVE TypeOK'
  <2>1. written' \in [Locks -> BOOLEAN] /\ faults' \in 0 .. MaxFaults
    <3>1. \E done \in BOOLEAN : written' = [written EXCEPT ![mine[p]] = done]
      BY <1>6 DEF WriteFails
    <3>2. written' \in [Locks -> BOOLEAN]
      BY <3>1
    <3>3. faults' \in 0 .. MaxFaults
      BY <1>6 DEF WriteFails
    <3>. QED
      BY <3>2, <3>3
  <2>2. pc' \in [Procs -> Steps]
    BY <1>6 DEF WriteFails
  <2>3. AsideOK(p)'
    BY <1>6 DEF AsideOK, WriteFails
  <2>4. \A q \in Procs : AsideOK(q)'
    BY <1>0, <1>6, <2>3 DEF Moves, Step
  <2>5. UNCHANGED <<clock, made, expiresAt, mtime, lockPath, aside, mine, nowMs, startedAtMs,
                    observedRaw, observedFile, breach>>
    BY <1>6 DEF WriteFails
  <2>. QED
    BY <2>1, <2>2, <2>3, <2>4, <2>5 DEF AsideOK
<1>7. ASSUME NEW p \in Procs, Undo(p) PROVE TypeOK'
  <2>1. lockPath' \in Locks \cup {None}
    BY <1>7 DEF Undo
  <2>2. pc' \in [Procs -> Steps]
    BY <1>7 DEF Undo
  <2>3. AsideOK(p)'
    BY <1>7 DEF AsideOK, Undo
  <2>4. \A q \in Procs : AsideOK(q)'
    BY <1>0, <1>7, <2>3 DEF Moves, Step
  <2>5. UNCHANGED <<clock, faults, made, written, expiresAt, mtime, aside, mine,
                    nowMs, startedAtMs, observedRaw,
                    observedFile, breach>>
    BY <1>7 DEF Undo
  <2>. QED
    BY <2>1, <2>2, <2>3, <2>4, <2>5 DEF AsideOK
<1>8. ASSUME NEW p \in Procs, ReadLock(p) PROVE TypeOK'
  <2>1. observedRaw' \in [Procs -> Locks \cup {None}]
    BY <1>8 DEF ReadLock, Raw
  <2>2. observedFile' \in [Procs -> Locks \cup {None}]
    BY <1>8 DEF ReadLock, Raw
  <2>3. pc' \in [Procs -> Steps]
    BY <1>8 DEF ReadLock, Raw
  <2>4. AsideOK(p)'
    BY <1>8 DEF AsideOK, ReadLock, Raw
  <2>5. \A q \in Procs : AsideOK(q)'
    BY <1>0, <1>8, <2>4 DEF Moves, Step
  <2>6. UNCHANGED <<clock, faults, made, written, expiresAt, mtime, lockPath,
                    aside, mine, nowMs, startedAtMs, breach>>
    BY <1>8 DEF ReadLock
  <2>. QED
    BY <2>1, <2>2, <2>3, <2>4, <2>5, <2>6 DEF AsideOK
<1>9. ASSUME NEW p \in Procs, StatLock(p) PROVE TypeOK'
  <2>1. observedFile' \in [Procs -> Locks \cup {None}]
    BY <1>9 DEF StatLock, GiveUpOrRetry
  <2>2. pc' \in [Procs -> Steps]
    BY <1>9 DEF StatLock, GiveUpOrRetry
  <2>3. AsideOK(p)'
    BY <1>9 DEF AsideOK, StatLock, GiveUpOrRetry
  <2>4. \A q \in Procs : AsideOK(q)'
    BY <1>0, <1>9, <2>3 DEF Moves, Step
  <2>5. UNCHANGED <<clock, faults, made, written, expiresAt, mtime, lockPath,
                    aside, mine, nowMs, startedAtMs,
                    observedRaw, breach>>
    BY <1>9 DEF StatLock
  <2>. QED
    BY <2>1, <2>2, <2>3, <2>4, <2>5 DEF AsideOK
<1>10. ASSUME NEW p \in Procs, Quarantine(p) PROVE TypeOK'
  <2>1. aside' \in [Procs -> Locks \cup {None}]
    <3>1. aside' = aside \/ (\E f \in Locks \cup {None} : aside' = [aside EXCEPT ![p] = f])
      BY <1>10 DEF Quarantine
    <3>. QED
      BY <3>1
  <2>2. lockPath' \in Locks \cup {None}
    BY <1>10 DEF Quarantine
  <2>3. breach' = breach \/ breach' = breach \cup {"displaced"}
    BY <1>10 DEF Quarantine
  <2>4. pc' \in [Procs -> Steps]
    BY <1>10 DEF Quarantine
  <2>5. AsideOK(p)'
    BY <1>10 DEF AsideOK, Quarantine
  <2>6. \A q \in Procs : AsideOK(q)'
    BY <1>0, <1>10, <2>5 DEF Moves, Step
  <2>7. UNCHANGED <<clock, faults, made, written, expiresAt, mtime, mine, nowMs,
                    startedAtMs, observedRaw, observedFile>>
    BY <1>10 DEF Quarantine
  <2>. QED
    BY <2>1, <2>2, <2>3, <2>4, <2>5, <2>6, <2>7 DEF AsideOK
<1>10a. ASSUME NEW p \in Procs, QuarantineDenied(p) PROVE TypeOK'
  <2>1. pc' \in [Procs -> Steps]
    BY <1>10a DEF QuarantineDenied, GiveUpOrRetry
  <2>2. AsideOK(p)'
    BY <1>10a DEF AsideOK, QuarantineDenied, GiveUpOrRetry
  <2>3. \A q \in Procs : AsideOK(q)'
    BY <1>0, <1>10a, <2>2 DEF Moves, Step
  <2>4. UNCHANGED <<clock, faults, made, written, expiresAt, mtime, lockPath, aside, mine,
                    nowMs, startedAtMs, observedRaw, observedFile, breach>>
    BY <1>10a DEF QuarantineDenied
  <2>. QED
    BY <2>1, <2>2, <2>3, <2>4 DEF AsideOK
<1>11. ASSUME NEW p \in Procs, RecheckQuarantine(p) PROVE TypeOK'
  <2>1. aside' \in [Procs -> Locks \cup {None}]
    <3>1. aside' = aside \/ (\E f \in Locks \cup {None} : aside' = [aside EXCEPT ![p] = f])
      BY <1>11 DEF RecheckQuarantine
    <3>. QED
      BY <3>1
  <2>2. pc' \in [Procs -> Steps]
    BY <1>11 DEF RecheckQuarantine
  <2>3. AsideOK(p)'
    BY <1>11 DEF AsideOK, RecheckQuarantine
  <2>4. \A q \in Procs : AsideOK(q)'
    BY <1>0, <1>11, <2>3 DEF Moves, Step
  <2>5. UNCHANGED <<clock, faults, made, written, expiresAt, mtime, lockPath,
                    mine, nowMs, startedAtMs, observedRaw,
                    observedFile, breach>>
    BY <1>11 DEF RecheckQuarantine
  <2>. QED
    BY <2>1, <2>2, <2>3, <2>4, <2>5 DEF AsideOK
<1>12. ASSUME NEW p \in Procs, FirstRestore(p) PROVE TypeOK'
  <2>1. pc' \in [Procs -> Steps]
    BY <1>12 DEF FirstRestore
  <2>2. AsideOK(p)'
    BY <1>12 DEF AsideOK, FirstRestore
  <2>3. \A q \in Procs : AsideOK(q)'
    BY <1>0, <1>12, <2>2 DEF Moves, Step
  <2>4. UNCHANGED <<clock, faults, made, written, expiresAt, mtime, lockPath,
                    aside, mine, nowMs, startedAtMs,
                    observedRaw, observedFile, breach>>
    BY <1>12 DEF FirstRestore
  <2>. QED
    BY <2>1, <2>2, <2>3, <2>4 DEF AsideOK
<1>13. ASSUME NEW p \in Procs, SecondRestore(p) PROVE TypeOK'
  <2>1. aside' \in [Procs -> Locks \cup {None}]
    <3>1. aside' = aside \/ (\E f \in Locks \cup {None} : aside' = [aside EXCEPT ![p] = f])
      BY <1>13 DEF SecondRestore
    <3>. QED
      BY <3>1
  <2>2. pc' \in [Procs -> Steps]
    BY <1>13 DEF SecondRestore
  <2>3. AsideOK(p)'
    BY <1>13 DEF AsideOK, SecondRestore
  <2>4. \A q \in Procs : AsideOK(q)'
    BY <1>0, <1>13, <2>3 DEF Moves, Step
  <2>5. UNCHANGED <<clock, faults, made, written, expiresAt, mtime, lockPath,
                    mine, nowMs, startedAtMs, observedRaw,
                    observedFile, breach>>
    BY <1>13 DEF SecondRestore
  <2>. QED
    BY <2>1, <2>2, <2>3, <2>4, <2>5 DEF AsideOK
<1>14. ASSUME NEW p \in Procs, PutBack(p) PROVE TypeOK'
  <2>1. lockPath' \in Locks \cup {None}
    BY <1>14 DEF PutBack
  <2>2. aside' \in [Procs -> Locks \cup {None}]
    BY <1>14 DEF PutBack
  <2>3. pc' \in [Procs -> Steps]
    BY <1>14 DEF PutBack
  <2>4. AsideOK(p)'
    BY <1>14 DEF AsideOK, PutBack
  <2>5. \A q \in Procs : AsideOK(q)'
    BY <1>0, <1>14, <2>4 DEF Moves, Step
  <2>6. UNCHANGED <<clock, faults, made, written, expiresAt, mtime, mine, nowMs,
                    startedAtMs, observedRaw, observedFile,
                    breach>>
    BY <1>14 DEF PutBack
  <2>. QED
    BY <2>1, <2>2, <2>3, <2>4, <2>5, <2>6 DEF AsideOK
<1>15. ASSUME NEW p \in Procs, ReadOwn(p) PROVE TypeOK'
  <2>1. pc' \in [Procs -> Steps]
    BY <1>15 DEF ReadOwn
  <2>2. AsideOK(p)'
    BY <1>15 DEF AsideOK, ReadOwn
  <2>3. \A q \in Procs : AsideOK(q)'
    BY <1>0, <1>15, <2>2 DEF Moves, Step
  <2>4. UNCHANGED <<clock, faults, made, written, expiresAt, mtime, lockPath,
                    aside, mine, nowMs, startedAtMs,
                    observedRaw, observedFile, breach>>
    BY <1>15 DEF ReadOwn
  <2>. QED
    BY <2>1, <2>2, <2>3, <2>4 DEF AsideOK
<1>16. ASSUME NEW p \in Procs, RenameOwn(p) PROVE TypeOK'
  <2>1. lockPath' \in Locks \cup {None}
    BY <1>16 DEF RenameOwn
  <2>2. aside' \in [Procs -> Locks \cup {None}]
    <3>1. aside' = aside \/ (\E f \in Locks \cup {None} : aside' = [aside EXCEPT ![p] = f])
      BY <1>16 DEF RenameOwn
    <3>. QED
      BY <3>1
  <2>3. pc' \in [Procs -> Steps]
    BY <1>16 DEF RenameOwn
  <2>4. AsideOK(p)'
    BY <1>16 DEF AsideOK, RenameOwn
  <2>5. \A q \in Procs : AsideOK(q)'
    BY <1>0, <1>16, <2>4 DEF Moves, Step
  <2>6. UNCHANGED <<clock, faults, made, written, expiresAt, mtime, mine, nowMs,
                    startedAtMs, observedRaw, observedFile,
                    breach>>
    BY <1>16 DEF RenameOwn
  <2>. QED
    BY <2>1, <2>2, <2>3, <2>4, <2>5, <2>6 DEF AsideOK
<1>17. ASSUME NEW p \in Procs, CheckReleased(p) PROVE TypeOK'
  <2>1. aside' \in [Procs -> Locks \cup {None}]
    <3>1. aside' = aside \/ (\E f \in Locks \cup {None} : aside' = [aside EXCEPT ![p] = f])
      BY <1>17 DEF CheckReleased
    <3>. QED
      BY <3>1
  <2>2. pc' \in [Procs -> Steps]
    BY <1>17 DEF CheckReleased
  <2>3. AsideOK(p)'
    BY <1>17 DEF AsideOK, CheckReleased
  <2>4. \A q \in Procs : AsideOK(q)'
    BY <1>0, <1>17, <2>3 DEF Moves, Step
  <2>5. UNCHANGED <<clock, faults, made, written, expiresAt, mtime, lockPath,
                    mine, nowMs, startedAtMs, observedRaw,
                    observedFile, breach>>
    BY <1>17 DEF CheckReleased
  <2>. QED
    BY <2>1, <2>2, <2>3, <2>4, <2>5 DEF AsideOK
<1>18. ASSUME NEW p \in Procs, Crash(p) PROVE TypeOK'
  <2>1. faults' \in 0 .. MaxFaults
    BY <1>18 DEF Crash
  <2>2. aside' \in [Procs -> Locks \cup {None}]
    BY <1>18 DEF Crash
  <2>3. pc' \in [Procs -> Steps]
    BY <1>18 DEF Crash
  <2>4. AsideOK(p)'
    BY <1>18 DEF AsideOK, Crash
  <2>5. \A q \in Procs : AsideOK(q)'
    BY <1>0, <1>18, <2>4 DEF Moves, Step
  <2>6. UNCHANGED <<clock, made, written, expiresAt, mtime, lockPath, mine, nowMs,
                    startedAtMs, observedRaw, observedFile,
                    breach>>
    BY <1>18 DEF Crash
  <2>. QED
    BY <2>1, <2>2, <2>3, <2>4, <2>5, <2>6 DEF AsideOK
<1>19. ASSUME Tick PROVE TypeOK'
  <2>1. clock' \in 0 .. MaxTime
    BY <1>19 DEF Tick
  <2>2. breach' = breach \/ breach' = breach \cup {"overrun"}
    BY <1>19 DEF Tick
  <2>3. UNCHANGED <<faults, files, aside, pc, local>>
    BY <1>19 DEF Tick
  <2>. QED
    BY <2>1, <2>2, <2>3
<1>. QED
  BY <1>1, <1>2, <1>3, <1>4, <1>5, <1>6, <1>7, <1>8, <1>9, <1>10, <1>10a, <1>11, <1>12, <1>13, <1>14, <1>15, <1>16, <1>17, <1>18, <1>19 DEF Next, Step

\* A created file keeps its expiry and its age; only its owner, about to write the
\* record, changes its content.
LEMMA CreatedFilesStay ==
  ASSUME TypeOK, OwnersOK, NEW p \in Procs, Moves(p), NEW f \in Locks, f <= made
  PROVE  /\ f <= made'
         /\ expiresAt'[f] = expiresAt[f] /\ mtime'[f] = mtime[f]
         /\ written[f] => written'[f]
         /\ written'[f] # written[f] => At(p, "write") /\ mine[p] = f
<1> USE LeaseAssumption DEF TypeOK, Locks, files, At
<1>1. CASE OpenCreated(p)
  BY <1>1 DEF OpenCreated
<1>2. CASE WriteRecord(p) \/ WriteFails(p)
  <2>1. ~written[mine[p]] /\ mine[p] \in Locks
    BY <1>2 DEF OwnersOK, WriteRecord, WriteFails, Owns, OwningSteps, Created
  <2>2. UNCHANGED <<made, expiresAt, mtime>>
    BY <1>2 DEF WriteRecord, WriteFails
  <2>3. \E done \in BOOLEAN : written' = [written EXCEPT ![mine[p]] = done]
    BY <1>2 DEF WriteRecord, WriteFails
  <2>4. At(p, "write")
    BY <1>2 DEF WriteRecord, WriteFails
  <2>. QED
    BY <2>1, <2>2, <2>3, <2>4
<1>3. CASE ~(OpenCreated(p) \/ WriteRecord(p) \/ WriteFails(p))
  <2>1. UNCHANGED <<made, expiresAt, mtime, written>>
    BY <1>3 DEF Moves, Step, Begin, ReadClock, OpenExists, Undo, ReadLock, StatLock,
       Quarantine, QuarantineDenied, RecheckQuarantine, FirstRestore, SecondRestore, PutBack,
       ReadOwn,
       RenameOwn, CheckReleased, Crash
  <2>. QED
    BY <2>1
<1>. QED
  BY <1>1, <1>2, <1>3

\* Only creating a lock file makes a process an owner.
LEMMA OwnersStay ==
  ASSUME TypeOK, NEW p \in Procs, Moves(p), ~OpenCreated(p)
  PROVE  /\ Owns(p)' => Owns(p)
         /\ At(p, "write")' => At(p, "write")
         /\ pc'[p] \in HoldingSteps \cup {"releaseCheck"} /\ ~WriteRecord(p)
              => pc[p] \in HoldingSteps \cup {"releaseCheck"}
         /\ mine' = mine
<1> USE DEF TypeOK, Goto, At, Owns, OwningSteps, HoldingSteps, local
<1>1. CASE Begin(p) \/ ReadClock(p) \/ OpenExists(p) \/ WriteRecord(p) \/ WriteFails(p)
  BY <1>1 DEF Begin, ReadClock, OpenExists, WriteRecord, WriteFails
<1>2. CASE Undo(p) \/ ReadLock(p) \/ Quarantine(p) \/ RecheckQuarantine(p)
  BY <1>2 DEF Undo, ReadLock, Quarantine, RecheckQuarantine
<1>3. CASE StatLock(p) \/ QuarantineDenied(p)
  BY <1>3 DEF StatLock, QuarantineDenied, GiveUpOrRetry
<1>4. CASE FirstRestore(p) \/ SecondRestore(p) \/ PutBack(p) \/ ReadOwn(p)
  BY <1>4 DEF FirstRestore, SecondRestore, PutBack, ReadOwn
<1>5. CASE RenameOwn(p) \/ CheckReleased(p) \/ Crash(p)
  BY <1>5 DEF RenameOwn, CheckReleased, Crash
<1>. QED
  BY <1>1, <1>2, <1>3, <1>4, <1>5 DEF Moves, Step

-----------------------------------------------------------------------------
(* The unconditional parts of the invariant                                *)

LEMMA OwnersStep ==
  ASSUME TypeOK, FilesOK, OwnersOK, NEW p \in Procs, Moves(p)
  PROVE  OwnersOK'
<1>1. CASE OpenCreated(p)
  <2>1. /\ made' = made + 1 /\ made' \in Locks
        /\ mine' = [mine EXCEPT ![p] = made + 1]
        /\ pc' = [pc EXCEPT ![p] = "write"]
        /\ written' = written
    BY <1>1, LeaseAssumption DEF OpenCreated, TypeOK, Locks, Goto
  <2>2. ~written[made + 1]
    BY <2>1 DEF FilesOK, TypeOK
  <2>3. \A q \in Procs : q # p /\ Owns(q)' => Owns(q) /\ mine'[q] = mine[q] /\ mine[q] <= made
    BY <2>1 DEF Owns, OwnersOK, Created, TypeOK
  <2>4. mine'[p] = made + 1
    BY <2>1 DEF TypeOK
  <2>5. \A q \in Procs : Owns(q)' => Created(mine[q])'
    BY <2>1, <2>3, <2>4 DEF Created, OwnersOK, TypeOK, Locks
  <2>6. \A q, r \in Procs : Owns(q)' /\ Owns(r)' /\ mine'[q] = mine'[r] => q = r
    BY <2>1, <2>3, <2>4 DEF OwnersOK, TypeOK
  <2>7. \A q \in Procs : At(q, "write")' => ~written'[mine'[q]]
    BY <2>1, <2>2, <2>4 DEF OwnersOK, At, TypeOK
  <2>8. \A q \in Procs : pc'[q] \in HoldingSteps \cup {"releaseCheck"} => written'[mine'[q]]
    BY <2>1, <2>3, <2>4 DEF OwnersOK, HoldingSteps, Owns, OwningSteps, TypeOK
  <2>. QED
    BY <2>5, <2>6, <2>7, <2>8 DEF OwnersOK
<1>2. CASE ~OpenCreated(p)
  <2>1. \A q \in Procs : Owns(q)' => Owns(q)
    BY <1>2, OwnersStay, OthersStay DEF Owns
  <2>2. mine' = mine
    BY <1>2, OwnersStay
  <2>3. \A f \in Locks : Created(f) => Created(f)'
    BY CreatedFilesStay DEF Created
  <2>4. ASSUME NEW q \in Procs, At(q, "write")' PROVE ~written'[mine[q]]
    <3>1. At(q, "write") /\ Owns(q)
      BY <1>2, <2>4, OwnersStay, OthersStay DEF At, Owns, OwningSteps
    <3>2. /\ ~written[mine[q]] /\ mine[q] \in Locks /\ mine[q] <= made
      BY <3>1 DEF OwnersOK, Created
    <3>3. CASE q = p
      <4>1. At(p, "write") /\ At(p, "write")'
        BY <2>4, <3>1, <3>3
      <4>2. ~WriteRecord(p) /\ ~WriteFails(p)
        BY <4>1 DEF WriteRecord, WriteFails, At, Goto, TypeOK
      <4>3. Crash(p) => FALSE
        BY <4>1 DEF Crash, At, Goto, TypeOK
      <4>4. FALSE
        BY <1>2, <4>1, <4>2, <4>3 DEF Moves, Step, At, Begin, ReadClock, OpenExists, Undo,
           ReadLock, StatLock, Quarantine, QuarantineDenied, RecheckQuarantine, FirstRestore,
           SecondRestore,
           PutBack, ReadOwn, RenameOwn, CheckReleased
      <4>. QED
        BY <4>4
    <3>4. CASE q # p
      <4>1. written'[mine[q]] # written[mine[q]] => At(p, "write") /\ mine[p] = mine[q]
        BY <3>2, CreatedFilesStay
      <4>2. At(p, "write") => Owns(p)
        BY DEF At, Owns, OwningSteps
      <4>. QED
        BY <3>1, <3>2, <3>4, <4>1, <4>2 DEF OwnersOK
    <3>. QED
      BY <3>3, <3>4
  <2>5. ASSUME NEW q \in Procs, pc'[q] \in HoldingSteps \cup {"releaseCheck"}
        PROVE  written'[mine[q]]
    <3>1. Owns(q) /\ mine[q] \in Locks /\ mine[q] <= made
      BY <2>1, <2>5 DEF OwnersOK, Owns, OwningSteps, HoldingSteps, Created
    <3>2. CASE WriteRecord(p) /\ q = p
      BY <3>1, <3>2 DEF WriteRecord, TypeOK
    <3>3. CASE ~(WriteRecord(p) /\ q = p)
      <4>1. pc[q] \in HoldingSteps \cup {"releaseCheck"}
        BY <1>2, <2>5, <3>3, OthersStay, OwnersStay
      <4>. QED
        BY <3>1, <4>1, CreatedFilesStay DEF OwnersOK
    <3>. QED
      BY <3>2, <3>3
  <2>. QED
    BY <2>1, <2>2, <2>3, <2>4, <2>5 DEF OwnersOK, Owns, Created
<1>. QED
  BY <1>1, <1>2

LEMMA FilesStep ==
  ASSUME TypeOK, TypeOK', FilesOK, OwnersOK, ClocksOK, NEW p \in Procs, Moves(p)
  PROVE  FilesOK'
<1> USE LeaseAssumption
<1>1. \A f \in Locks : Created(f) => Created(f)'
  BY CreatedFilesStay DEF Created
<1>2. CASE OpenCreated(p)
  <2>1. /\ made' = made + 1 /\ made' \in Locks /\ lockPath' = made + 1
        /\ expiresAt' = [expiresAt EXCEPT ![made + 1] = nowMs[p] + LeaseMs]
        /\ mtime' = [mtime EXCEPT ![made + 1] = clock]
        /\ UNCHANGED <<aside, written>>
    BY <1>2 DEF OpenCreated, TypeOK, Locks
  <2>2. nowMs[p] <= clock
    BY DEF ClocksOK
  <2>3. \A f \in Locks : expiresAt'[f] <= mtime'[f] + LeaseMs
    BY <2>1, <2>2 DEF FilesOK, TypeOK
  <2>4. \A f \in Locks : f > made' => ~written'[f]
    BY <2>1 DEF FilesOK, TypeOK, Locks
  <2>5. \A q \in Procs : aside'[q] # None => Created(aside[q])'
    BY <1>1, <2>1 DEF FilesOK, Created
  <2>6. Created(lockPath)'
    BY <2>1 DEF Created, TypeOK
  <2>. QED
    BY <2>3, <2>4, <2>5, <2>6 DEF FilesOK
<1>3. CASE WriteRecord(p) \/ WriteFails(p)
  <2>1. UNCHANGED <<lockPath, made, aside, expiresAt, mtime>>
    BY <1>3 DEF WriteRecord, WriteFails
  <2>2. \E done \in BOOLEAN : written' = [written EXCEPT ![mine[p]] = done]
    BY <1>3 DEF WriteRecord, WriteFails
  <2>3. Created(mine[p])
    BY <1>3 DEF WriteRecord, WriteFails, OwnersOK, Owns, OwningSteps, At
  <2>4. \A f \in Locks : f > made => ~written'[f]
    BY <2>2, <2>3 DEF FilesOK, Created, TypeOK, Locks
  <2>. QED
    BY <2>1, <2>4 DEF FilesOK, Created
<1>4. CASE ~(OpenCreated(p) \/ WriteRecord(p) \/ WriteFails(p))
  <2>1. UNCHANGED <<made, expiresAt, mtime, written>>
    BY <1>4 DEF files, Moves, Step, Begin, ReadClock, OpenExists, Undo, ReadLock, StatLock,
       Quarantine, QuarantineDenied, RecheckQuarantine, FirstRestore, SecondRestore, PutBack,
       ReadOwn,
       RenameOwn, CheckReleased, Crash
  <2>2. /\ lockPath' \in {None, lockPath, aside[p]}
        /\ \A q \in Procs : aside'[q] \in {None, aside[q], lockPath}
    BY <1>4 DEF files, TypeOK, Moves, Step, Begin, ReadClock, OpenExists, Undo, ReadLock, StatLock,
       Quarantine, QuarantineDenied, RecheckQuarantine, FirstRestore, SecondRestore, PutBack,
       ReadOwn,
       RenameOwn, CheckReleased, Crash
  <2>. QED
    BY <2>1, <2>2 DEF FilesOK, Created
<1>. QED
  BY <1>2, <1>3, <1>4

LEMMA ClocksStep ==
  ASSUME TypeOK, ClocksOK, NEW p \in Procs, Moves(p)
  PROVE  ClocksOK'
<1>1. nowMs'[p] = nowMs[p] \/ nowMs'[p] = clock
  BY DEF TypeOK, files, local, Moves, Step, Begin, ReadClock, OpenCreated, OpenExists,
     WriteRecord, WriteFails, Undo, ReadLock, StatLock, Quarantine, QuarantineDenied,
     RecheckQuarantine,
     FirstRestore, SecondRestore, PutBack, ReadOwn, RenameOwn, CheckReleased, Crash
<1>. QED
  BY <1>1, OthersStay DEF ClocksOK, TypeOK

LEMMA VerdictsStep ==
  ASSUME TypeOK, TypeOK', FilesOK, OwnersOK, VerdictsOK, NEW p \in Procs, Moves(p)
  PROVE  VerdictsOK'
<1> USE LeaseAssumption
<1>1. ASSUME NEW q \in Procs,
             /\ pc'[q] \in {"stat", "rename", "recheck"} => pc[q] \in {"stat", "rename", "recheck"}
             /\ pc'[q] \in {"rename", "recheck"} => pc[q] \in {"rename", "recheck"},
             nowMs'[q] = nowMs[q],
             observedRaw'[q] = observedRaw[q], observedFile'[q] = observedFile[q]
      PROVE  VerdictOK(q)'
  <2> USE <1>1
  <2>1. SUFFICES ASSUME pc[q] \in {"stat", "rename", "recheck"}
                 PROVE  VerdictOK(q)'
    BY DEF VerdictOK
  <2>2. /\ Created(observedFile[q])
        /\ observedRaw[q] # None =>
             observedRaw[q] = observedFile[q] /\ written[observedFile[q]]
    BY <2>1 DEF VerdictsOK, VerdictOK
  <2>3. /\ Created(observedFile[q])'
        /\ expiresAt'[observedFile[q]] = expiresAt[observedFile[q]]
        /\ mtime'[observedFile[q]] = mtime[observedFile[q]]
        /\ written[observedFile[q]] => written'[observedFile[q]]
    BY <2>2, CreatedFilesStay DEF Created
  <2>4. pc[q] \in {"rename", "recheck"} => Stale(observedRaw[q], observedFile[q], nowMs[q])
    BY DEF VerdictsOK, VerdictOK
  <2>. QED
    BY <2>2, <2>3, <2>4 DEF VerdictOK, Stale
<1>2. \A q \in Procs : q # p => VerdictOK(q)'
  BY <1>1, OthersStay
<1>3. VerdictOK(p)'
  <2>1. CASE ReadLock(p)
    <3>1. CASE lockPath = None
      BY <2>1, <3>1 DEF ReadLock, Goto, VerdictOK, TypeOK
    <3>2. CASE lockPath # None
      <4>1. /\ observedFile'[p] = lockPath /\ observedRaw'[p] = Raw(lockPath)
            /\ pc'[p] = "stat" /\ UNCHANGED files
        BY <2>1, <3>2 DEF ReadLock, Goto, TypeOK
      <4>. QED
        BY <3>2, <4>1 DEF VerdictOK, FilesOK, Created, Raw, files
    <3>. QED
      BY <3>1, <3>2
  <2>2. CASE StatLock(p)
    <3>1. CASE lockPath = None
      BY <2>2, <3>1 DEF StatLock, Goto, VerdictOK, TypeOK
    <3>2. CASE lockPath # None /\ ~Stale(observedRaw[p], lockPath, nowMs[p])
      BY <2>2, <3>2 DEF StatLock, Goto, GiveUpOrRetry, VerdictOK, TypeOK
    <3>3. CASE lockPath # None /\ Stale(observedRaw[p], lockPath, nowMs[p])
      <4>1. /\ pc'[p] = "rename" /\ observedRaw' = observedRaw /\ nowMs' = nowMs
            /\ observedFile'[p] = IF observedRaw[p] = None THEN lockPath ELSE observedFile[p]
            /\ UNCHANGED files
        BY <2>2, <3>3 DEF StatLock, Goto, TypeOK
      <4>2. VerdictOK(p) /\ At(p, "stat")
        BY <2>2 DEF VerdictsOK, StatLock
      <4>. QED
        BY <3>3, <4>1, <4>2 DEF VerdictOK, FilesOK, Created, Stale, files, At
    <3>. QED
      BY <3>1, <3>2, <3>3
  <2>3. CASE Quarantine(p)
    BY <1>1, <2>3 DEF Quarantine, Goto, At, local, TypeOK
  <2>4. CASE ~(ReadLock(p) \/ StatLock(p) \/ Quarantine(p))
    <3>1. pc'[p] \notin {"stat", "rename", "recheck"}
      BY <2>4 DEF TypeOK, Goto, Moves, Step, Begin, ReadClock, OpenCreated, OpenExists,
         WriteRecord, WriteFails, Undo, QuarantineDenied, GiveUpOrRetry, RecheckQuarantine,
         FirstRestore, SecondRestore, PutBack, ReadOwn, RenameOwn, CheckReleased, Crash
    <3>. QED
      BY <3>1 DEF VerdictOK
  <2>. QED
    BY <2>1, <2>2, <2>3, <2>4
<1>. QED
  BY <1>2, <1>3 DEF VerdictsOK

-----------------------------------------------------------------------------
(* The part that holds until the first breach                              *)

\* What the path can become while nothing has been breached: a lock leaves it only
\* when its owner releases or undoes it, or when it has expired.
LEMMA LockPathMoves ==
  ASSUME IInv, NEW p \in Procs, Moves(p), breach' = {}
  PROVE  /\ breach = {}
         /\ \/ lockPath' = lockPath
            \/ OpenCreated(p)
            \/ /\ lockPath' = None
               /\ \/ Owns(p) /\ lockPath = mine[p] /\ ~At(p, "releaseCheck")
                     /\ (~Owns(p) \/ At(p, "releaseCheck"))'
                  \/ Quarantine(p) /\ lockPath # None /\ expiresAt[lockPath] <= clock
<1> USE LeaseAssumption
<1>1. breach = {}
  BY DEF Moves, Step, Begin, ReadClock, OpenCreated, OpenExists, WriteRecord, WriteFails,
     Undo, ReadLock, StatLock, Quarantine, QuarantineDenied, RecheckQuarantine, FirstRestore,
     SecondRestore,
     PutBack, ReadOwn, RenameOwn, CheckReleased, Crash, files, local
<1>2. KeepsItsLock(p) /\ FindsWhatItSaw(p)
  BY <1>1 DEF IInv, Unbroken
<1>3. CASE Undo(p)
  BY <1>1, <1>2, <1>3 DEF Undo, KeepsItsLock, Owns, OwningSteps, At, Goto, IInv, TypeOK
<1>4. CASE RenameOwn(p)
  BY <1>1, <1>2, <1>4 DEF RenameOwn, KeepsItsLock, Owns, OwningSteps, At, Goto, IInv, TypeOK
<1>5. CASE Quarantine(p) /\ lockPath # None
  <2>1. lockPath = observedFile[p] /\ At(p, "rename") /\ lockPath' = None
    BY <1>5 DEF Quarantine
  <2>2. VerdictOK(p) /\ nowMs[p] <= clock
    BY DEF IInv, VerdictsOK, ClocksOK
  <2>3. /\ lockPath \in Locks /\ expiresAt[lockPath] <= mtime[lockPath] + LeaseMs
        /\ observedRaw[p] # None => observedRaw[p] = lockPath
        /\ Stale(observedRaw[p], lockPath, nowMs[p])
    BY <2>1, <2>2 DEF VerdictOK, Created, IInv, FilesOK, At
  <2>4. expiresAt[lockPath] <= clock
    BY <2>2, <2>3 DEF Stale, IInv, TypeOK
  <2>. QED
    BY <1>1, <1>5, <2>1, <2>4
<1>6. CASE PutBack(p)
  BY <1>2, <1>6 DEF PutBack, FindsWhatItSaw, At
<1>7. CASE ~(OpenCreated(p) \/ Undo(p) \/ RenameOwn(p) \/ PutBack(p)
             \/ (Quarantine(p) /\ lockPath # None))
  <2>. SUFFICES lockPath' = lockPath
    BY <1>1
  <2>1. CASE Quarantine(p)
    BY <1>7, <2>1 DEF Quarantine
  <2>2. CASE Begin(p) \/ ReadClock(p) \/ OpenExists(p) \/ WriteRecord(p) \/ WriteFails(p)
    BY <2>2 DEF Begin, ReadClock, OpenExists, WriteRecord, WriteFails, files
  <2>3. CASE ReadLock(p) \/ StatLock(p) \/ QuarantineDenied(p) \/ RecheckQuarantine(p)
    BY <2>3 DEF ReadLock, StatLock, QuarantineDenied, RecheckQuarantine, files
  <2>4. CASE FirstRestore(p) \/ SecondRestore(p) \/ ReadOwn(p) \/ CheckReleased(p) \/ Crash(p)
    BY <2>4 DEF FirstRestore, SecondRestore, ReadOwn, CheckReleased, Crash, files
  <2>. QED
    BY <1>7, <2>1, <2>2, <2>3, <2>4 DEF Moves, Step
<1>. QED
  BY <1>1, <1>3, <1>4, <1>5, <1>6, <1>7

\* An owner keeps its fresh lock at the path, whatever the others do.
LEMMA KeepsStep ==
  ASSUME IInv, TypeOK', NEW p \in Procs, Moves(p), breach' = {}, NEW q \in Procs
  PROVE  KeepsItsLock(q)'
<1> USE LeaseAssumption
<1>1. breach = {} /\ KeepsItsLock(q) /\ clock' = clock
  BY LockPathMoves, OthersStay DEF IInv, Unbroken
<1>2. Owns(q) => /\ Created(mine[q]) /\ mine[q] \in Locks
                 /\ expiresAt'[mine[q]] = expiresAt[mine[q]]
  BY CreatedFilesStay DEF IInv, OwnersOK, Created
<1>3. CASE q # p
  <2>1. pc'[q] = pc[q] /\ mine'[q] = mine[q] /\ aside'[q] = aside[q]
    BY <1>3, OthersStay DEF IInv
  <2>2. CASE ~Owns(q)
    BY <2>1, <2>2 DEF KeepsItsLock, Owns, At, OwningSteps
  <2>3. CASE At(q, "releaseCheck")
    BY <1>1, <1>2, <2>1, <2>3 DEF KeepsItsLock, Owns, At, OwningSteps, Fresh
  <2>4. CASE Owns(q) /\ ~At(q, "releaseCheck")
    <3>1. lockPath = mine[q] /\ Fresh(mine[q]) /\ lockPath # None
      BY <1>1, <1>2, <2>4 DEF KeepsItsLock, Created
    <3>2. ~OpenCreated(p)
      BY <3>1 DEF OpenCreated
    <3>3. ~(Owns(p) /\ lockPath = mine[p])
      BY <1>3, <2>4, <3>1 DEF IInv, OwnersOK
    <3>4. ~(expiresAt[lockPath] <= clock)
      BY <3>1, <1>2 DEF Fresh, IInv, TypeOK
    <3>5. lockPath' = lockPath
      BY <3>2, <3>3, <3>4, LockPathMoves
    <3>. QED
      BY <1>1, <1>2, <2>1, <2>4, <3>1, <3>5 DEF KeepsItsLock, Owns, At, Fresh
  <2>. QED
    BY <2>2, <2>3, <2>4
<1>4. CASE q = p /\ OpenCreated(p)
  <2>1. /\ pc'[p] = "write" /\ mine'[p] = made + 1 /\ lockPath' = made + 1
        /\ expiresAt'[made + 1] = nowMs[p] + LeaseMs
        /\ ~(nowMs[p] + LeaseMs <= clock)
    BY <1>4 DEF OpenCreated, Goto, IInv, TypeOK, Locks
  <2>. QED
    BY <1>1, <1>4, <2>1 DEF KeepsItsLock, Fresh, At, IInv, TypeOK
<1>5. CASE q = p /\ ~OpenCreated(p)
  <2>1. SUFFICES ASSUME Owns(p)'
                 PROVE  KeepsItsLock(p)'
    BY <1>5 DEF KeepsItsLock, Owns, OwningSteps, At
  <2>2. Owns(p) /\ mine' = mine
    BY <1>5, <2>1, OwnersStay DEF IInv
  <2>3. Fresh(mine[p])'
    BY <1>1, <1>2, <1>5, <2>2 DEF KeepsItsLock, Fresh
  <2>4. CASE RenameOwn(p)
    <3>1. lockPath = mine[p] /\ lockPath # None
      BY <1>1, <1>2, <1>5, <2>2, <2>4 DEF KeepsItsLock, RenameOwn, At, Created
    <3>. QED
      BY <2>2, <2>3, <2>4, <3>1 DEF RenameOwn, KeepsItsLock, At, Goto, IInv, TypeOK
  <2>5. CASE ~RenameOwn(p)
    <3>1. ~At(p, "releaseCheck") /\ ~At(p, "releaseCheck")'
      BY <1>5, <2>1, <2>2, <2>5 DEF IInv, TypeOK, At, Goto, Owns, OwningSteps, files, local, Moves, Step, Begin, ReadClock, OpenExists,
         WriteRecord, WriteFails, Undo, ReadLock, StatLock, GiveUpOrRetry, Quarantine,
         QuarantineDenied,
         RecheckQuarantine, FirstRestore, SecondRestore, PutBack, ReadOwn, CheckReleased, Crash
    <3>2. lockPath = mine[p]
      BY <1>1, <1>5, <2>2, <3>1 DEF KeepsItsLock
    <3>3. ~Quarantine(p)
      BY <2>2 DEF Quarantine, At, Owns, OwningSteps
    <3>4. lockPath' = lockPath
      BY <1>5, <2>1, <3>1, <3>3, LockPathMoves
    <3>. QED
      BY <2>2, <2>3, <3>1, <3>2, <3>4 DEF KeepsItsLock
  <2>. QED
    BY <1>5, <2>4, <2>5
<1>. QED
  BY <1>3, <1>4, <1>5

\* A recovery finds the lock as it saw it, whatever the others do.
LEMMA FindsStep ==
  ASSUME IInv, TypeOK', NEW p \in Procs, Moves(p), breach' = {}, NEW q \in Procs
  PROVE  FindsWhatItSaw(q)'
<1> USE LeaseAssumption
<1>1. /\ breach = {} /\ FindsWhatItSaw(q) /\ KeepsItsLock(p) /\ VerdictOK(q)
      /\ clock' = clock /\ nowMs[q] <= clock
  BY LockPathMoves, OthersStay DEF IInv, Unbroken, VerdictsOK, ClocksOK
<1>2. pc[q] \in {"stat", "rename", "recheck"} =>
        /\ observedFile[q] \in Locks /\ observedFile[q] <= made
        /\ expiresAt'[observedFile[q]] = expiresAt[observedFile[q]]
        /\ mtime'[observedFile[q]] = mtime[observedFile[q]]
        /\ written[observedFile[q]] => written'[observedFile[q]]
        /\ written'[observedFile[q]] # written[observedFile[q]]
             => At(p, "write") /\ mine[p] = observedFile[q]
  BY <1>1, CreatedFilesStay DEF VerdictOK, Created, IInv
<1>3. At(p, "write") => clock < expiresAt[mine[p]]
  BY <1>1 DEF KeepsItsLock, Fresh, At, Owns, OwningSteps
<1>4. pc[q] \in {"rename", "recheck"} => expiresAt[observedFile[q]] <= clock
  BY <1>1, <1>2 DEF VerdictOK, Stale, IInv, FilesOK, TypeOK
\* The content of a file judged stale is settled.
<1>5. pc[q] \in {"rename", "recheck"} => written'[observedFile[q]] = written[observedFile[q]]
  BY <1>2, <1>3, <1>4 DEF IInv, TypeOK
<1>6. ASSUME pc'[q] = pc[q], aside'[q] = aside[q], nowMs'[q] = nowMs[q],
             observedRaw'[q] = observedRaw[q], observedFile'[q] = observedFile[q]
      PROVE  FindsWhatItSaw(q)'
  <2> USE <1>6
  <2>1. pc[q] \in {"rename", "recheck"} => Raw(observedFile[q])' = observedRaw[q]
    BY <1>1, <1>5 DEF FindsWhatItSaw, Raw
  <2>2. ASSUME At(q, "stat"), lockPath' \notin {None, observedFile[q]}
        PROVE  nowMs[q] <= mtime'[lockPath']
    <3>1. CASE OpenCreated(p)
      BY <1>1, <3>1 DEF OpenCreated, IInv, TypeOK, Locks
    <3>2. CASE ~OpenCreated(p)
      <4>1. lockPath' = lockPath
        BY <2>2, <3>2, LockPathMoves
      <4>2. nowMs[q] <= mtime[lockPath] /\ Created(lockPath)
        BY <1>1, <2>2, <4>1 DEF FindsWhatItSaw, IInv, FilesOK
      <4>. QED
        BY <4>1, <4>2, CreatedFilesStay DEF Created, IInv
    <3>. QED
      BY <3>1, <3>2
  <2>3. ASSUME At(q, "stat"), observedRaw[q] = None, written'[observedFile[q]]
        PROVE  nowMs[q] < expiresAt'[observedFile[q]]
    <3>1. CASE written[observedFile[q]]
      BY <1>1, <1>2, <2>3, <3>1 DEF FindsWhatItSaw, At
    <3>2. CASE ~written[observedFile[q]]
      <4>1. At(p, "write") /\ mine[p] = observedFile[q]
        BY <1>2, <2>3, <3>2 DEF At
      <4>. QED
        BY <1>1, <1>2, <1>3, <2>3, <4>1 DEF At, IInv, TypeOK
    <3>. QED
      BY <3>1, <3>2
  <2>. QED
    BY <1>1, <2>1, <2>2, <2>3 DEF FindsWhatItSaw, At
<1>7. CASE q # p
  BY <1>6, <1>7, OthersStay DEF IInv
<1>8. CASE q = p
  <2> USE <1>8
  <2>1. CASE ReadLock(p)
    BY <1>1, <2>1 DEF ReadLock, Goto, At, FindsWhatItSaw, Raw, files, IInv, TypeOK
  <2>2. CASE StatLock(p)
    <3>1. CASE lockPath = None \/ ~Stale(observedRaw[p], lockPath, nowMs[p])
      BY <2>2, <3>1 DEF StatLock, Goto, GiveUpOrRetry, FindsWhatItSaw, At, IInv, TypeOK
    <3>2. CASE lockPath # None /\ Stale(observedRaw[p], lockPath, nowMs[p])
      <4>1. /\ pc'[p] = "rename" /\ observedRaw' = observedRaw /\ nowMs' = nowMs
            /\ observedFile'[p] = IF observedRaw[p] = None THEN lockPath ELSE observedFile[p]
            /\ UNCHANGED files /\ At(p, "stat")
        BY <2>2, <3>2 DEF StatLock, Goto, IInv, TypeOK
      <4>2. CASE observedRaw[p] # None
        BY <1>1, <4>1, <4>2 DEF VerdictOK, FindsWhatItSaw, Raw, files, At
      <4>3. CASE observedRaw[p] = None
        <5>1. mtime[lockPath] + LeaseMs <= nowMs[p] /\ lockPath \in Locks
              /\ expiresAt[lockPath] <= nowMs[p]
          BY <3>2, <4>3 DEF Stale, IInv, TypeOK, FilesOK
        <5>2. lockPath = observedFile[p]
          BY <1>1, <3>2, <4>1, <5>1 DEF FindsWhatItSaw, At, IInv, TypeOK
        <5>3. ~written[lockPath]
          BY <1>1, <4>1, <4>3, <5>1, <5>2 DEF FindsWhatItSaw, At, IInv, TypeOK
        <5>. QED
          BY <4>1, <4>3, <5>2, <5>3 DEF FindsWhatItSaw, Raw, files, At
      <4>. QED
        BY <4>2, <4>3
    <3>. QED
      BY <3>1, <3>2
  <2>3. CASE Quarantine(p)
    <3>1. CASE lockPath = None
      BY <2>3, <3>1 DEF Quarantine, Goto, FindsWhatItSaw, At, IInv, TypeOK
    <3>2. CASE lockPath # None
      <4>1. /\ pc'[p] = "recheck" /\ pc[p] = "rename" /\ aside'[p] = lockPath
            /\ lockPath = observedFile[p]
            /\ UNCHANGED <<observedRaw, observedFile, written>>
        BY <2>3, <3>2 DEF Quarantine, Goto, At, local, IInv, TypeOK
      <4>. QED
        BY <1>1, <4>1 DEF FindsWhatItSaw, Raw, At
    <3>. QED
      BY <3>1, <3>2
  <2>4. CASE RecheckQuarantine(p)
    <3>1. SameStaleLock(p)
      BY <1>1, <2>4 DEF RecheckQuarantine, SameStaleLock, FindsWhatItSaw, VerdictOK, At
    <3>. QED
      BY <2>4, <3>1 DEF RecheckQuarantine, Goto, FindsWhatItSaw, At, IInv, TypeOK
  <2>5. CASE CheckReleased(p)
    <3>1. Raw(aside[p]) = mine[p]
      BY <1>1, <2>5 DEF CheckReleased, KeepsItsLock, At, Raw, IInv, OwnersOK
    <3>. QED
      BY <2>5, <3>1 DEF CheckReleased, Goto, FindsWhatItSaw, At, IInv, TypeOK
  <2>6. CASE FirstRestore(p) \/ SecondRestore(p) \/ PutBack(p)
    BY <1>1, <2>6 DEF FirstRestore, SecondRestore, PutBack, FindsWhatItSaw, At
  <2>7. CASE ~(ReadLock(p) \/ StatLock(p) \/ Quarantine(p) \/ RecheckQuarantine(p)
               \/ CheckReleased(p) \/ FirstRestore(p) \/ SecondRestore(p) \/ PutBack(p))
    <3>1. pc'[p] \notin {"stat", "rename", "recheck", "restore", "restoreAgain", "putBack"}
      BY <2>7 DEF IInv, TypeOK, Goto, Moves, Step, Begin, ReadClock, OpenCreated, OpenExists,
         WriteRecord, WriteFails, Undo, QuarantineDenied, GiveUpOrRetry, ReadOwn, RenameOwn, Crash
    <3>. QED
      BY <3>1 DEF FindsWhatItSaw, At
  <2>. QED
    BY <2>1, <2>2, <2>3, <2>4, <2>5, <2>6, <2>7
<1>. QED
  BY <1>7, <1>8

-----------------------------------------------------------------------------
(* The theorems                                                            *)

LEMMA InitIInv == Init => IInv
<1>. SUFFICES ASSUME Init PROVE IInv
  OBVIOUS
<1> USE LeaseAssumption DEF Init
<1>1. TypeOK
  BY DEF TypeOK, Locks, Steps, OwningSteps
<1>2. FilesOK /\ ClocksOK
  BY DEF FilesOK, ClocksOK, Locks, Created
<1>3. \A p \in Procs : ~Owns(p) /\ pc[p] = "idle"
  BY DEF Owns, OwningSteps
<1>. QED
  BY <1>1, <1>2, <1>3 DEF IInv, OwnersOK, VerdictsOK, VerdictOK, Unbroken, KeepsItsLock,
     FindsWhatItSaw, At, HoldingSteps

LEMMA IInvStep == IInv /\ [Next]_vars => IInv'
<1> USE LeaseAssumption
<1>1. ASSUME IInv, NEW p \in Procs, Moves(p) PROVE IInv'
  <2>1. TypeOK'
    BY <1>1, TypeStep DEF IInv, Moves, Next
  <2>2. FilesOK' /\ OwnersOK' /\ ClocksOK' /\ VerdictsOK'
    BY <1>1, <2>1, FilesStep, OwnersStep, ClocksStep, VerdictsStep DEF IInv
  <2>3. Unbroken'
    BY <1>1, <2>1, KeepsStep, FindsStep DEF Unbroken
  <2>. QED
    BY <2>1, <2>2, <2>3 DEF IInv
<1>2. ASSUME IInv, Tick PROVE IInv'
  <2>1. TypeOK'
    BY <1>2, TypeStep DEF IInv, Next
  <2>2. /\ clock' = clock + 1
        /\ UNCHANGED <<written, expiresAt, mtime, lockPath, made, aside, pc, mine, nowMs,
                       observedRaw, observedFile>>
    BY <1>2 DEF Tick, files, local
  <2>3. FilesOK' /\ OwnersOK' /\ VerdictsOK'
    BY <1>2, <2>2 DEF IInv, FilesOK, OwnersOK, VerdictsOK, VerdictOK, Created, Owns, At, Stale
  <2>4. ClocksOK'
    BY <1>2, <2>2 DEF IInv, ClocksOK, TypeOK
  <2>5. Unbroken'
    <3>1. SUFFICES ASSUME breach' = {}, NEW p \in Procs
                   PROVE  KeepsItsLock(p)' /\ FindsWhatItSaw(p)'
      BY DEF Unbroken
    <3>2. breach = {} /\ (Owns(p) => clock + 1 < expiresAt[mine[p]])
      BY <1>2, <3>1 DEF Tick, IInv, TypeOK, OwnersOK, Created
    <3>3. KeepsItsLock(p) /\ FindsWhatItSaw(p)
      BY <1>2, <3>2 DEF IInv, Unbroken
    <3>. QED
      BY <2>2, <3>2, <3>3 DEF KeepsItsLock, FindsWhatItSaw, Owns, At, Fresh, Raw
  <2>. QED
    BY <2>1, <2>3, <2>4, <2>5 DEF IInv
<1>3. ASSUME IInv, UNCHANGED vars PROVE IInv'
  BY <1>3 DEF vars, files, local, IInv, TypeOK, FilesOK, OwnersOK, ClocksOK, VerdictsOK,
     VerdictOK, Unbroken, KeepsItsLock, FindsWhatItSaw, Created, Owns, At, Stale, Fresh, Raw
<1>. QED
  BY <1>1, <1>2, <1>3 DEF Next, Moves

\* The inductive invariant holds in every reachable state.
THEOREM Invariance == Spec => []IInv
  BY InitIInv, IInvStep, PTL DEF Spec

\* Type correctness, and a set-aside file exactly in the steps that dispose of it.
THEOREM TypeCorrect == Spec => []TypeOK
<1>1. IInv => TypeOK
  BY DEF IInv
<1>. QED
  BY <1>1, Invariance, PTL

\* Until an owner outlives its lease or a recovery displaces a lock it did not
\* judge, the section the lease protects has at most one process in it.
THEOREM MutualExclusionHolds == Spec => []MutualExclusion
<1>1. IInv => MutualExclusion
  <2>. SUFFICES ASSUME IInv, breach = {} PROVE MutualExclusion
    BY DEF MutualExclusion
  <2>1. \A p \in Procs : Holds(p) => Owns(p) /\ ~At(p, "releaseCheck")
    BY DEF Holds, HoldingSteps, Owns, OwningSteps, At
  <2>2. \A p \in Procs : Holds(p) => lockPath = mine[p]
    BY <2>1 DEF IInv, Unbroken, KeepsItsLock
  <2>. QED
    BY <2>1, <2>2 DEF MutualExclusion, IInv, OwnersOK
<1>. QED
  BY <1>1, Invariance, PTL

\* A recovery's unlink removes only a lock whose lease has run out, breached or not.
THEOREM RecoveryIsSafe == Spec => RecoveryDeletesOnlyExpired
<1>1. ASSUME IInv, [Next]_vars, NEW p \in Procs, At(p, "recheck"), pc'[p] = "loop"
      PROVE  ~Fresh(aside[p])
  <2>1. RecheckQuarantine(p)
    BY <1>1 DEF Next, vars, IInv, TypeOK, At, Goto, Step, Begin, ReadClock, OpenCreated,
       OpenExists, WriteRecord, WriteFails, Undo, ReadLock, StatLock, GiveUpOrRetry,
       Quarantine, QuarantineDenied, RecheckQuarantine, FirstRestore, SecondRestore, PutBack,
       ReadOwn,
       RenameOwn, CheckReleased, Crash, Tick
  <2>2. SameStaleLock(p)
    BY <1>1, <2>1 DEF RecheckQuarantine, Goto, IInv, TypeOK
  <2>3. aside[p] \in Locks /\ aside[p] # None /\ nowMs[p] <= clock
    BY <1>1, LeaseAssumption DEF IInv, TypeOK, FilesOK, ClocksOK, At, Created
  <2>4. expiresAt[aside[p]] <= mtime[aside[p]] + LeaseMs
    BY <1>1, <2>3 DEF IInv, FilesOK
  <2>5. expiresAt[aside[p]] <= nowMs[p]
    BY <1>1, <2>2, <2>3, <2>4, LeaseAssumption DEF SameStaleLock, Stale, Raw, IInv, TypeOK
  <2>. QED
    BY <1>1, <2>3, <2>5 DEF Fresh, IInv, TypeOK
<1>2. IInv /\ [Next]_vars =>
        [\A p \in Procs : At(p, "recheck") /\ pc'[p] = "loop" => ~Fresh(aside[p])]_vars
  BY <1>1
<1>. QED
  BY <1>2, Invariance, PTL DEF Spec, RecoveryDeletesOnlyExpired

\* A release unlinks only the releaser's own lock, breached or not.
THEOREM ReleaseIsSafe == Spec => ReleaseDeletesOnlyOwn
<1>1. ASSUME IInv, [Next]_vars, NEW p \in Procs,
             At(p, "releaseCheck"), pc'[p] = "idle", faults' = faults
      PROVE  aside[p] = mine[p]
  <2>1. CheckReleased(p)
    BY <1>1 DEF Next, vars, IInv, TypeOK, At, Goto, Step, Begin, ReadClock, OpenCreated,
       OpenExists, WriteRecord, WriteFails, Undo, ReadLock, StatLock, GiveUpOrRetry,
       Quarantine, QuarantineDenied, RecheckQuarantine, FirstRestore, SecondRestore, PutBack,
       ReadOwn,
       RenameOwn, CheckReleased, Crash, Tick
  <2>2. Raw(aside[p]) = mine[p]
    BY <1>1, <2>1 DEF CheckReleased, Goto, IInv, TypeOK
  <2>3. mine[p] \in Locks
    BY <1>1 DEF At, Owns, OwningSteps, IInv, OwnersOK, Created
  <2>. QED
    BY <2>2, <2>3, LeaseAssumption DEF Raw
<1>2. IInv /\ [Next]_vars =>
        [\A p \in Procs : At(p, "releaseCheck") /\ pc'[p] = "idle" /\ faults' = faults => aside[p] = mine[p]]_vars
  BY <1>1
<1>. QED
  BY <1>2, Invariance, PTL DEF Spec, ReleaseDeletesOnlyOwn

-----------------------------------------------------------------------------
\* The record store.
Sections == {"outside", "waiting", "matched", "refused", "written", "unsynced", "failed"}

\* A call that has compared its revision is alone in the section, so the revision
\* is still the one it compared.
RInv ==
  /\ IInv /\ breach = {}
  /\ revision \in Nat /\ expected \in [Procs -> Nat] /\ section \in [Procs -> Sections]
  /\ \A p \in Procs :
       /\ (section[p] = "outside") = (pc[p] = "idle")
       /\ section[p] = "matched" => pc[p] = "hold" /\ revision = expected[p]

LEMMA OneInTheSection ==
  ASSUME RInv, NEW p \in Procs, NEW q \in Procs, pc[p] = "hold", pc[q] = "hold"
  PROVE  p = q
<1>1. Owns(p) /\ Owns(q) /\ lockPath = mine[p] /\ lockPath = mine[q]
  BY DEF RInv, IInv, Unbroken, KeepsItsLock, Owns, OwningSteps, At
<1>. QED
  BY <1>1 DEF RInv, IInv, OwnersOK

LEMMA InitRInv == RecordInit => RInv
<1>. SUFFICES ASSUME RecordInit PROVE RInv
  OBVIOUS
<1>1. IInv
  BY InitIInv DEF RecordInit
<1>. QED
  BY <1>1 DEF RecordInit, Init, RInv, Sections

\* The lease variables move by a step of the lease, or not at all.
LEMMA LeaseMoves ==
  ASSUME RecordNext
  PROVE  [Next]_vars
BY DEF RecordNext, Call, LeaseStep, CrashInCall, ReadCurrent, WriteRecordFile,
   WriteTemporaryFails, Next

LEMMA RInvStep ==
  ASSUME RInv, [RecordNext /\ breach' = {}]_allVars
  PROVE  RInv'
<1>1. CASE UNCHANGED allVars
  <2>1. IInv'
    BY <1>1, IInvStep DEF RInv, allVars
  <2>. QED
    BY <1>1, <2>1 DEF RInv, allVars, vars, recordVars
<1>2. CASE RecordNext /\ breach' = {}
  <2>1. IInv' /\ breach' = {} /\ pc' \in [Procs -> Steps]
    BY <1>2, LeaseMoves, IInvStep DEF RInv, IInv, TypeOK
  <2>2. pc \in [Procs -> Steps]
    BY DEF RInv, IInv, TypeOK
  <2>3. ASSUME NEW p \in Procs, Call(p) PROVE RInv'
    <3>1. At(p, "idle") /\ pc' = [pc EXCEPT ![p] = "loop"]
      BY <2>3 DEF Call, Begin, Goto
    <3>. QED
      BY <2>1, <2>2, <2>3, <3>1 DEF Call, RInv, Sections, At
  <2>4. ASSUME NEW p \in Procs, LeaseStep(p) PROVE RInv'
    <3>1. /\ UNCHANGED <<revision, expected>>
          /\ pc[p] # "idle"
          /\ At(p, "hold") => section[p] \in {"written", "unsynced", "refused", "failed"}
          /\ \/ pc'[p] = "idle" /\ section' = [section EXCEPT ![p] = "outside"]
             \/ pc'[p] # "idle" /\ section' = section
      BY <2>4 DEF LeaseStep, Step, At, ReadClock, OpenCreated, OpenExists, WriteRecord,
         WriteFails, Undo, ReadLock, StatLock, Quarantine, QuarantineDenied,
         RecheckQuarantine, FirstRestore,
         SecondRestore, PutBack, ReadOwn, RenameOwn, CheckReleased
    <3>2. \A q \in Procs : q # p => pc'[q] = pc[q]
      BY <2>4, OthersStay DEF LeaseStep, Moves, RInv, IInv
    <3>. QED
      BY <2>1, <3>1, <3>2 DEF RInv, Sections, At
  <2>5. ASSUME NEW p \in Procs, CrashInCall(p) PROVE RInv'
    <3>1. /\ UNCHANGED <<revision, expected>> /\ pc' = [pc EXCEPT ![p] = "idle"]
          /\ section' = [section EXCEPT ![p] = "outside"]
      BY <2>5 DEF CrashInCall, Crash, Goto
    <3>. QED
      BY <2>1, <2>2, <3>1 DEF RInv, Sections
  <2>6. ASSUME NEW p \in Procs, ReadCurrent(p) PROVE RInv'
    BY <2>1, <2>6 DEF ReadCurrent, RInv, Sections, At, vars
  <2>7. ASSUME NEW p \in Procs, WriteRecordFile(p) PROVE RInv'
    <3>1. /\ revision' = expected[p] + 1 /\ expected' = expected /\ pc' = pc
          /\ pc[p] = "hold"
          /\ \E after \in {"written", "unsynced"} : section' = [section EXCEPT ![p] = after]
      BY <2>7 DEF WriteRecordFile, At, vars
    <3>2. \A q \in Procs : q # p => section[q] # "matched"
      BY <3>1, OneInTheSection DEF RInv
    <3>. QED
      BY <2>1, <3>1, <3>2 DEF RInv, Sections
  <2>8. ASSUME NEW p \in Procs, WriteTemporaryFails(p) PROVE RInv'
    BY <2>1, <2>8 DEF WriteTemporaryFails, RInv, Sections, At, vars
  <2>9. CASE Tick /\ UNCHANGED recordVars
    BY <2>1, <2>9 DEF Tick, RInv, recordVars
  <2>. QED
    BY <1>2, <2>3, <2>4, <2>5, <2>6, <2>7, <2>8, <2>9 DEF RecordNext
<1>. QED
  BY <1>1, <1>2

\* Each step of a call is the atomic operation, its return, or invisible.
LEMMA AtomicStep ==
  ASSUME RInv, [RecordNext /\ breach' = {}]_allVars
  PROVE  [Atomic!Next]_(Atomic!storeVars)
<1> DEFINE calls == [p \in Procs |-> Stage(p)]
<1> USE DEF Atomic!storeVars, Atomic!Next
<1>1. CASE UNCHANGED allVars
  BY <1>1 DEF allVars, recordVars, Stage
<1>2. ASSUME NEW p \in Procs, Call(p) PROVE Atomic!Next
  <2>1. section[p] = "outside" /\ section' = [section EXCEPT ![p] = "waiting"]
    BY <1>2 DEF Call, Begin, At, RInv
  <2>2. calls[p] = "none" /\ calls' = [calls EXCEPT ![p] = "called"]
    BY <2>1 DEF Stage, RInv, Sections
  <2>. QED
    BY <1>2, <2>2 DEF Call, Atomic!Call
<1>3. ASSUME NEW p \in Procs, LeaseStep(p) \/ CrashInCall(p)
      PROVE  Atomic!Next \/ UNCHANGED Atomic!storeVars
  <2>1. UNCHANGED <<revision, expected>> /\ pc[p] # "idle"
    BY <1>3 DEF LeaseStep, CrashInCall, Crash, Step, At, ReadClock, OpenCreated, OpenExists,
       WriteRecord, WriteFails, Undo, ReadLock, StatLock, Quarantine, QuarantineDenied,
       RecheckQuarantine,
       FirstRestore, SecondRestore, PutBack, ReadOwn, RenameOwn, CheckReleased
  <2>2. section[p] # "outside" /\ section[p] \in Sections
    BY <2>1 DEF RInv
  <2>3. CASE section' = section
    BY <2>1, <2>3 DEF Stage
  <2>4. CASE section' = [section EXCEPT ![p] = "outside"]
    <3>1. calls[p] # "none" /\ calls' = [calls EXCEPT ![p] = "none"]
      BY <2>2, <2>4 DEF Stage, RInv, Sections
    <3>. QED
      BY <2>1, <3>1 DEF Atomic!Return
  <2>. QED
    BY <1>3, <2>3, <2>4 DEF LeaseStep, CrashInCall
<1>4. ASSUME NEW p \in Procs, ReadCurrent(p)
      PROVE  Atomic!Next \/ UNCHANGED Atomic!storeVars
  <2>1. CASE revision = expected[p]
    <3>1. /\ section[p] = "waiting" /\ section' = [section EXCEPT ![p] = "matched"]
          /\ UNCHANGED <<revision, expected>>
      BY <1>4, <2>1 DEF ReadCurrent
    <3>2. calls' = calls
      BY <3>1 DEF Stage, RInv, Sections
    <3>. QED
      BY <3>1, <3>2
  <2>2. CASE revision # expected[p]
    <3>1. /\ section[p] = "waiting" /\ section' = [section EXCEPT ![p] = "refused"]
          /\ UNCHANGED <<revision, expected>>
      BY <1>4, <2>2 DEF ReadCurrent
    <3>2. calls[p] = "called" /\ calls' = [calls EXCEPT ![p] = "refused"]
      BY <3>1 DEF Stage, RInv, Sections
    <3>. QED
      BY <2>2, <3>1, <3>2 DEF Atomic!Refuse
  <2>. QED
    BY <2>1, <2>2
<1>5. ASSUME NEW p \in Procs, WriteRecordFile(p) PROVE Atomic!Next
  <2>1. /\ section[p] = "matched" /\ revision = expected[p]
        /\ revision' = expected[p] + 1 /\ expected' = expected
        /\ \E after \in {"written", "unsynced"} : section' = [section EXCEPT ![p] = after]
    BY <1>5 DEF WriteRecordFile, RInv
  <2>2. PICK after \in {"written", "unsynced"} : section' = [section EXCEPT ![p] = after]
    BY <2>1
  <2>3. \A q \in Procs : Stage(q)' = IF q = p THEN "applied" ELSE Stage(q)
    BY <2>2 DEF Stage, RInv, Sections
  <2>4. calls[p] = "called"
    BY <2>1 DEF Stage
  <2>5. calls' = [calls EXCEPT ![p] = "applied"]
    BY <2>3
  <2>. QED
    BY <2>1, <2>4, <2>5 DEF Atomic!Apply
<1>6. ASSUME NEW p \in Procs, WriteTemporaryFails(p) PROVE UNCHANGED Atomic!storeVars
  <2>1. /\ section[p] = "matched" /\ section' = [section EXCEPT ![p] = "failed"]
        /\ UNCHANGED <<revision, expected>>
    BY <1>6 DEF WriteTemporaryFails
  <2>. QED
    BY <2>1 DEF Stage, RInv, Sections
<1>7. CASE Tick /\ UNCHANGED recordVars
  BY <1>7 DEF recordVars, Stage
<1>. QED
  BY <1>1, <1>2, <1>3, <1>4, <1>5, <1>6, <1>7 DEF RecordNext

\* The leased store implements the atomic store.
THEOREM LeaseImplementsAtomicStore == UnbreachedSpec => ImplementsAtomicStore
<1>1. RecordInit => Atomic!Init
  BY DEF RecordInit, Atomic!Init, Stage
<1>. QED
  BY <1>1, InitRInv, RInvStep, AtomicStep, PTL
     DEF UnbreachedSpec, ImplementsAtomicStore, Atomic!Spec
=============================================================================
