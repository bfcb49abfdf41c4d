------------------------ MODULE PaymentAttemptStore -------------------------
(***************************************************************************)
(* DurablePaymentAttemptStore: several stores, each with its own memory,   *)
(* reserve payment attempts and record their initiation on one file.  A    *)
(* save is a compare-and-set of the file's revision under the file lease   *)
(* (LeasedRecordStore looks at leases that run out); the lease is not      *)
(* waited for.                                                             *)
(***************************************************************************)
EXTENDS Integers, FiniteSets

CONSTANTS
  Keys, Transactions,
  Variants,      \* the other fields of a request
  Stores,
  MaxRecords,    \* 10 000 in the code
  MaxFaults      \* bound on failed saves and reopened stores

VARIABLES
  file,     \* the snapshot: its revision and [Keys -> {} or {record}]
  store,    \* [Stores -> a store's memory]
  granted,  \* [Stores -> keys whose reservation was made by this very store]
  grants,   \* [Transactions -> reservations that were not reuses]
  faults

vars == <<file, store, granted, grants, faults>>

Requests == [key : Keys, transaction : Transactions, variant : Variants]
Evidence == {"ACCEPTED", "REJECTED", "UNCERTAIN"}
Records == [request : Requests, evidence : {{}} \cup {{e} : e \in Evidence}]
Empty == [k \in Keys |-> {}]

\* The constructor: attempts without evidence are marked as recovered.
Opened(snapshot) ==
  [usable |-> TRUE, revision |-> snapshot.revision, record |-> snapshot.record,
   recovered |-> {k \in Keys : \E r \in snapshot.record[k] : r.evidence = {}}]

Init ==
  /\ file = [revision |-> 0, record |-> Empty]
  /\ store = [s \in Stores |-> Opened(file)]
  /\ granted = [s \in Stores |-> {}]
  /\ grants = [t \in Transactions |-> 0]
  /\ faults = 0

-----------------------------------------------------------------------------
\* match: the key is of another request, or the transaction of another key.
Conflict(s, request) ==
  \/ \E r \in store[s].record[request.key] : r.request # request
  \/ \E k \in Keys \ {request.key} : \E r \in store[s].record[k] :
       r.request.transaction = request.transaction

Fits(records) == Cardinality({k \in Keys : records[k] # {}}) <= MaxRecords
Unusable(s) == store' = [store EXCEPT ![s].usable = FALSE]

\* The save succeeds and memory follows.
Save(s, records) ==
  /\ file.revision = store[s].revision
  /\ file' = [revision |-> store[s].revision + 1, record |-> records]
  /\ store' = [store EXCEPT ![s].record = records, ![s].revision = store[s].revision + 1]
  /\ UNCHANGED faults

\* The save throws: another revision is on file, the lease is taken, or writing
\* fails before or after the file is replaced.  The store is of no use any more.
SaveFails(s, records) ==
  /\ Unusable(s)
  /\ \/ file.revision # store[s].revision /\ UNCHANGED <<file, faults>>
     \/ /\ faults < MaxFaults /\ faults' = faults + 1
        /\ \/ UNCHANGED file
           \/ /\ file.revision = store[s].revision
              /\ file' = [revision |-> store[s].revision + 1, record |-> records]

With(s, request, evidence) ==
  [store[s].record EXCEPT ![request.key] = {[request |-> request, evidence |-> evidence]}]

\* Mutant: a reservation found without evidence is taken over.
ReserveMut(s, request) ==
  LET records == With(s, request, {}) IN
  /\ store[s].usable /\ ~Conflict(s, request)
  /\ \A r \in store[s].record[request.key] : r.evidence = {}
  /\ Fits(records)
  /\ \/ /\ Save(s, records)
        /\ granted' = [granted EXCEPT ![s] = @ \cup {request.key}]
        /\ grants' = [grants EXCEPT ![request.transaction] = @ + 1]
     \/ SaveFails(s, records) /\ UNCHANGED <<granted, grants>>

\* reserve of a new attempt.
Reserve(s, request) ==
  LET records == With(s, request, {}) IN
  /\ store[s].usable /\ ~Conflict(s, request)
  /\ store[s].record[request.key] = {}
  /\ Fits(records)
  /\ \/ /\ Save(s, records)
        /\ granted' = [granted EXCEPT ![s] = @ \cup {request.key}]
        /\ grants' = [grants EXCEPT ![request.transaction] = @ + 1]
     \/ SaveFails(s, records) /\ UNCHANGED <<granted, grants>>

\* recordInitiation of an attempt that has no evidence.
RecordInitiation(s, request, evidence) ==
  LET records == With(s, request, {evidence}) IN
  /\ store[s].usable /\ ~Conflict(s, request)
  /\ \E r \in store[s].record[request.key] : r.evidence = {}
  /\ request.key \notin store[s].recovered
  /\ Save(s, records) \/ SaveFails(s, records)
  /\ UNCHANGED <<granted, grants>>

\* A reuse, a conflict, or a call of a store that is of no use: an answer and no change.
NoChange(s, request) ==
  /\ ~store[s].usable \/ Conflict(s, request) \/ store[s].record[request.key] # {}
       \/ ~Fits(With(s, request, {}))
  /\ UNCHANGED vars

\* The process stops, or the store is constructed anew.
Reopen(s) ==
  /\ faults < MaxFaults /\ faults' = faults + 1
  /\ store' = [store EXCEPT ![s] = Opened(file)]
  /\ granted' = [granted EXCEPT ![s] = {}]
  /\ UNCHANGED <<file, grants>>

Next ==
  \E s \in Stores :
    \/ \E request \in Requests :
         \/ Reserve(s, request) \/ NoChange(s, request)
         \/ \E evidence \in Evidence : RecordInitiation(s, request, evidence)
    \/ Reopen(s)

Spec == Init /\ [][Next]_vars

-----------------------------------------------------------------------------
TypeOK ==
  /\ file \in [revision : Nat, record : [Keys -> SUBSET Records]]
  /\ store \in [Stores -> [usable : BOOLEAN, revision : Nat,
                           record : [Keys -> SUBSET Records], recovered : SUBSET Keys]]
  /\ granted \in [Stores -> SUBSET Keys]
  /\ grants \in [Transactions -> Nat]
  /\ faults \in 0..MaxFaults

\* "A reused unresolved reservation is never permission to repost": at most one
\* reserve call is ever told that the transaction is its own, and the file has at
\* most one record of it, whichever store or process makes the call, whatever saves
\* fail, and although each store only compares with its own memory.
AtMostOneGrant ==
  /\ \A t \in Transactions : grants[t] <= 1
  /\ \A k, l \in Keys : \A r \in file.record[k], q \in file.record[l] :
       r.request.transaction = q.request.transaction => k = l

\* A usable store whose revision is the file's holds what the file holds: the
\* number vouches for the whole snapshot.
RevisionVouches ==
  \A s \in Stores : store[s].usable /\ store[s].revision = file.revision =>
    store[s].record = file.record

\* Evidence is only added by the store that made the reservation: a store that
\* found it on file, after a stop or from another process, never does.
EvidenceByTheReserver ==
  [][\A k \in Keys : file.record[k] # file'.record[k] /\ file.record[k] # {} =>
       \E s \in Stores : /\ k \in granted[s]
                         /\ \E r \in file.record[k] : r.evidence = {}
                         /\ \E q \in file'.record[k] : \E r \in file.record[k] :
                              q.request = r.request /\ q.evidence # {}]_vars
=============================================================================
