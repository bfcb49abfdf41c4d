-------------------------- MODULE TelebirrPreorder --------------------------
(***************************************************************************)
(* DurableTelebirrPreorderIntentStore: processes reserve the order id and  *)
(* nonce of a preorder on one file, before anything is asked of the        *)
(* provider.  Memory follows the file only when the save has returned, and *)
(* is never loaded again: a store that has fallen behind the file refuses  *)
(* every new reservation until it is constructed again.                    *)
(***************************************************************************)
EXTENDS Naturals, FiniteSets

CONSTANTS
  Requests,    \* [key, transaction, order, nonce, variant]
  Stores,      \* processes, or stores of one process
  MaxRecords,  \* 10 000 in the code
  MaxFaults    \* bound on failed saves and reopened stores

VARIABLES
  file,    \* [revision, records]
  store,   \* [Stores -> a store's memory, of the same form]
  told,    \* history: requests whose reserve has returned
  faults

vars == <<file, store, told, faults>>

Init ==
  /\ file = [revision |-> 0, records |-> {}]
  /\ store = [s \in Stores |-> file]
  /\ told = {} /\ faults = 0

-----------------------------------------------------------------------------
\* Mutant: a nonce may be used for two orders.
CollidesMut(a, b) ==
  a.key = b.key \/ a.transaction = b.transaction \/ a.order = b.order

\* The four indices: no two records share a key, a transaction, an order or a nonce.
Collides(a, b) ==
  a.key = b.key \/ a.transaction = b.transaction \/ a.order = b.order \/ a.nonce = b.nonce

Candidate(s, request) == [revision |-> store[s].revision + 1, records |-> store[s].records \cup {request}]

\* The save: compare-and-swap of the file's revision, within the lease.
Save(s, request) ==
  /\ file.revision = store[s].revision
  /\ file' = Candidate(s, request)

\* reserve of a request that nothing in memory stands against.
Reserve(s, request) ==
  /\ \A r \in store[s].records : ~Collides(r, request)
  /\ Cardinality(store[s].records) < MaxRecords
  /\ Save(s, request)
  /\ store' = [store EXCEPT ![s] = file']
  /\ told' = told \cup {request}
  /\ UNCHANGED faults

\* The save throws: another revision, a taken lease or a failed write, which may be
\* the sync after the rename.  Memory stays as it was.
ReserveFails(s, request) ==
  /\ \A r \in store[s].records : ~Collides(r, request)
  /\ faults < MaxFaults /\ faults' = faults + 1
  /\ file' = file \/ Save(s, request)
  /\ UNCHANGED <<store, told>>

\* A repetition gets its record; a conflict, a replay, a full or an outdated store
\* an error.
Answer(s, request) ==
  /\ told' = IF request \in store[s].records THEN told \cup {request} ELSE told
  /\ \/ \E r \in store[s].records : Collides(r, request)
     \/ Cardinality(store[s].records) >= MaxRecords
     \/ file.revision # store[s].revision
  /\ UNCHANGED <<file, store, faults>>

\* The constructor throws for a file with two records that collide.
Reopen(s) ==
  /\ faults < MaxFaults /\ faults' = faults + 1
  /\ \A a, b \in file.records : a # b => ~Collides(a, b)
  /\ store' = [store EXCEPT ![s] = file]
  /\ UNCHANGED <<file, told>>

Next ==
  \E s \in Stores :
    \/ \E request \in Requests : Reserve(s, request) \/ ReserveFails(s, request) \/ Answer(s, request)
    \/ Reopen(s)

Spec == Init /\ [][Next]_vars

-----------------------------------------------------------------------------
TypeOK ==
  /\ file \in [revision : Nat, records : SUBSET Requests]
  /\ store \in [Stores -> [revision : Nat, records : SUBSET Requests]]
  /\ told \subseteq Requests /\ faults \in 0..MaxFaults

\* A reservation that a caller was told of is on file and stays there, alone with
\* its key, transaction, order id and nonce, although each store only looks at its
\* own memory, which may be out of date or behind a save that failed.
ReservationHolds ==
  /\ told \subseteq file.records
  /\ \A a, b \in file.records : a.key = b.key \/ a.transaction = b.transaction
                                  \/ a.order = b.order \/ a.nonce = b.nonce => a = b
=============================================================================
