------------------------ MODULE PartnerReconciliation -----------------------
(***************************************************************************)
(* PartnerReconciliationService: operations registered from partner        *)
(* results and moved by authenticated callbacks, which the partner numbers *)
(* and the network may repeat, reorder and delay.  Saves fail, the process *)
(* stops, and a callback that got an error is sent again.                  *)
(***************************************************************************)
EXTENDS Naturals, FiniteSets

CONSTANTS
  Callbacks,       \* records with id, transaction, event and sequence
  MaxFailedSaves, MaxRestarts

Terminal == [SETTLED |-> "SETTLED_BY_PARTNER", AUTHORIZATION_REJECTED |-> "REJECTED"]
TerminalEvents == DOMAIN Terminal
EventTypes == {"AUTHORIZATION_ACCEPTED", "AUTHORIZATION_REJECTED", "OUTCOME_UNCERTAIN",
               "RECONCILIATION_REQUIRED", "SETTLED"}

ASSUME PartnerReconciliationAssumption ==
  /\ MaxFailedSaves \in Nat /\ MaxRestarts \in Nat
  /\ \A cb \in Callbacks : cb.event \in EventTypes /\ cb.sequence \in Nat \ {0}

Transactions == {cb.transaction : cb \in Callbacks}
Ids == {cb.id : cb \in Callbacks}

VARIABLES
  memory,        \* operations by transaction and callbacks by id
  file,
  emitted,       \* callbacks the partner has signed
  acknowledged,  \* callbacks the partner has been answered for without an error
  failedSaves, restarts

vars == <<memory, file, emitted, acknowledged, failedSaves, restarts>>

States == {"PENDING_PARTNER_RESULT", "AUTHORIZED_NOT_SETTLED", "REJECTED",
           "OUTCOME_UNCERTAIN", "RECONCILIATION_REQUIRED", "SETTLED_BY_PARTNER"}
TerminalStates == {Terminal[e] : e \in TerminalEvents}
Operations == [state : States, last : Nat]

\* initialState of a partner result.
InitialStates == {"PENDING_PARTNER_RESULT", "AUTHORIZED_NOT_SETTLED", "REJECTED", "OUTCOME_UNCERTAIN"}

Init ==
  /\ memory = [operation |-> [t \in Transactions |-> {}], callback |-> [i \in Ids |-> {}]]
  /\ file = memory
  /\ emitted = {} /\ acknowledged = {}
  /\ failedSaves = 0 /\ restarts = 0

-----------------------------------------------------------------------------
\* The partner numbers the callbacks of a transaction and ends with its outcome.
Emit(cb) ==
  /\ cb \notin emitted
  /\ \A o \in emitted : o.transaction = cb.transaction =>
       o.sequence < cb.sequence /\ o.event \notin TerminalEvents
  /\ emitted' = emitted \cup {cb}
  /\ UNCHANGED <<memory, file, acknowledged, failedSaves, restarts>>

Saved == file' = memory' /\ UNCHANGED failedSaves
SaveFails == failedSaves < MaxFailedSaves /\ failedSaves' = failedSaves + 1 /\ UNCHANGED file

\* registerPartnerResult: a transaction that is registered keeps its operation.
Register(t, state) ==
  /\ memory.operation[t] = {}
  /\ memory' = [memory EXCEPT !.operation[t] = {[state |-> state, last |-> 0]}]
  /\ Saved \/ SaveFails
  /\ UNCHANGED <<emitted, acknowledged, restarts>>

\* transition: terminal states only accept their own event.
Allowed(state, event) ==
  state \in TerminalStates => event \in TerminalEvents /\ Terminal[event] = state

\* Mutant: the event is taken for the state.
StateAfterMut(event) == event

StateAfter(event) ==
  CASE event = "AUTHORIZATION_ACCEPTED" -> "AUTHORIZED_NOT_SETTLED"
    [] event \in TerminalEvents -> Terminal[event]
    [] OTHER -> event

Verify(cb) == cb \in emitted

\* Authentic, new, about a registered operation, later than what it has seen
\* and allowed by its state.
Applicable(cb) ==
  /\ Verify(cb) /\ memory.callback[cb.id] = {}
  /\ \E o \in memory.operation[cb.transaction] :
       cb.sequence > o.last /\ Allowed(o.state, cb.event)

Moved(cb) == {[state |-> StateAfter(cb.event), last |-> cb.sequence]}

\* Mutant: the callback is answered for and not saved.
ApplyMut(cb) ==
  /\ Applicable(cb)
  /\ memory' = [operation |-> [memory.operation EXCEPT ![cb.transaction] = Moved(cb)],
                callback |-> [memory.callback EXCEPT ![cb.id] = {cb}]]
  /\ acknowledged' = acknowledged \cup {cb}
  /\ UNCHANGED <<file, emitted, failedSaves, restarts>>

\* applyAuthenticatedCallback of a new callback.
Apply(cb) ==
  /\ Applicable(cb)
  /\ memory' = [operation |-> [memory.operation EXCEPT ![cb.transaction] = Moved(cb)],
                callback |-> [memory.callback EXCEPT ![cb.id] = {cb}]]
  /\ \/ Saved /\ acknowledged' = acknowledged \cup {cb}
     \/ SaveFails /\ UNCHANGED acknowledged
  /\ UNCHANGED <<emitted, restarts>>

\* A repeated callback is answered with the operation.
Duplicate(cb) ==
  /\ Verify(cb) /\ memory.callback[cb.id] = {cb}
  /\ acknowledged' = acknowledged \cup {cb}
  /\ UNCHANGED <<memory, file, emitted, failedSaves, restarts>>

\* Anything else is an error and changes nothing.
Reject(cb) ==
  /\ ~Applicable(cb) /\ ~(Verify(cb) /\ memory.callback[cb.id] = {cb})
  /\ UNCHANGED vars

Restart ==
  /\ restarts < MaxRestarts /\ restarts' = restarts + 1
  /\ memory' = file
  /\ UNCHANGED <<file, emitted, acknowledged, failedSaves>>

Next ==
  \/ \E cb \in Callbacks : Emit(cb) \/ Apply(cb) \/ Duplicate(cb) \/ Reject(cb)
  \/ \E t \in Transactions, s \in InitialStates : Register(t, s)
  \/ Restart

Spec == Init /\ [][Next]_vars

-----------------------------------------------------------------------------
Memories == [operation : [Transactions -> SUBSET Operations], callback : [Ids -> SUBSET Callbacks]]

TypeOK ==
  /\ memory \in Memories /\ file \in Memories
  /\ emitted \subseteq Callbacks /\ acknowledged \subseteq Callbacks
  /\ failedSaves \in 0..MaxFailedSaves /\ restarts \in 0..MaxRestarts

\* Settlement is only ever the partner's word: a settled operation, in memory or
\* on file, has a signed SETTLED callback under its own number.
SettledByPartnerOnly ==
  \A m \in {memory, file} : \A t \in Transactions : \A o \in m.operation[t] :
    o.state = "SETTLED_BY_PARTNER" =>
      \E cb \in emitted : cb.transaction = t /\ cb.event = "SETTLED" /\ cb.sequence = o.last

\* In whichever order callbacks arrive, the state is that of the latest one
\* taken: nothing recorded was sent after it.
LatestWins ==
  \A m \in {memory, file} : \A t \in Transactions : \A o \in m.operation[t] :
    \A cb \in UNION {m.callback[i] : i \in Ids} : cb.transaction = t =>
      cb.sequence <= o.last /\ (cb.sequence = o.last => o.state = StateAfter(cb.event))

\* An outcome the partner was answered for is the state of the operation, from
\* then on and through restarts, as long as no save has failed.
AcknowledgedOutcomeHolds ==
  failedSaves = 0 => \A cb \in acknowledged : cb.event \in TerminalEvents =>
    \E o \in memory.operation[cb.transaction] : o.state = Terminal[cb.event]

\* No step takes a terminal state off the file, and no number goes back.
FileNeverRegresses ==
  [][\A t \in Transactions : \A o \in file.operation[t] : \E p \in file'.operation[t] :
       p.last >= o.last /\ (o.state \in TerminalStates => p.state = o.state)]_vars
=============================================================================
