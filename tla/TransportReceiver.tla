-------------------------- MODULE TransportReceiver -------------------------
(***************************************************************************)
(* MockTransportReceiver in front of the partner ledger of the same        *)
(* process: envelopes arrive late, twice, out of order or changed, are     *)
(* submitted in the sequence of their customer and acknowledged by a       *)
(* receipt.  Receipts become tombstones and tombstones disappear.  Ledger  *)
(* and receiver are saved to two files one after the other.                *)
(***************************************************************************)
EXTENDS PartnerLedger

CONSTANTS
  Events,              \* records with id, sequence, created and request
  AgeLimit,            \* 7 days in the code
  ReceiptRetention,    \* 30 days by default
  TombstoneRetention,  \* 60 days by default
  MaxTime

Ids == {e.id : e \in Events}

VARIABLES
  receiver,      \* memory: receipts, tombstones and the last sequence of each customer
  receiverFile,
  now,
  receipted      \* [Events -> how many receipts of it have reached the file]

receiverVars == <<receiver, receiverFile, now, receipted>>

InitTransport ==
  /\ Init
  /\ receiver = [receipt |-> [i \in Ids |-> {}], tombstone |-> [i \in Ids |-> {}],
                 sequence |-> [c \in Customers |-> 0]]
  /\ receiverFile = receiver
  /\ now = 0
  /\ receipted = [e \in Events |-> 0]

-----------------------------------------------------------------------------
OldReceipts(m, i) == {r \in m.receipt[i] : now - r.received > ReceiptRetention}

\* prune: old receipts become tombstones, expired tombstones go.
Pruned(m) ==
  [m EXCEPT
     !.receipt = [i \in Ids |-> m.receipt[i] \ OldReceipts(m, i)],
     !.tombstone = [i \in Ids |->
        {t \in m.tombstone[i] \cup {[event |-> r.event, expires |-> now + TombstoneRetention] :
                                      r \in OldReceipts(m, i)} :
           t.expires > now}]]

\* Neither receipted nor buried, of an acceptable age, and the customer's next.
Admissible(m, e) ==
  /\ m.receipt[e.id] = {} /\ m.tombstone[e.id] = {}
  /\ e.created <= now /\ now - e.created <= AgeLimit
  /\ e.sequence = m.sequence[e.request.customer] + 1

\* Mutant: the receipt tells of a settlement.
SettledMut(m, e, result) ==
  [m EXCEPT !.receipt[e.id] = {[event |-> e, state |-> "SETTLED", received |-> now] : r \in result},
            !.sequence[e.request.customer] = e.sequence]

Receipted(m, e, result) ==
  [m EXCEPT !.receipt[e.id] = {[event |-> e, state |-> r.state, received |-> now] : r \in result},
            !.sequence[e.request.customer] = e.sequence]

\* persist of the receiver; when it throws memory keeps what is new.
ReceiverSaved(m) ==
  /\ receiver' = m
  /\ receiverFile' = m
  /\ receipted' = [e \in Events |->
       receipted[e] + Cardinality({r \in m.receipt[e.id] \ receiverFile.receipt[e.id] : r.event = e})]

ReceiverUnsaved(m) ==
  /\ receiver' = m
  /\ UNCHANGED <<receiverFile, receipted>>

\* prune at the start of receive throws: the event is not looked at.
PruneFails ==
  /\ Pruned(receiver) # receiver /\ SaveFails
  /\ ReceiverUnsaved(Pruned(receiver))
  /\ UNCHANGED <<ledger, ledgerFile, outcome, eligible, told, restarts, now>>

\* A duplicate gets its receipt again; a conflict, a tombstone, a wrong age or
\* sequence is an error, and so is a request that submit rejects.
Refuse(e) ==
  LET m == Pruned(receiver) IN
  /\ ~Admissible(m, e) \/ Refused(e.request)
  /\ IF m = receiver THEN ReceiverUnsaved(m) ELSE ReceiverSaved(m)
  /\ UNCHANGED <<ledgerVars, now>>

\* The ledger's save throws: no receipt.
SubmitFails(e) ==
  LET m == Pruned(receiver) IN
  /\ Admissible(m, e) /\ PostUnsaved(e.request)
  /\ IF m = receiver THEN ReceiverUnsaved(m) ELSE ReceiverSaved(m)
  /\ UNCHANGED <<told, now>>

\* The request is posted, or was, and the receipt is saved or not.
Receive(e) ==
  LET m == Pruned(receiver) IN
  /\ Admissible(m, e)
  /\ Post(e.request) \/ Recall(e.request)
  /\ \/ /\ ReceiverSaved(Receipted(m, e, ledger'.result[e.request.key]))
        /\ UNCHANGED failedSaves
     \/ /\ SaveFails
        /\ ReceiverUnsaved(Receipted(m, e, ledger'.result[e.request.key]))
  /\ UNCHANGED <<told, now>>

\* Mutant: the receiver is saved first.
StopBetweenMut(e) ==
  LET m == Pruned(receiver) IN
  /\ Admissible(m, e) /\ restarts < MaxRestarts /\ Postable(e.request)
  /\ ledger' = ledgerFile /\ outcome' \in {"accept", "reject", "reconcile"}
  /\ restarts' = restarts + 1
  /\ ReceiverSaved(Receipted(m, e, Posted(e.request).result[e.request.key]))
  /\ UNCHANGED <<ledgerFile, eligible, told, failedSaves, now>>

\* The ledger is saved and the process stops before the receiver is.
StopBetween(e) ==
  LET m == Pruned(receiver) IN
  /\ Admissible(m, e) /\ restarts < MaxRestarts /\ Postable(e.request)
  /\ ledger' = Posted(e.request) /\ ledgerFile' = ledger'
  /\ outcome' \in {"accept", "reject", "reconcile"}
  /\ restarts' = restarts + 1
  /\ LET saved == IF m = receiver THEN receiverFile ELSE m IN
       receiverFile' = saved /\ receiver' = Pruned(saved)
  /\ UNCHANGED <<eligible, told, failedSaves, now, receipted>>

\* The constructor prunes and does not save.
RestartBoth ==
  /\ Restart
  /\ receiver' = Pruned(receiverFile)
  /\ UNCHANGED <<receiverFile, now, receipted>>

Tick ==
  /\ now < MaxTime /\ now' = now + 1
  /\ UNCHANGED <<ledgerVars, receiver, receiverFile, receipted>>

NextTransport ==
  \/ PruneFails
  \/ \E e \in Events : Refuse(e) \/ SubmitFails(e) \/ Receive(e) \/ StopBetween(e)
  \/ \E request \in Requests : Submit(request) /\ UNCHANGED receiverVars
  \/ \E c \in Customers : ChangeEligibility(c) /\ UNCHANGED receiverVars
  \/ RestartBoth
  \/ Tick

SpecTransport == InitTransport /\ [][NextTransport]_<<ledgerVars, receiverVars>>

-----------------------------------------------------------------------------
Receipts == [event : Events, state : States, received : 0..MaxTime]
Tombstones == [event : Events, expires : Nat]

ReceiverTypes ==
  [receipt : [Ids -> SUBSET Receipts], tombstone : [Ids -> SUBSET Tombstones],
   sequence : [Customers -> Nat]]

TypeOKTransport ==
  /\ TypeOK
  /\ receiver \in ReceiverTypes /\ receiverFile \in ReceiverTypes
  /\ now \in 0..MaxTime /\ receipted \in [Events -> Nat]

\* No receipt without its result: as long as no save has failed, whatever a
\* receipt says of a request is what the ledger says, and every number up to the
\* customer's last was posted, through any stop between the two saves.
ReceiptsHaveResults ==
  failedSaves = 0 =>
    /\ \A i \in Ids : \A r \in receiver.receipt[i] :
         \E q \in ledger.result[r.event.request.key] : q.request = r.event.request /\ q.state = r.state
    /\ \A c \in Customers : \A n \in 1..receiver.sequence[c] :
         \E k \in Keys : \E r \in ledger.result[k] : \E e \in Events :
           r.request = e.request /\ e.request.customer = c /\ e.sequence = n

\* "retention does not turn an old event into a new financial submission": a
\* receipt of an event reaches the file at most once, although receipts and
\* tombstones are dropped and the process stops.
ReceiptedOnce ==
  \A e \in Events : receipted[e] <= 1
=============================================================================
