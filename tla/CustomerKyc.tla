----------------------------- MODULE CustomerKyc ----------------------------
(***************************************************************************)
(* The customer of the demo server, the identity provider's requests and   *)
(* the challenges that wait for their confirmation: three stores, each on  *)
(* a file of its own, which an operation changes and saves one after the   *)
(* other.  Any of those saves may fail and the server may stop between     *)
(* two of them.                                                            *)
(***************************************************************************)
EXTENDS Naturals, Sequences, FiniteSets, FiniteSetsExt

CONSTANTS
  Phones,
  MaxRequests,     \* challenges the provider is ever asked for
  MaxStops, MaxFailedSaves

Ids == 1..MaxRequests

VARIABLES
  memory,   \* [customer, requests, pending] of the server
  file,     \* the same three on their files
  running, stops, failedSaves

vars == <<memory, file, running, stops, failedSaves>>

Kyc == {"UNVERIFIED", "PENDING", "VERIFIED", "REVERIFICATION_REQUIRED", "SUSPENDED"}

\* confirmed is history: a challenge for this phone was confirmed since the
\* phone was last changed.  reference is the request the identity was taken from.
Customers == [phone : Phones, kyc : Kyc, reference : Ids \cup {0}, confirmed : BOOLEAN, partner : BOOLEAN,
              phoneStatus : {"UNVERIFIED", "VERIFIED", "REVERIFICATION_REQUIRED"}]
Challenges == [id : Ids, phone : Phones]
Stores == [customer : SUBSET Customers, requests : [Ids -> {"NONE", "PENDING", "VERIFIED"}],
           pending : SUBSET Challenges]

Init ==
  /\ memory = [customer |-> {}, requests |-> [i \in Ids |-> "NONE"], pending |-> {}]
  /\ file = memory
  /\ running = FALSE /\ stops = 0 /\ failedSaves = 0

TheCustomer(s) == CHOOSE c \in s.customer : TRUE
ThePending(s) == CHOOSE p \in s.pending : TRUE

-----------------------------------------------------------------------------
(* An operation is the sequence of the stores it sets, each saved at once.  *)

\* What the first k of them leave: each store as it was last set.
FirstWrites(s, writes, k) ==
  [store \in DOMAIN s |->
     LET saved == {i \in 1..k : writes[i].store = store}
     IN IF saved = {} THEN s[store] ELSE writes[Max(saved)].value]
After(s, writes) == FirstWrites(s, writes, Len(writes))
Then(s, writes, next(_)) == writes \o next(After(s, writes))

SetCustomer(c) == <<[store |-> "customer", value |-> {c}]>>
SetPending(p) == <<[store |-> "pending", value |-> p]>>
SetRequest(s, i, status) == <<[store |-> "requests", value |-> [s.requests EXCEPT ![i] = status]]>>

Fresh(s) == {i \in Ids : s.requests[i] = "NONE"}
FreshId(s) == CHOOSE i \in Fresh(s) : \A j \in Fresh(s) : i <= j

NewCustomer(phone) ==
  SetCustomer([phone |-> phone, kyc |-> "UNVERIFIED", reference |-> 0, confirmed |-> FALSE,
               partner |-> FALSE, phoneStatus |-> "UNVERIFIED"])

\* startVerification of the provider, and the challenge that waits for it.
Challenge(s) ==
  Then(s, SetRequest(s, FreshId(s), "PENDING"),
       LAMBDA t : SetPending({[id |-> FreshId(s), phone |-> TheCustomer(t).phone]}))

\* start and requestReverification: a challenge that is there is kept, whatever
\* has become of it, and the customer is moved before the provider is asked.
Started(s, from, to) ==
  IF s.pending # {} THEN <<>>
  ELSE LET c == TheCustomer(s)
       IN Then(s, IF c.kyc = from THEN SetCustomer([c EXCEPT !.kyc = to]) ELSE <<>>, Challenge)

\* Mutant: the phone of the challenge is not compared.
ConfirmableMut(s) ==
  /\ s.pending # {}
  /\ TheCustomer(s).kyc \in {"PENDING", "REVERIFICATION_REQUIRED"}
  /\ s.requests[ThePending(s).id] = "PENDING"

Confirmable(s) ==
  /\ s.pending # {} /\ ThePending(s).phone = TheCustomer(s).phone
  /\ TheCustomer(s).kyc \in {"PENDING", "REVERIFICATION_REQUIRED"}
  /\ s.requests[ThePending(s).id] = "PENDING"

Verified(s) ==
  [TheCustomer(s) EXCEPT !.kyc = "VERIFIED",
     !.confirmed = @ \/ ThePending(s).phone = TheCustomer(s).phone]

\* confirm, where confirmVerification, transition and recordIdentityVerification
\* save one after the other.
Confirmed(s) ==
  SetRequest(s, ThePending(s).id, "VERIFIED")
    \o SetCustomer(Verified(s)) \o SetPending({})
    \o SetCustomer([Verified(s) EXCEPT !.reference = ThePending(s).id])

PhoneVerified(s) == SetCustomer([TheCustomer(s) EXCEPT !.phoneStatus = "VERIFIED"])

ConfirmedWithPhone(s) == Then(s, Confirmed(s), PhoneVerified)

Linked(s) ==
  IF TheCustomer(s).partner THEN <<>> ELSE SetCustomer([TheCustomer(s) EXCEPT !.partner = TRUE])

\* registerDemoApi: the customer is created, or an unfinished one is finished.
Finish(s) ==
  Then(s, IF TheCustomer(s).kyc \in {"UNVERIFIED", "PENDING"}
          THEN Then(s, Started(s, "UNVERIFIED", "PENDING"), ConfirmedWithPhone) ELSE <<>>,
       Linked)

\* The confirmation of an unfinished customer throws.
CannotStart ==
  /\ file.customer # {} /\ TheCustomer(file).kyc = "PENDING"
  /\ file.pending # {} /\ ~Confirmable(file)

-----------------------------------------------------------------------------
\* A startup runs to its end, or ends at one of its saves.
Startup(writes) ==
  /\ ~running
  /\ \/ /\ memory' = After(file, writes) /\ file' = memory' /\ running' = TRUE
        /\ UNCHANGED <<stops, failedSaves>>
     \/ /\ stops < MaxStops /\ stops' = stops + 1
        /\ \E k \in 0..Len(writes) : file' = FirstWrites(file, writes, k)
        /\ UNCHANGED <<memory, running, failedSaves>>

StartNew ==
  /\ file.customer = {}
  /\ Startup(Then(file, NewCustomer(CHOOSE p \in Phones : TRUE), Finish))

StartAgain ==
  /\ file.customer # {} /\ ~CannotStart
  /\ file.pending = {} /\ TheCustomer(file).kyc \in {"UNVERIFIED", "PENDING"} => Fresh(file) # {}
  /\ Startup(Finish(file))

\* A route: all of it, up to the save that throws, or up to where the server stops.
Perform(writes) ==
  /\ running
  /\ \/ /\ memory' = After(memory, writes) /\ file' = After(file, writes)
        /\ UNCHANGED <<running, stops, failedSaves>>
     \/ /\ failedSaves < MaxFailedSaves /\ failedSaves' = failedSaves + 1
        /\ \E k \in 1..Len(writes) :
             memory' = FirstWrites(memory, writes, k) /\ file' = FirstWrites(file, writes, k - 1)
        /\ UNCHANGED <<running, stops>>
     \/ /\ stops < MaxStops /\ stops' = stops + 1 /\ running' = FALSE
        /\ \E k \in 0..Len(writes) : file' = FirstWrites(file, writes, k)
        /\ UNCHANGED <<memory, failedSaves>>

customer == TheCustomer(memory)

ChangePhone(phone) ==
  /\ phone # customer.phone
  /\ Perform(SetCustomer([customer EXCEPT !.phone = phone, !.confirmed = FALSE,
       !.phoneStatus = "REVERIFICATION_REQUIRED",
       !.kyc = IF @ = "VERIFIED" THEN "REVERIFICATION_REQUIRED" ELSE @]))

RequestReverification ==
  /\ memory.pending = {}
  /\ customer.kyc \in {"VERIFIED", "REVERIFICATION_REQUIRED"} /\ Fresh(memory) # {}
  /\ Perform(Started(memory, "VERIFIED", "REVERIFICATION_REQUIRED"))

Confirm ==
  /\ Confirmable(memory)
  /\ Perform(ConfirmedWithPhone(memory))

\* The customer store's transitions to and from a suspension.
Suspend ==
  /\ customer.kyc \in {"VERIFIED", "REVERIFICATION_REQUIRED"}
  /\ Perform(SetCustomer([customer EXCEPT !.kyc = "SUSPENDED"]))

Recover ==
  /\ customer.kyc = "SUSPENDED"
  /\ Perform(SetCustomer([customer EXCEPT !.kyc = "VERIFIED"]))

Next ==
  \/ StartNew \/ StartAgain
  \/ /\ running
     /\ \/ \E p \in Phones : ChangePhone(p)
        \/ RequestReverification \/ Confirm \/ Suspend \/ Recover

Spec == Init /\ [][Next]_vars

-----------------------------------------------------------------------------
TypeOK ==
  /\ memory \in Stores /\ file \in Stores
  /\ \A s \in {memory, file} : Cardinality(s.customer) <= 1 /\ Cardinality(s.pending) <= 1
  /\ running \in BOOLEAN /\ (running => memory.customer # {})
  /\ stops \in 0..MaxStops /\ failedSaves \in 0..MaxFailedSaves

\* assertTransactionEligible, of a customer whose risk is normal.
Eligible(c) == c.kyc = "VERIFIED" /\ c.phoneStatus # "REVERIFICATION_REQUIRED"

\* A customer who may transact has confirmed a challenge for the phone they have
\* now, and the provider is never behind: a verified customer on file has a confirmed
\* request on file, and so has the reference that was recorded, whatever was changed,
\* suspended, retried or lost in between.
EligibleIsConfirmed ==
  /\ \A s \in {memory, file} : \A c \in s.customer : Eligible(c) => c.confirmed
  /\ \A c \in file.customer :
       /\ c.kyc = "VERIFIED" => \E i \in Ids : file.requests[i] = "VERIFIED"
       /\ c.reference # 0 => file.requests[c.reference] = "VERIFIED"

\* The plan's claim that a pending re-verification continues after a restart.
PendingSurvivesRestart ==
  running /\ failedSaves = 0 /\ memory.pending # {} =>
    memory.requests[ThePending(memory).id] = "PENDING"
=============================================================================
