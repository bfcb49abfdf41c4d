------------------------ MODULE AuditedRoutesProofs -------------------------
(***************************************************************************)
(* Proofs about AuditedRoutes, for calls of the two routes that are told   *)
(* apart.  A result that was recorded, or that a request is about to       *)
(* record, is the only one its transaction can still get: no checkout of   *)
(* it is under way, memory and file have that result or the intent, and    *)
(* the file has a record, so that none can be begun.                       *)
(***************************************************************************)
EXTENDS AuditedRoutes, PaymentGatewayReconciliationProofs, FiniteSetTheorems

Apart == Calls \cap Queries = {}

\* s was said of t, or is about to be.
Said(events, waiting, t, s) ==
  \/ Event("RESULT", t, s) \in events
  \/ s # "none" /\ \E c \in Calls : t \in waiting[c].transaction /\ s \in waiting[c].outcome

Quiet(calls, t) == \A c \in Calls : calls[c].stage # "idle" => \A r \in calls[c].request : r.transaction # t
Only(records, t, s) == \A k \in Keys : \A r \in records[k] : r.request.transaction = t => r.state \in {s, Intent}
Has(records, t) == \E k \in Keys : \E r \in records[k] : r.request.transaction = t

Final(calls, inMemory, onFile, t, s) ==
  Quiet(calls, t) /\ Only(inMemory, t, s) /\ Only(onFile, t, s) /\ Has(onFile, t)

Agreed(events, waiting, calls, inMemory, onFile) ==
  \A t \in Transactions : \A s : Said(events, waiting, t, s) =>
    /\ Final(calls, inMemory, onFile, t, s)
    /\ \A u : Said(events, waiting, t, u) => u = s

\* A result in memory has its request on file.
ResultsAreKnown(inMemory, onFile) ==
  \A k \in Keys : \A r \in inMemory[k] : r.state # Intent => \E q \in onFile[k] : q.request = r.request

\* A checkout under way has a request of the route waiting for it.
RoutesWait(events, waiting, calls) ==
  \A c \in Calls : calls[c].stage # "idle" =>
    \A r \in calls[c].request : waiting[c] = Waiting(r.transaction) /\ Event("SUBMITTED", r.transaction, "none") \in events

QueriesAnnounced(events, queries) ==
  \A q \in Queries : \A t \in queries[q].transaction : Event("QUERIED", t, "none") \in events

AInv ==
  /\ RInv /\ Apart
  /\ route = [x \in Calls \cup Queries |-> route[x]]
  /\ RoutesWait(log, route, call) /\ QueriesAnnounced(log, query) /\ ActsAreAnnounced
  /\ ResultsAreKnown(memory, file)
  /\ Agreed(log, route, call, memory, file)

-----------------------------------------------------------------------------
\* The gateway's and the service's side: a step of the routes is one of theirs, or
\* counts a failed save of the audit log.
LEMMA FaultsKeepRInv ==
  ASSUME RInv, UNCHANGED <<memory, file, call, network, posts, statusVars>>, faults' \in 0..MaxFaults
  PROVE  RInv'
<1>1. UNCHANGED <<status, statusFile, query, provider>>
  BY DEF statusVars
<1>2. TypeOK'
  BY DEF RInv, IInv, TypeOK
<1>3. IInv'
  BY <1>2 DEF RInv, IInv, Keeps, OneRecord, OneKey, CallsHoldTheirKey, CallsApart, NotPostedYet,
       AtMostOnePost, PostedIsOnFile
<1>4. TypeOKReconciliation'
  BY <1>1, <1>2 DEF RInv, TypeOKReconciliation
<1>. QED
  BY <1>1, <1>3, <1>4 DEF RInv, CallsPosted, AnsweredWasPosted, OneTransaction, QueriedWasPosted, AnswerIsTrue,
       TerminalIsTrue, StatusWasPosted

LEMMA RoutesKeepRInv ==
  ASSUME RInv, NextRoutes
  PROVE  RInv'
<1>1. ASSUME NEW c \in Calls, NEW request \in Requests, RouteCheckout(c, request) PROVE RInv'
  <2>1. CheckoutNext /\ UNCHANGED statusVars
    BY <1>1 DEF RouteCheckout, CheckoutNext
  <2>. QED
    BY <2>1, GatewayStep
<1>2. ASSUME NEW c \in Calls, AdapterStep(c) PROVE RInv'
  <2>1. CheckoutNext /\ UNCHANGED statusVars
    BY <1>2 DEF AdapterStep, CheckoutNext
  <2>. QED
    BY <2>1, GatewayStep
<1>3. ASSUME NEW q \in Queries, NEW t \in Transactions, NEW customer \in Variants, RouteQuery(q, t, customer) PROVE RInv'
  BY <1>3, AskStep, StutterRInv DEF RouteQuery, Recall
<1>4. ASSUME NEW q \in Queries, ServiceStep(q) PROVE RInv'
  BY <1>4, ProviderAnswersStep, RecordStep DEF ServiceStep
<1>5. ASSUME NEW x, Reply(x) PROVE RInv'
  <2>1. UNCHANGED <<memory, file, call, network, posts, statusVars>>
    BY <1>5 DEF Reply
  <2>2. faults' = faults \/ (faults < MaxFaults /\ faults' = faults + 1)
    BY <1>5 DEF Reply
  <2>3. faults \in 0..MaxFaults
    BY DEF RInv, IInv, TypeOK
  <2>. QED
    BY <2>1, <2>2, <2>3, FaultsKeepRInv, PaymentGatewayAssumption
<1>. QED
  BY <1>1, <1>2, <1>3, <1>4, <1>5, ConcludeStep, RestartBothStep DEF NextRoutes, RestartRoutes

-----------------------------------------------------------------------------
\* Who holds a record.
LEMMA Holders ==
  ASSUME RInv, NEW t
  PROVE  /\ \A k, l \in Keys : \A r \in memory[k], q \in memory[l] :
              r.request.transaction = t /\ q.request.transaction = t => k = l /\ r = q
         /\ \A k \in Keys : \A r \in file[k] : r.request.transaction = t =>
              \E q \in memory[k] : q.request = r.request /\ (r.state # Intent => q.state = r.state)
         /\ \A c \in Calls : call[c].stage # "idle" => \A r \in call[c].request :
              r \in Requests /\ memory[r.key] = Held(r) /\ file[r.key] = Held(r) /\ call[c].request = {r}
BY DEF RInv, IInv, OneRecord, OneKey, Keeps, CallsHoldTheirKey

\* Recording a request of another transaction leaves what is final as it is.
LEMMA RecordingElsewhere ==
  ASSUME RInv, NEW t, NEW s, Only(memory, t, s), Only(file, t, s), Has(file, t),
         NEW request \in Requests, NEW state, request.transaction # t,
         \A r \in memory[request.key] : r.request.transaction # t,
         memory' = Recorded(request, state), file' = file \/ file' = memory'
  PROVE  Only(memory', t, s) /\ Only(file', t, s) /\ Has(file', t)
<1>1. \A k \in Keys : k # request.key => memory'[k] = memory[k]
  BY DEF Recorded, RInv, IInv, TypeOK
<1>2. memory'[request.key] = {[request |-> request, state |-> state]}
  BY DEF Recorded, RInv, IInv, TypeOK, Requests
<1>3. Only(memory', t, s)
  BY <1>1, <1>2 DEF Only
<1>4. PICK k \in Keys : \E r \in file[k] : r.request.transaction = t
  BY DEF Has
<1>5. PICK q \in memory[k] : q.request.transaction = t
  BY <1>4, Holders
<1>6. k # request.key /\ q \in memory'[k]
  BY <1>1, <1>5
<1>7. Has(memory', t)
  BY <1>5, <1>6 DEF Has
<1>. QED
  BY <1>3, <1>7

\* Recording keeps the requests of results on file, if it found none but the intent
\* of its own under the key.
LEMMA RecordingKnown ==
  ASSUME RInv, ResultsAreKnown(memory, file), NEW request \in Requests, NEW state,
         memory' = Recorded(request, state), file' = file \/ file' = memory',
         state # Intent => \E q \in file[request.key] : q.request = request
  PROVE  ResultsAreKnown(memory', file')
<1>1. \A k \in Keys : k # request.key => memory'[k] = memory[k]
  BY DEF Recorded, RInv, IInv, TypeOK
<1>2. memory'[request.key] = {[request |-> request, state |-> state]}
  BY DEF Recorded, RInv, IInv, TypeOK, Requests
<1>. QED
  BY <1>1, <1>2 DEF ResultsAreKnown

-----------------------------------------------------------------------------
\* POST checkout.  A transaction with a final result has a record in memory, so that
\* no checkout of it begins.
LEMMA CheckoutFinal ==
  ASSUME RInv, NEW c \in Calls, NEW request \in Requests, Checkout(c, request), NEW t, NEW s,
         Final(call, memory, file, t, s)
  PROVE  Final(call', memory', file', t, s) /\ request.transaction # t
<1>1. /\ memory[request.key] = {} /\ KeysOf(request.transaction) \subseteq {request.key}
      /\ memory' = Recorded(request, Intent)
      /\ file' = file \/ file' = memory'
      /\ call' = call \/ call' = [call EXCEPT ![c] = [stage |-> "intended", request |-> {request}]]
  BY DEF Checkout, Admissible, Saved, NotSaved
<1>2. PICK k \in Keys : \E r \in file[k] : r.request.transaction = t
  BY DEF Final, Has
<1>3. PICK q \in memory[k] : q.request.transaction = t
  BY <1>2, Holders
<1>4. request.transaction # t
  BY <1>1, <1>3 DEF KeysOf
<1>5. Quiet(call', t)
  BY <1>1, <1>4 DEF Final, Quiet, RInv, IInv, TypeOK
<1>6. Only(memory', t, s) /\ Only(file', t, s) /\ Has(file', t)
  BY <1>1, <1>4, RecordingElsewhere DEF Final
<1>. QED
  BY <1>4, <1>5, <1>6 DEF Final

\* What a repetition is told is final: it is in memory, with nothing else there of its
\* transaction.
LEMMA ReplayIsFinal ==
  ASSUME AInv, NEW request \in Requests, Replay(request) # "none"
  PROVE  /\ Final(call, memory, file, request.transaction, Replay(request))
         /\ \A u : Only(memory, request.transaction, u) => u = Replay(request)
<1>1. PICK r \in memory[request.key] : r.request = request /\ r.state # Intent
  BY DEF Replay
<1>2. request.key \in Keys
  BY DEF Requests
<1>3. \A q \in memory[request.key] : q = r
  BY <1>1, <1>2 DEF AInv, RInv, IInv, OneRecord
<1>4. Replay(request) = r.state
  BY <1>1, <1>3 DEF Replay
<1>5. RInv /\ r.request.transaction = request.transaction
  BY <1>1 DEF AInv
<1>6. \A k \in Keys : \A q \in memory[k] : q.request.transaction = request.transaction => q = r
  BY <1>1, <1>2, <1>5, Holders
<1>7. \A d \in Calls : call[d].stage # "idle" => \A q \in call[d].request : q.transaction # request.transaction
  <2>. SUFFICES ASSUME NEW d \in Calls, call[d].stage # "idle", NEW q \in call[d].request,
                       q.transaction = request.transaction
                PROVE  FALSE
    OBVIOUS
  <2>1. q \in Requests /\ q.key \in Keys /\ memory[q.key] = Held(q)
    BY <1>5, Holders DEF Requests
  <2>2. [request |-> q, state |-> Intent] \in memory[q.key]
    BY <2>1 DEF Held
  <2>3. [request |-> q, state |-> Intent] = r
    BY <1>6, <2>1, <2>2
  <2>. QED
    BY <1>1, <2>3
<1>8. Only(memory, request.transaction, r.state)
  BY <1>6 DEF Only
<1>9. Only(file, request.transaction, r.state)
  <2>. SUFFICES ASSUME NEW k \in Keys, NEW q \in file[k], q.request.transaction = request.transaction
                PROVE  q.state \in {r.state, Intent}
    BY DEF Only
  <2>1. PICK p \in memory[k] : p.request = q.request /\ (q.state # Intent => p.state = q.state)
    BY <1>5, Holders
  <2>2. p = r
    BY <1>6, <2>1
  <2>. QED
    BY <2>1, <2>2
<1>10. Has(file, request.transaction)
  <2>1. PICK q \in file[request.key] : q.request = request
    BY <1>1, <1>2 DEF AInv, ResultsAreKnown
  <2>. QED
    BY <1>2, <2>1 DEF Has
<1>11. \A u : Only(memory, request.transaction, u) => u = r.state
  BY <1>1, <1>2, <1>5 DEF Only
<1>. QED
  BY <1>4, <1>7, <1>8, <1>9, <1>10, <1>11 DEF Final, Quiet

\* Agreement: whatever is said afterwards was said before, or is final and agrees.
LEMMA AgreedAfter ==
  ASSUME Agreed(log, route, call, memory, file),
         \A t \in Transactions : \A s : Said(log, route, t, s) => Final(call', memory', file', t, s),
         \A t \in Transactions : \A s : Said(log', route', t, s) => Said(log, route, t, s)
  PROVE  Agreed(log', route', call', memory', file')
BY DEF Agreed

LEMMA AgreedWithOne ==
  ASSUME Agreed(log, route, call, memory, file), NEW t0, NEW s0, Final(call', memory', file', t0, s0),
         \A u : Said(log, route, t0, u) => u = s0,
         \A t \in Transactions : \A s : Said(log, route, t, s) => Final(call', memory', file', t, s),
         \A t \in Transactions : \A s : Said(log', route', t, s) => Said(log, route, t, s) \/ (t = t0 /\ s = s0)
  PROVE  Agreed(log', route', call', memory', file')
BY DEF Agreed

\* What a change of one checkout's request makes of what is said.
LEMMA SaidAfter ==
  ASSUME route = [x \in Calls \cup Queries |-> route[x]], NEW c \in Calls, NEW t0, NEW outcomes,
         route' = [route EXCEPT ![c] = [transaction |-> {t0}, outcome |-> outcomes]],
         \A t, s : Event("RESULT", t, s) \in log' => Event("RESULT", t, s) \in log
  PROVE  \A t, s : Said(log', route', t, s) => Said(log, route, t, s) \/ (t = t0 /\ s \in outcomes /\ s # "none")
<1>1. route'[c] = [transaction |-> {t0}, outcome |-> outcomes] /\ \A d \in Calls : d # c => route'[d] = route[d]
  OBVIOUS
<1>. QED
  BY <1>1 DEF Said

LEMMA RouteCheckoutStep ==
  ASSUME AInv, NEW c \in Calls, NEW request \in Requests, RouteCheckout(c, request)
  PROVE  AInv'
<1>. DEFINE t0 == request.transaction
<1>1. /\ log' = log \cup {Event("SUBMITTED", t0, "none")} /\ UNCHANGED <<statusVars, told>> /\ call[c].stage = "idle"
      /\ Checkout(c, request) \/ Repeat(c, request)
  BY DEF RouteCheckout, Checkout, Repeat
<1>2. RInv /\ RInv'
  BY RoutesKeepRInv DEF AInv, NextRoutes
<1>3. PICK outcomes :
        /\ route' = [route EXCEPT ![c] = [transaction |-> {t0}, outcome |-> outcomes]]
        /\ call'[c] # Idle => outcomes = {}
        /\ call'[c] = Idle /\ Admissible(request) => outcomes = {"none"}
        /\ call'[c] = Idle /\ ~Admissible(request) => outcomes = {Replay(request)}
  <2>1. CASE call'[c] # Idle
    BY <2>1 DEF RouteCheckout, Waiting
  <2>2. CASE call'[c] = Idle /\ Admissible(request)
    BY <2>2 DEF RouteCheckout, Settled
  <2>3. CASE call'[c] = Idle /\ ~Admissible(request)
    BY <2>3 DEF RouteCheckout, Settled
  <2>. QED
    BY <2>1, <2>2, <2>3
<1>4. /\ route' = [x \in Calls \cup Queries |-> route'[x]]
      /\ route'[c] = [transaction |-> {t0}, outcome |-> outcomes]
      /\ \A d \in Calls : d # c => route'[d] = route[d]
  BY <1>3 DEF AInv
<1>5. \A t, s : Event("RESULT", t, s) \in log' => Event("RESULT", t, s) \in log
  BY <1>1 DEF Event
<1>6. \A t, s : Said(log', route', t, s) => Said(log, route, t, s) \/ (t = t0 /\ s \in outcomes /\ s # "none")
  BY <1>3, <1>5, SaidAfter DEF AInv
<1>7. QueriesAnnounced(log', query') /\ ActsAreAnnounced'
  <2>1. UNCHANGED <<posts, status, statusFile, query>>
    BY <1>1 DEF Checkout, Repeat, vars, statusVars
  <2>. QED
    BY <1>1, <2>1 DEF AInv, QueriesAnnounced, ActsAreAnnounced
<1>8. CASE Checkout(c, request)
  <2>1. Admissible(request) /\ memory' = Recorded(request, Intent) /\ (file' = file \/ file' = memory')
    BY <1>8 DEF Checkout, Saved, NotSaved
  <2>2. \A t, s : Said(log', route', t, s) => Said(log, route, t, s)
    BY <1>3, <1>6, <2>1
  <2>3. \A t \in Transactions : \A s : Said(log, route, t, s) => Final(call', memory', file', t, s)
    BY <1>2, <1>8, CheckoutFinal DEF AInv, Agreed
  <2>4. Agreed(log', route', call', memory', file')
    BY <2>2, <2>3, AgreedAfter DEF AInv
  <2>5. ResultsAreKnown(memory', file')
    BY <1>2, <2>1, RecordingKnown DEF AInv
  <2>6. RoutesWait(log', route', call')
    <3>1. call' = call \/ call' = [call EXCEPT ![c] = [stage |-> "intended", request |-> {request}]]
      BY <1>8 DEF Checkout
    <3>2. CASE call' = call
      BY <1>1, <1>4, <3>2 DEF AInv, RoutesWait
    <3>3. CASE call' = [call EXCEPT ![c] = [stage |-> "intended", request |-> {request}]]
      <4>1. call'[c] = [stage |-> "intended", request |-> {request}] /\ \A d \in Calls : d # c => call'[d] = call[d]
        BY <1>2, <3>3 DEF RInv, IInv, TypeOK
      <4>2. call'[c] # Idle
        BY <4>1 DEF Idle
      <4>3. route'[c] = Waiting(t0) /\ Event("SUBMITTED", t0, "none") \in log'
        BY <1>1, <1>3, <1>4, <4>2 DEF Waiting
      <4>. QED
        BY <1>1, <1>4, <4>1, <4>3 DEF AInv, RoutesWait
    <3>. QED
      BY <3>1, <3>2, <3>3
  <2>. QED
    BY <1>2, <1>4, <1>7, <2>4, <2>5, <2>6 DEF AInv
<1>9. CASE Repeat(c, request)
  <2>1. UNCHANGED <<memory, file, call>> /\ ~Admissible(request)
    BY <1>9 DEF Repeat, vars
  <2>2. RoutesWait(log', route', call') /\ ResultsAreKnown(memory', file')
    BY <1>1, <1>4, <2>1 DEF AInv, RoutesWait
  <2>3. \A t \in Transactions : \A s : Said(log, route, t, s) => Final(call', memory', file', t, s)
    BY <2>1 DEF AInv, Agreed
  <2>4. Agreed(log', route', call', memory', file')
    <3>1. CASE outcomes = {Replay(request)} /\ Replay(request) # "none"
      <4>1. Final(call', memory', file', t0, Replay(request))
        BY <2>1, <3>1, ReplayIsFinal
      <4>2. \A u : Said(log, route, t0, u) => u = Replay(request)
        BY <3>1, ReplayIsFinal DEF AInv, Agreed, Final, Requests
      <4>3. \A t \in Transactions : \A s :
              Said(log', route', t, s) => Said(log, route, t, s) \/ (t = t0 /\ s = Replay(request))
        BY <1>6, <3>1
      <4>. HIDE DEF t0
      <4>. QED
        BY <2>3, <4>1, <4>2, <4>3, AgreedWithOne DEF AInv
    <3>2. CASE outcomes = {} \/ outcomes = {"none"}
      BY <1>6, <2>3, <3>2, AgreedAfter DEF AInv
    <3>. QED
      BY <1>3, <2>1, <3>1, <3>2
  <2>. QED
    BY <1>2, <1>4, <1>7, <2>2, <2>4 DEF AInv
<1>. QED
  BY <1>1, <1>8, <1>9

-----------------------------------------------------------------------------
\* A checkout goes on.  Before it ends nothing is said of its transaction.
LEMMA UnderWay ==
  ASSUME AInv, NEW c \in Calls, call[c].stage # "idle"
  PROVE  \E r \in Requests :
           /\ call[c].request = {r} /\ route[c] = Waiting(r.transaction)
           /\ Event("SUBMITTED", r.transaction, "none") \in log
           /\ memory[r.key] = Held(r) /\ file[r.key] = Held(r)
           /\ \A s : ~Said(log, route, r.transaction, s)
<1>1. PICK r \in Requests : call[c].request = {r} /\ memory[r.key] = Held(r) /\ file[r.key] = Held(r)
  BY DEF AInv, RInv, IInv, CallsHoldTheirKey
<1>2. route[c] = Waiting(r.transaction) /\ Event("SUBMITTED", r.transaction, "none") \in log
  BY <1>1 DEF AInv, RoutesWait
<1>3. r.transaction \in Transactions
  BY DEF Requests
<1>4. ~Quiet(call, r.transaction)
  BY <1>1 DEF Quiet
<1>5. \A s : ~Said(log, route, r.transaction, s)
  BY <1>3, <1>4 DEF AInv, Agreed, Final
<1>. QED
  BY <1>1, <1>2, <1>5

\* It does not end with a result.
LEMMA AdapterGoesOn ==
  ASSUME AInv, NEW c \in Calls, AdapterStep(c), NetworkDisabled(c) \/ Post(c) \/ Answer(c)
  PROVE  AInv'
<1>1. /\ UNCHANGED <<memory, file, statusVars, log, told>> /\ call[c].stage # "idle"
      /\ \A d \in Calls : d # c => call'[d] = call[d]
      /\ call'[c] = Idle \/ (call'[c].request = call[c].request /\ call'[c] # Idle)
  <2>1. call \in [Calls -> [stage : {"idle", "intended", "posted", "answered"}, request : SUBSET Requests]]
    BY DEF AInv, RInv, IInv, TypeOK
  <2>2. /\ UNCHANGED <<memory, file, statusVars, log, told>> /\ call[c].stage # "idle"
        /\ \E s \in {"posted", "answered"} : call' = [call EXCEPT ![c] = Idle] \/ call' = [call EXCEPT ![c].stage = s]
    BY DEF AdapterStep, NetworkDisabled, Post, Answer
  <2>3. CASE call' = [call EXCEPT ![c] = Idle]
    BY <2>1, <2>2, <2>3
  <2>4. ASSUME NEW s \in {"posted", "answered"}, call' = [call EXCEPT ![c].stage = s]
        PROVE  call'[c].stage = s /\ call'[c].request = call[c].request /\ \A d \in Calls : d # c => call'[d] = call[d]
    BY <2>1, <2>4
  <2>. QED
    BY <2>2, <2>3, <2>4 DEF Idle
<1>2. RInv /\ RInv'
  BY RoutesKeepRInv DEF AInv, NextRoutes
<1>3. PICK r \in Requests :
        /\ call[c].request = {r} /\ route[c] = Waiting(r.transaction)
        /\ Event("SUBMITTED", r.transaction, "none") \in log
  BY <1>1, UnderWay
<1>4. /\ call'[c] # Idle => route' = route
      /\ call'[c] = Idle => route' = [route EXCEPT ![c] = [transaction |-> {r.transaction}, outcome |-> {"none"}]]
  BY <1>1, <1>3 DEF AdapterStep, Waiting, Settled
<1>5. \A t, s : Said(log', route', t, s) => Said(log, route, t, s)
  <2>1. CASE call'[c] # Idle
    BY <1>1, <1>4, <2>1
  <2>2. CASE call'[c] = Idle
    <3>1. \A t, s : Event("RESULT", t, s) \in log' => Event("RESULT", t, s) \in log
      BY <1>1
    <3>2. route'[c].outcome = {"none"} /\ \A d \in Calls : d # c => route'[d] = route[d]
      <4>1. route = [x \in Calls \cup Queries |-> route[x]]
        BY DEF AInv
      <4>. QED
        BY <1>4, <2>2, <4>1
    <3>. QED
      BY <3>1, <3>2 DEF Said
  <2>. QED
    BY <2>1, <2>2
<1>6. route' = [x \in Calls \cup Queries |-> route'[x]] /\ \A d \in Calls : d # c => route'[d] = route[d]
  BY <1>4 DEF AInv
<1>7. RoutesWait(log', route', call')
  <2>1. CASE call'[c] # Idle
    BY <1>1, <1>3, <1>4, <2>1 DEF AInv, RoutesWait
  <2>2. CASE call'[c] = Idle
    BY <1>1, <1>6, <2>2 DEF AInv, RoutesWait, Idle
  <2>. QED
    BY <2>1, <2>2
<1>8. \A t \in Transactions : \A s : Said(log, route, t, s) => Final(call', memory', file', t, s)
  <2>. SUFFICES ASSUME NEW t \in Transactions, NEW s, Said(log, route, t, s)
                PROVE  Quiet(call', t) /\ Only(memory, t, s) /\ Only(file, t, s) /\ Has(file, t)
    BY <1>1 DEF Final
  <2>1. Final(call, memory, file, t, s)
    BY DEF AInv, Agreed
  <2>2. Quiet(call', t)
    BY <1>1, <2>1 DEF Final, Quiet, Idle
  <2>. QED
    BY <2>1, <2>2 DEF Final
<1>9. Agreed(log', route', call', memory', file')
  BY <1>5, <1>8, AgreedAfter DEF AInv
<1>10. \A t \in Transactions : posts'[t] > 0 => posts[t] > 0 \/ t = r.transaction
  BY <1>3 DEF NetworkDisabled, Post, Answer
<1>11. ActsAreAnnounced'
  BY <1>1, <1>3, <1>10 DEF AInv, ActsAreAnnounced, statusVars
<1>12. QueriesAnnounced(log', query') /\ ResultsAreKnown(memory', file')
  BY <1>1 DEF AInv, statusVars
<1>. QED
  BY <1>2, <1>6, <1>7, <1>9, <1>11, <1>12 DEF AInv

\* It ends: its result is final once it has been saved, and otherwise not said.
LEMMA AdapterResponds ==
  ASSUME AInv, NEW c \in Calls, AdapterStep(c), Respond(c)
  PROVE  AInv'
<1>1. /\ UNCHANGED <<posts, statusVars, log, told>> /\ call[c].stage # "idle"
      /\ call' = [call EXCEPT ![c] = Idle]
  BY DEF AdapterStep, Respond
<1>2. RInv /\ RInv'
  BY RoutesKeepRInv DEF AInv, NextRoutes
<1>3. PICK r \in Requests :
        /\ call[c].request = {r} /\ route[c] = Waiting(r.transaction)
        /\ memory[r.key] = Held(r) /\ file[r.key] = Held(r)
        /\ \A s : ~Said(log, route, r.transaction, s)
  BY <1>1, UnderWay
<1>4. r.key \in Keys /\ r.transaction \in Transactions
  BY DEF Requests
<1>5. PICK state : memory' = Recorded(r, state) /\ (file' = file \/ file' = memory')
  BY <1>3 DEF Respond, Saved, NotSaved
<1>6. memory'[r.key] = {[request |-> r, state |-> state]}
  BY <1>2, <1>4, <1>5 DEF Recorded, RInv, IInv, TypeOK
<1>17. \E q \in memory'[r.key] : q.request = r /\ q.state = state
  BY <1>6
<1>18. \E q \in memory[r.key] : q.request = r
  BY <1>3 DEF Held
<1>7. call'[c] = Idle /\ \A d \in Calls : d # c => call'[d] = call[d]
  BY <1>1, <1>2 DEF RInv, IInv, TypeOK
<1>8. PICK s0 : /\ route' = [route EXCEPT ![c] = [transaction |-> {r.transaction}, outcome |-> {s0}]]
                /\ s0 # "none" => file' = memory' /\ s0 \in Recorded1(r.transaction)
  BY <1>3, <1>7 DEF AdapterStep, Waiting, Settled
<1>9. route' = [x \in Calls \cup Queries |-> route'[x]] /\ \A d \in Calls : d # c => route'[d] = route[d]
  BY <1>8 DEF AInv
<1>10. \A t, s : Said(log', route', t, s) => Said(log, route, t, s) \/ (t = r.transaction /\ s = s0 /\ s # "none")
  <2>1. \A t, s : Event("RESULT", t, s) \in log' => Event("RESULT", t, s) \in log
    BY <1>1
  <2>2. PICK outcomes : outcomes = {s0} /\ route' = [route EXCEPT ![c] = [transaction |-> {r.transaction}, outcome |-> outcomes]]
    BY <1>8
  <2>3. \A t, s : Said(log', route', t, s) => Said(log, route, t, s) \/ (t = r.transaction /\ s \in outcomes /\ s # "none")
    BY <2>1, <2>2, SaidAfter DEF AInv
  <2>. QED
    BY <2>2, <2>3
<1>11. \A t \in Transactions : \A s : Said(log, route, t, s) => Final(call', memory', file', t, s)
  <2>. SUFFICES ASSUME NEW t \in Transactions, NEW s, Said(log, route, t, s)
                PROVE  Final(call', memory', file', t, s)
    OBVIOUS
  <2>1. Final(call, memory, file, t, s) /\ r.transaction # t
    BY <1>3 DEF AInv, Agreed
  <2>2. \A q \in memory[r.key] : q.request.transaction # t
    BY <1>3, <2>1 DEF Held
  <2>3. Only(memory', t, s) /\ Only(file', t, s) /\ Has(file', t)
    BY <1>2, <1>5, <2>1, <2>2, RecordingElsewhere DEF Final
  <2>4. Quiet(call', t)
    BY <1>7, <2>1 DEF Final, Quiet, Idle
  <2>. QED
    BY <2>3, <2>4 DEF Final
<1>12. s0 # "none" => Final(call', memory', file', r.transaction, s0)
  <2>. SUFFICES ASSUME s0 # "none" PROVE Final(call', memory', file', r.transaction, s0)
    OBVIOUS
  <2>1. \A k \in Keys : \A q \in memory'[k] : q.request.transaction = r.transaction => k = r.key
    BY <1>2, <1>4, <1>17 DEF RInv, IInv, OneKey
  <2>2. \A k \in Keys : \A q \in memory'[k] : q.request.transaction = r.transaction => q.state = state
    BY <1>6, <2>1
  <2>3. s0 = state
    BY <1>8, <2>2 DEF Recorded1
  <2>4. Only(memory', r.transaction, s0) /\ file' = memory'
    BY <1>8, <2>2, <2>3 DEF Only
  <2>5. Has(file', r.transaction)
    BY <1>4, <1>17, <2>4 DEF Has
  <2>6. Quiet(call', r.transaction)
    <3>. SUFFICES ASSUME NEW d \in Calls, call'[d].stage # "idle", NEW q \in call'[d].request,
                         q.transaction = r.transaction
                  PROVE  FALSE
      BY DEF Quiet
    <3>1. d # c /\ call'[d] = call[d]
      BY <1>7 DEF Idle
    <3>2. q \in Requests /\ memory[q.key] = Held(q)
      BY <1>2, <3>1, Holders
    <3>3. q.key \in Keys /\ \E p \in memory[q.key] : p.request = q
      BY <3>2 DEF Held, Requests
    <3>4. q.key = r.key
      BY <1>2, <1>4, <1>18, <3>3 DEF RInv, IInv, OneKey
    <3>. QED
      BY <1>1, <1>2, <1>3, <3>1, <3>4 DEF RInv, IInv, CallsApart
  <2>. QED
    BY <2>4, <2>5, <2>6 DEF Final
<1>13. Agreed(log', route', call', memory', file')
  <2>1. CASE s0 # "none"
    <3>1. \A u : Said(log, route, r.transaction, u) => u = s0
      BY <1>3
    <3>. QED
      BY <1>10, <1>11, <1>12, <2>1, <3>1, AgreedWithOne DEF AInv
  <2>2. CASE s0 = "none"
    BY <1>10, <1>11, <2>2, AgreedAfter DEF AInv
  <2>. QED
    BY <2>1, <2>2
<1>14. RoutesWait(log', route', call')
  BY <1>1, <1>7, <1>9 DEF AInv, RoutesWait, Idle
<1>15. ResultsAreKnown(memory', file')
  <2>1. [request |-> r, state |-> Intent] \in file[r.key]
    BY <1>3 DEF Held
  <2>2. \E q \in file[r.key] : q.request = r
    BY <2>1
  <2>. QED
    BY <1>2, <1>5, <2>2, RecordingKnown DEF AInv
<1>16. QueriesAnnounced(log', query') /\ ActsAreAnnounced'
  BY <1>1 DEF AInv, QueriesAnnounced, ActsAreAnnounced, statusVars
<1>. QED
  BY <1>2, <1>9, <1>13, <1>14, <1>15, <1>16 DEF AInv

-----------------------------------------------------------------------------
\* The steps that leave the gateway's records and calls as they are.
LEMMA QuietStep ==
  ASSUME AInv, RInv', UNCHANGED <<memory, file, call, posts>>,
         route' = [x \in Calls \cup Queries |-> route'[x]],
         \A c \in Calls : route'[c] = route[c] \/ (route'[c] = NoRoute /\ route[c].outcome # {}),
         log \subseteq log',
         \A t, s : Event("RESULT", t, s) \in log' => Said(log, route, t, s),
         QueriesAnnounced(log', query'),
         \A t \in Transactions : status'[t] \cup statusFile'[t] # {} => Event("QUERIED", t, "none") \in log'
  PROVE  AInv'
<1>1. \A t, s : Said(log', route', t, s) => Said(log, route, t, s)
  BY DEF Said, NoRoute
<1>2. \A t \in Transactions : \A s : Said(log, route, t, s) => Final(call', memory', file', t, s)
  BY DEF AInv, Agreed
<1>3. Agreed(log', route', call', memory', file')
  BY <1>1, <1>2, AgreedAfter DEF AInv
<1>4. RoutesWait(log', route', call')
  BY DEF AInv, RoutesWait, Waiting
<1>5. ActsAreAnnounced'
  BY DEF AInv, ActsAreAnnounced
<1>6. ResultsAreKnown(memory', file')
  BY DEF AInv
<1>. QED
  BY <1>3, <1>4, <1>5, <1>6 DEF AInv

LEMMA ReplyStep ==
  ASSUME AInv, NEW x \in Calls \cup Queries, Reply(x)
  PROVE  AInv'
<1>1. UNCHANGED <<memory, file, call, posts, status, statusFile, query>> /\ route' = [route EXCEPT ![x] = NoRoute]
  BY DEF Reply, statusVars
<1>2. RInv'
  BY RoutesKeepRInv DEF AInv, NextRoutes
<1>3. PICK t0 \in route[x].transaction, outcome \in route[x].outcome :
        \/ outcome # "none" /\ log' = log \cup {Event(ResultAction(x), t0, outcome)}
        \/ log' = log \cup {Event(RejectedAction(x), t0, "none")}
        \/ outcome # "none" /\ log' = log \cup {Event(ResultAction(x), t0, outcome), Event(RejectedAction(x), t0, "none")}
  BY DEF Reply
<1>4. /\ route' = [y \in Calls \cup Queries |-> route'[y]]
      /\ \A c \in Calls : route'[c] = route[c] \/ (route'[c] = NoRoute /\ route[c].outcome # {})
  BY <1>1, <1>3 DEF AInv
<1>5. \A t, s : Event("RESULT", t, s) \in log' => Said(log, route, t, s)
  <2>1. CASE x \in Calls
    BY <1>3, <2>1 DEF Said, Event, ResultAction, RejectedAction
  <2>2. CASE x \notin Calls
    BY <1>3, <2>2 DEF Said, Event, ResultAction, RejectedAction
  <2>. QED
    BY <2>1, <2>2
<1>6. log \subseteq log'
  BY <1>3
<1>7. QueriesAnnounced(log', query')
  BY <1>1, <1>6 DEF AInv, QueriesAnnounced
<1>8. \A t \in Transactions : status'[t] \cup statusFile'[t] # {} => Event("QUERIED", t, "none") \in log'
  BY <1>1, <1>6 DEF AInv, ActsAreAnnounced
<1>. QED
  BY <1>1, <1>2, <1>4, <1>5, <1>6, <1>7, <1>8, QuietStep

\* A query announces its transaction before the service may ask for it.
LEMMA RouteQueryStep ==
  ASSUME AInv, NEW q \in Queries, NEW t0 \in Transactions, NEW customer \in Variants, RouteQuery(q, t0, customer)
  PROVE  AInv'
<1>1. log' = log \cup {Event("QUERIED", t0, "none")}
  BY DEF RouteQuery
<1>2. UNCHANGED <<memory, file, call, posts, status, statusFile>>
      /\ (query' = query \/ query' = [query EXCEPT ![q].transaction = {t0}])
  BY DEF RouteQuery, Ask, Recall, allVars, vars, statusVars
<1>3. \E new : route' = [route EXCEPT ![q] = new]
  BY DEF RouteQuery
<1>4. /\ route' = [y \in Calls \cup Queries |-> route'[y]]
      /\ \A c \in Calls : route'[c] = route[c]
  BY <1>3 DEF AInv, Apart
<1>5. RInv /\ RInv'
  BY RoutesKeepRInv DEF AInv, NextRoutes
<1>6. \A t, s : Event("RESULT", t, s) \in log' => Said(log, route, t, s)
  BY <1>1 DEF Said, Event
<1>7. QueriesAnnounced(log', query')
  <2>1. CASE query' = query
    BY <1>1, <2>1 DEF AInv, QueriesAnnounced
  <2>2. CASE query' = [query EXCEPT ![q].transaction = {t0}]
    <3>1. query'[q].transaction = {t0} /\ \A p \in Queries : p # q => query'[p] = query[p]
      BY <1>5, <2>2 DEF RInv, TypeOKReconciliation
    <3>. QED
      BY <1>1, <3>1 DEF AInv, QueriesAnnounced
  <2>. QED
    BY <1>2, <2>1, <2>2
<1>8. \A t \in Transactions : status'[t] \cup statusFile'[t] # {} => Event("QUERIED", t, "none") \in log'
  BY <1>1, <1>2 DEF AInv, ActsAreAnnounced
<1>. QED
  BY <1>1, <1>2, <1>4, <1>5, <1>6, <1>7, <1>8, QuietStep

LEMMA ServiceStepStep ==
  ASSUME AInv, NEW q \in Queries, ServiceStep(q)
  PROVE  AInv'
<1>1. log' = log /\ UNCHANGED <<memory, file, call, posts>>
  BY DEF ServiceStep, ProviderAnswers, Record, vars
<1>2. RInv /\ RInv'
  BY RoutesKeepRInv DEF AInv, NextRoutes
<1>3. route' = route \/ \E new : route' = [route EXCEPT ![q] = new]
  BY DEF ServiceStep
<1>4. /\ route' = [y \in Calls \cup Queries |-> route'[y]]
      /\ \A c \in Calls : route'[c] = route[c]
  BY <1>3 DEF AInv, Apart
<1>5. \A t, s : Event("RESULT", t, s) \in log' => Said(log, route, t, s)
  BY <1>1 DEF Said
<1>6. CASE ProviderAnswers(q)
  <2>1. status' = status /\ statusFile' = statusFile /\ \E s : query' = [query EXCEPT ![q].answer = {s}]
    BY <1>6 DEF ProviderAnswers
  <2>2. \A p \in Queries : query'[p].transaction = query[p].transaction
    BY <1>2, <2>1 DEF RInv, TypeOKReconciliation
  <2>3. QueriesAnnounced(log', query')
    BY <1>1, <2>2 DEF AInv, QueriesAnnounced
  <2>4. \A t \in Transactions : status'[t] \cup statusFile'[t] # {} => Event("QUERIED", t, "none") \in log'
    BY <1>1, <2>1 DEF AInv, ActsAreAnnounced
  <2>. QED
    BY <1>1, <1>2, <1>4, <1>5, <2>3, <2>4, QuietStep
<1>7. CASE Record(q)
  <2>1. PICK t0 \in query[q].transaction : \E s : status' = [status EXCEPT ![t0] = {s}]
    BY <1>7 DEF Record
  <2>2. query' = [query EXCEPT ![q] = NoQuery] /\ statusFile' \in {statusFile, status'}
    BY <1>7 DEF Record
  <2>3. \A t \in Transactions : t # t0 => status'[t] = status[t]
    BY <1>2, <2>1 DEF RInv, TypeOKReconciliation
  <2>4. Event("QUERIED", t0, "none") \in log
    BY <2>1 DEF AInv, QueriesAnnounced
  <2>5. \A t \in Transactions : status'[t] \cup statusFile'[t] # {} => Event("QUERIED", t, "none") \in log'
    BY <1>1, <2>2, <2>3, <2>4 DEF AInv, ActsAreAnnounced
  <2>6. query'[q] = NoQuery /\ \A p \in Queries : p # q => query'[p] = query[p]
    BY <1>2, <2>2 DEF RInv, TypeOKReconciliation
  <2>7. QueriesAnnounced(log', query')
    BY <1>1, <2>6 DEF AInv, QueriesAnnounced, NoQuery
  <2>. QED
    BY <1>1, <1>2, <1>4, <1>5, <2>5, <2>7, QuietStep
<1>. QED
  BY <1>6, <1>7 DEF ServiceStep

LEMMA ConcludeRoutesStep ==
  ASSUME AInv, NEW t0 \in Transactions, Conclude(t0), UNCHANGED routeVars
  PROVE  AInv'
<1>1. UNCHANGED <<memory, file, call, posts, status, statusFile, query, log, route>>
  BY DEF Conclude, vars, routeVars
<1>2. RInv'
  BY RoutesKeepRInv DEF AInv, NextRoutes
<1>. QED
  BY <1>1, <1>2 DEF AInv, ActsAreAnnounced

\* A stop forgets the requests under way and what was not on file; what was said
\* stays final.
LEMMA RestartRoutesStep ==
  ASSUME AInv, RestartRoutes
  PROVE  AInv'
<1>1. /\ memory' = file /\ call' = [c \in Calls |-> Idle] /\ UNCHANGED <<file, posts, statusFile>>
      /\ status' = statusFile /\ query' = [q \in Queries |-> NoQuery]
      /\ route' = [x \in Calls \cup Queries |-> NoRoute]
  BY DEF RestartRoutes, RestartBoth, Restart
<1>2. RInv'
  BY RoutesKeepRInv DEF AInv, NextRoutes
<1>3. log \subseteq log' /\ \A t, s : Event("RESULT", t, s) \in log' => Event("RESULT", t, s) \in log
  BY DEF RestartRoutes, Event
<1>4. \A t, s : Said(log', route', t, s) => Said(log, route, t, s)
  BY <1>1, <1>3 DEF Said, NoRoute
<1>5. \A t \in Transactions : \A s : Said(log, route, t, s) => Final(call', memory', file', t, s)
  BY <1>1 DEF AInv, Agreed, Final, Quiet, Idle
<1>6. Agreed(log', route', call', memory', file')
  BY <1>4, <1>5, AgreedAfter DEF AInv
<1>7. RoutesWait(log', route', call')
  BY <1>1 DEF RoutesWait, Idle
<1>8. QueriesAnnounced(log', query')
  BY <1>1 DEF QueriesAnnounced, NoQuery
<1>9. ActsAreAnnounced'
  BY <1>1, <1>3 DEF AInv, ActsAreAnnounced
<1>10. ResultsAreKnown(memory', file')
  BY <1>1 DEF ResultsAreKnown
<1>. QED
  BY <1>1, <1>2, <1>6, <1>7, <1>8, <1>9, <1>10 DEF AInv

LEMMA NextAInv == AInv /\ [NextRoutes]_routedVars => AInv'
<1>. SUFFICES ASSUME AInv, [NextRoutes]_routedVars PROVE AInv'
  OBVIOUS
<1>1. CASE UNCHANGED routedVars
  <2>1. UNCHANGED allVars /\ UNCHANGED <<log, route>>
    BY <1>1 DEF routedVars, routeVars
  <2>2. RInv'
    BY <2>1, StutterRInv DEF AInv
  <2>. QED
    BY <2>1, <2>2 DEF AInv, allVars, vars, statusVars, ActsAreAnnounced
<1>2. CASE NextRoutes
  <2>1. ASSUME NEW c \in Calls, AdapterStep(c) PROVE AInv'
    BY <2>1, AdapterGoesOn, AdapterResponds DEF AdapterStep
  <2>. QED
    BY <1>2, <2>1, RouteCheckoutStep, RouteQueryStep, ServiceStepStep, ReplyStep, ConcludeRoutesStep,
       RestartRoutesStep DEF NextRoutes
<1>. QED
  BY <1>1, <1>2

LEMMA InitAInv == Apart /\ InitRoutes => AInv
<1>. SUFFICES ASSUME Apart, InitRoutes PROVE AInv
  OBVIOUS
<1>1. RInv
  BY InitRInv DEF InitRoutes
<1>2. /\ log = {} /\ route = [x \in Calls \cup Queries |-> NoRoute]
      /\ memory = [k \in Keys |-> {}] /\ file = memory /\ call = [c \in Calls |-> Idle]
      /\ posts = [t \in Transactions |-> 0] /\ query = [q \in Queries |-> NoQuery]
      /\ status = [t \in Transactions |-> {}] /\ statusFile = status
  BY DEF InitRoutes, InitReconciliation, Init
<1>3. \A t, s : ~Said(log, route, t, s)
  BY <1>2 DEF Said, NoRoute
<1>4. Agreed(log, route, call, memory, file)
  BY <1>3 DEF Agreed
<1>5. RoutesWait(log, route, call) /\ QueriesAnnounced(log, query) /\ ActsAreAnnounced /\ ResultsAreKnown(memory, file)
  BY <1>2 DEF RoutesWait, QueriesAnnounced, ActsAreAnnounced, ResultsAreKnown, Idle, NoQuery
<1>. QED
  BY <1>1, <1>2, <1>4, <1>5 DEF AInv

-----------------------------------------------------------------------------
\* The log has nothing but events.
OnlyEvents == \A e \in log : \E a, t, s : e = Event(a, t, s)

LEMMA NextOnlyEvents == OnlyEvents /\ [NextRoutes]_routedVars => OnlyEvents'
<1>. SUFFICES ASSUME OnlyEvents, [NextRoutes]_routedVars PROVE OnlyEvents'
  OBVIOUS
<1>1. \A e \in log' : e \in log \/ \E a, t, s : e = Event(a, t, s)
  <2>1. ASSUME NEW x, Reply(x) PROVE \A e \in log' : e \in log \/ \E a, t, s : e = Event(a, t, s)
    BY <2>1 DEF Reply
  <2>2. ASSUME NEW c, NEW request, RouteCheckout(c, request)
        PROVE  \A e \in log' : e \in log \/ \E a, t, s : e = Event(a, t, s)
    BY <2>2 DEF RouteCheckout
  <2>3. ASSUME NEW q, NEW t, NEW customer, RouteQuery(q, t, customer)
        PROVE  \A e \in log' : e \in log \/ \E a, u, s : e = Event(a, u, s)
    BY <2>3 DEF RouteQuery
  <2>4. CASE RestartRoutes
    BY <2>4 DEF RestartRoutes
  <2>5. CASE UNCHANGED log
    BY <2>5
  <2>. QED
    BY <2>1, <2>2, <2>3, <2>4, <2>5 DEF NextRoutes, AdapterStep, ServiceStep, routeVars, routedVars
<1>. QED
  BY <1>1 DEF OnlyEvents

\* The audit log agrees with the gateway's file and announces what is done.
LEMMA AuditAgrees == AInv /\ OnlyEvents => AuditAgreesWithGateway /\ ActsAreAnnounced
<1>. SUFFICES ASSUME AInv, OnlyEvents, NEW t \in Transactions
              PROVE  LET said == {e.state : e \in {d \in log : d.action = "RESULT" /\ d.transaction = t}} IN
                       /\ Cardinality(said) <= 1
                       /\ \A k \in Keys : \A r \in file[k] :
                            r.request.transaction = t /\ said # {} => r.state \in said \cup {Intent}
  BY DEF AInv, AuditAgreesWithGateway
<1>. DEFINE said == {e.state : e \in {d \in log : d.action = "RESULT" /\ d.transaction = t}}
<1>1. \A s \in said : Said(log, route, t, s)
  <2>. SUFFICES ASSUME NEW e \in log, e.action = "RESULT", e.transaction = t PROVE Said(log, route, t, e.state)
    OBVIOUS
  <2>1. e = Event("RESULT", t, e.state)
    BY DEF OnlyEvents, Event
  <2>. QED
    BY <2>1 DEF Said
<1>2. \A s, u \in said : s = u
  BY <1>1 DEF AInv, Agreed
<1>3. \A s \in said : Only(file, t, s)
  BY <1>1 DEF AInv, Agreed, Final
<1>. HIDE DEF said
<1>4. Cardinality(said) <= 1
  <2>1. CASE said = {}
    BY <2>1, FS_EmptySet
  <2>2. ASSUME NEW s \in said PROVE Cardinality(said) = 1
    <3>1. said = {s}
      BY <1>2
    <3>. QED
      BY <3>1, FS_Singleton
  <2>. QED
    BY <2>1, <2>2
<1>5. \A k \in Keys : \A r \in file[k] : r.request.transaction = t /\ said # {} => r.state \in said \cup {Intent}
  BY <1>3 DEF Only
<1>. QED
  BY <1>4, <1>5 DEF said

\* Audit: a result event is the result on file, or the file has the intent, and no two
\* differ, for every number of calls, keys, transactions, faults and restarts.
THEOREM AuditIsTrue ==
  ASSUME Apart
  PROVE  SpecRoutes => [](AuditAgreesWithGateway /\ ActsAreAnnounced)
<1>1. SpecRoutes => []AInv
  BY InitAInv, NextAInv, PTL DEF SpecRoutes
<1>2. InitRoutes => OnlyEvents
  BY DEF InitRoutes, OnlyEvents
<1>3. SpecRoutes => []OnlyEvents
  BY <1>2, NextOnlyEvents, PTL DEF SpecRoutes
<1>. QED
  BY <1>1, <1>3, AuditAgrees, PTL
-----------------------------------------------------------------------------
\* The types of the routes: what is on file are events of the two routes, and a
\* request that waits has at most one transaction and one outcome.
RouteEvents == UNION {CheckoutEvents(t) \cup QueryEvents(t) : t \in Transactions}
OutcomesOf(x) == {"none"} \cup IF x \in Calls THEN Outcomes ELSE Statuses
RoutesOf(x) ==
  [transaction : {{}} \cup {{t} : t \in Transactions}, outcome : {{}} \cup {{s} : s \in OutcomesOf(x)}]
RoutesTyped ==
  log \subseteq RouteEvents /\ told \subseteq log /\ \A x \in Calls \cup Queries : route[x] \in RoutesOf(x)

LEMMA EventsOfRoutes ==
  ASSUME NEW t \in Transactions
  PROVE  /\ \A a \in {"SUBMITTED", "REJECTED", "QUERIED", "QUERY_REJECTED"} : Event(a, t, "none") \in RouteEvents
         /\ \A s \in Outcomes : Event("RESULT", t, s) \in RouteEvents
         /\ \A s \in Statuses : Event("QUERY_RESULT", t, s) \in RouteEvents
<1>1. CheckoutEvents(t) \cup QueryEvents(t) \subseteq RouteEvents
  BY DEF RouteEvents
<1>2. /\ \A a \in {"SUBMITTED", "REJECTED"} : Event(a, t, "none") \in CheckoutEvents(t)
      /\ \A s \in Outcomes : Event("RESULT", t, s) \in CheckoutEvents(t)
  BY DEF CheckoutEvents
<1>3. /\ \A a \in {"QUERIED", "QUERY_REJECTED"} : Event(a, t, "none") \in QueryEvents(t)
      /\ \A s \in Statuses : Event("QUERY_RESULT", t, s) \in QueryEvents(t)
  BY DEF QueryEvents
<1>. QED
  BY <1>1, <1>2, <1>3

\* A request changes to one of its kind.
LEMMA RouteChanges ==
  ASSUME AInv, RoutesTyped, NEW x \in Calls \cup Queries, NEW new \in RoutesOf(x),
         route' = [route EXCEPT ![x] = new], log' \subseteq RouteEvents, told' \subseteq log'
  PROVE  RoutesTyped'
<1>1. \A y \in Calls \cup Queries : route'[y] = IF y = x THEN new ELSE route[y]
  BY DEF AInv
<1>. QED
  BY <1>1 DEF RoutesTyped

LEMMA WaitingIsTyped ==
  ASSUME NEW x, NEW t \in Transactions
  PROVE  /\ Waiting(t) \in RoutesOf(x) /\ NoRoute \in RoutesOf(x)
         /\ \A s \in OutcomesOf(x) : Settled(t, s) \in RoutesOf(x)
BY DEF Waiting, NoRoute, Settled, RoutesOf

LEMMA RouteCheckoutTypes ==
  ASSUME AInv, RoutesTyped, NEW c \in Calls, NEW request \in Requests, RouteCheckout(c, request)
  PROVE  RoutesTyped'
<1>1. request.transaction \in Transactions /\ request.key \in Keys
  BY DEF Requests
<1>2. log' \subseteq RouteEvents /\ told' \subseteq log'
  <2>1. Event("SUBMITTED", request.transaction, "none") \in RouteEvents
    BY <1>1, EventsOfRoutes
  <2>. QED
    BY <2>1 DEF RouteCheckout, RoutesTyped
<1>3. Replay(request) \in OutcomesOf(c)
  <2>1. CASE Replay(request) = "none"
    BY <2>1 DEF OutcomesOf
  <2>2. CASE Replay(request) # "none"
    <3>1. PICK r \in memory[request.key] : r.request = request /\ r.state # Intent
      BY <2>2 DEF Replay
    <3>2. \A q \in memory[request.key] : q = r
      BY <1>1, <3>1 DEF AInv, RInv, IInv, OneRecord
    <3>3. Replay(request) = r.state
      BY <3>1, <3>2 DEF Replay
    <3>4. r \in Records
      BY <1>1 DEF AInv, RInv, IInv, TypeOK
    <3>. QED
      BY <3>1, <3>3, <3>4 DEF Records, OutcomesOf
  <2>. QED
    BY <2>1, <2>2
<1>4. PICK new \in RoutesOf(c) : route' = [route EXCEPT ![c] = new]
  <2>1. PICK new : /\ route' = [route EXCEPT ![c] = new]
                   /\ \/ new = Waiting(request.transaction)
                      \/ \E s \in {"none", Replay(request)} : new = Settled(request.transaction, s)
    BY DEF RouteCheckout
  <2>2. "none" \in OutcomesOf(c)
    BY DEF OutcomesOf
  <2>3. new \in RoutesOf(c)
    BY <1>1, <1>3, <2>1, <2>2, WaitingIsTyped
  <2>. QED
    BY <2>1, <2>3
<1>. QED
  BY <1>2, <1>4, RouteChanges

\* The record that the adapter leaves is the only one of its transaction.
LEMMA RecordedIsOutcome ==
  ASSUME AInv, NEW c \in Calls, Respond(c), RInv', NEW t \in route[c].transaction, NEW s \in Recorded1(t)
  PROVE  s \in Outcomes
<1>1. PICK r \in Requests : call[c].request = {r} /\ route[c] = Waiting(r.transaction)
  BY UnderWay DEF Respond
<1>2. PICK state \in Outcome(c) : memory' = Recorded(r, state)
  BY <1>1 DEF Respond
<1>3. state \in Outcomes
  BY <1>2 DEF Outcome, Outcomes
<1>4. t = r.transaction /\ r.key \in Keys
  BY <1>1 DEF Waiting, Requests
<1>5. memory'[r.key] = {[request |-> r, state |-> state]}
  BY <1>2, <1>4 DEF Recorded, AInv, RInv, IInv, TypeOK
<1>6. PICK k \in Keys : \E q \in memory'[k] : q.request.transaction = t /\ s = q.state
  BY DEF Recorded1
<1>7. \E q \in memory'[r.key] : q.request.transaction = t
  BY <1>4, <1>5
<1>8. k = r.key
  BY <1>4, <1>6, <1>7 DEF RInv, IInv, OneKey
<1>. QED
  BY <1>3, <1>5, <1>6, <1>8

LEMMA AdapterTypes ==
  ASSUME AInv, AInv', RoutesTyped, NEW c \in Calls, AdapterStep(c)
  PROVE  RoutesTyped'
<1>1. log' = log /\ told' = told
  BY DEF AdapterStep
<1>2. PICK t \in route[c].transaction :
        IF call'[c] # Idle THEN UNCHANGED route
        ELSE \E s \in IF memory' # memory /\ file' = memory' THEN Recorded1(t) ELSE {"none"} :
               route' = [route EXCEPT ![c] = Settled(t, s)]
  BY DEF AdapterStep
<1>3. t \in Transactions
  BY DEF RoutesTyped, RoutesOf
<1>4. CASE UNCHANGED route
  BY <1>1, <1>4 DEF RoutesTyped
<1>5. ASSUME NEW s \in IF memory' # memory /\ file' = memory' THEN Recorded1(t) ELSE {"none"},
             route' = [route EXCEPT ![c] = Settled(t, s)]
      PROVE  RoutesTyped'
  <2>1. s \in OutcomesOf(c)
    <3>1. CASE s = "none"
      BY <3>1 DEF OutcomesOf
    <3>2. CASE s # "none"
      <4>1. memory' # memory /\ s \in Recorded1(t)
        BY <1>5, <3>2
      <4>2. Respond(c)
        BY <4>1 DEF AdapterStep, NetworkDisabled, Post, Answer
      <4>3. s \in Outcomes
        BY <4>1, <4>2, RecordedIsOutcome DEF AInv
      <4>. QED
        BY <4>3 DEF OutcomesOf
    <3>. QED
      BY <3>1, <3>2
  <2>2. Settled(t, s) \in RoutesOf(c)
    BY <1>3, <2>1, WaitingIsTyped
  <2>. QED
    BY <1>1, <1>5, <2>2, RouteChanges DEF RoutesTyped
<1>. QED
  BY <1>2, <1>4, <1>5

LEMMA RouteQueryTypes ==
  ASSUME AInv, RoutesTyped, NEW q \in Queries, NEW t \in Transactions, NEW customer, RouteQuery(q, t, customer)
  PROVE  RoutesTyped'
<1>1. log' \subseteq RouteEvents /\ told' \subseteq log'
  <2>1. Event("QUERIED", t, "none") \in RouteEvents
    BY EventsOfRoutes
  <2>. QED
    BY <2>1 DEF RouteQuery, RoutesTyped
<1>2. PICK new : /\ route' = [route EXCEPT ![q] = new]
                 /\ new = Waiting(t) \/ \E s \in status[t] \cup {"none"} : new = Settled(t, s)
  BY DEF RouteQuery
<1>3. status[t] \cup {"none"} \subseteq OutcomesOf(q)
  <2>1. status[t] \subseteq Statuses /\ q \notin Calls
    BY DEF AInv, RInv, TypeOKReconciliation, Apart
  <2>. QED
    BY <2>1 DEF OutcomesOf
<1>4. new \in RoutesOf(q)
  BY <1>2, <1>3, WaitingIsTyped
<1>. QED
  BY <1>1, <1>2, <1>4, RouteChanges

LEMMA ServiceTypes ==
  ASSUME AInv, AInv', RoutesTyped, NEW q \in Queries, ServiceStep(q)
  PROVE  RoutesTyped'
<1>1. log' = log /\ told' = told
  BY DEF ServiceStep
<1>2. CASE UNCHANGED route
  BY <1>1, <1>2 DEF RoutesTyped
<1>3. ASSUME NEW t \in route[q].transaction, NEW s \in IF statusFile' = status' THEN status'[t] ELSE {"none"},
             route' = [route EXCEPT ![q] = Settled(t, s)]
      PROVE  RoutesTyped'
  <2>1. t \in Transactions
    BY DEF RoutesTyped, RoutesOf
  <2>2. status'[t] \subseteq Statuses /\ q \notin Calls
    BY <2>1 DEF AInv, RInv, TypeOKReconciliation, Apart
  <2>3. s \in OutcomesOf(q)
    BY <1>3, <2>2 DEF OutcomesOf
  <2>4. Settled(t, s) \in RoutesOf(q)
    BY <2>1, <2>3, WaitingIsTyped
  <2>. QED
    BY <1>1, <1>3, <2>4, RouteChanges DEF RoutesTyped
<1>. QED
  BY <1>2, <1>3 DEF ServiceStep

LEMMA ReplyTypes ==
  ASSUME AInv, RoutesTyped, NEW x \in Calls \cup Queries, Reply(x)
  PROVE  RoutesTyped'
<1>1. PICK t \in route[x].transaction, outcome \in route[x].outcome :
        \/ outcome # "none" /\ log' = log \cup {Event(ResultAction(x), t, outcome)}
             /\ told' = told \cup {Event(ResultAction(x), t, outcome)}
        \/ log' = log \cup {Event(RejectedAction(x), t, "none")} /\ told' = told
        \/ outcome # "none" /\ told' = told
             /\ log' = log \cup {Event(ResultAction(x), t, outcome), Event(RejectedAction(x), t, "none")}
  BY DEF Reply
<1>2. t \in Transactions /\ outcome \in OutcomesOf(x)
  BY DEF RoutesTyped, RoutesOf
<1>3. Event(RejectedAction(x), t, "none") \in RouteEvents
  BY <1>2, EventsOfRoutes DEF RejectedAction
<1>4. outcome # "none" => Event(ResultAction(x), t, outcome) \in RouteEvents
  <2>1. CASE x \in Calls
    BY <1>2, <2>1, EventsOfRoutes DEF ResultAction, OutcomesOf
  <2>2. CASE x \notin Calls
    BY <1>2, <2>2, EventsOfRoutes DEF ResultAction, OutcomesOf
  <2>. QED
    BY <2>1, <2>2
<1>5. log' \subseteq RouteEvents /\ told' \subseteq log'
  BY <1>1, <1>3, <1>4 DEF RoutesTyped
<1>6. NoRoute \in RoutesOf(x) /\ route' = [route EXCEPT ![x] = NoRoute]
  BY <1>2, WaitingIsTyped DEF Reply
<1>. QED
  BY <1>5, <1>6, RouteChanges

LEMMA NextRoutesTyped ==
  ASSUME AInv, AInv', RoutesTyped, [NextRoutes]_routedVars
  PROVE  RoutesTyped'
<1>1. CASE UNCHANGED <<log, route, told>>
  BY <1>1 DEF RoutesTyped
<1>2. CASE RestartRoutes
  <2>1. log' \subseteq RouteEvents /\ told' \subseteq log'
    BY <1>2, EventsOfRoutes DEF RestartRoutes, RoutesTyped
  <2>2. \A x \in Calls \cup Queries : route'[x] = NoRoute /\ NoRoute \in RoutesOf(x)
    BY <1>2 DEF RestartRoutes, NoRoute, RoutesOf
  <2>. QED
    BY <2>1, <2>2 DEF RoutesTyped
<1>. QED
  BY <1>1, <1>2, RouteCheckoutTypes, AdapterTypes, RouteQueryTypes, ServiceTypes, ReplyTypes
     DEF NextRoutes, routeVars, routedVars

LEMMA InitRoutesTyped == InitRoutes => RoutesTyped
BY DEF InitRoutes, RoutesTyped, RoutesOf, NoRoute

LEMMA RoutesAreTyped == AInv /\ RoutesTyped => TypeOKRoutes
<1>. SUFFICES ASSUME AInv, RoutesTyped, NEW x \in Calls \cup Queries
              PROVE  Cardinality(route[x].transaction) <= 1
  BY DEF AInv, RInv, RoutesTyped, RouteEvents, TypeOKRoutes
<1>1. PICK T \in {{}} \cup {{t} : t \in Transactions} : T = route[x].transaction
  BY DEF RoutesTyped, RoutesOf
<1>2. CASE T = {}
  <2>1. Cardinality(T) = 0
    BY <1>2, FS_EmptySet
  <2>. QED
    BY <1>1, <2>1
<1>3. ASSUME NEW t, T = {t} PROVE Cardinality(T) = 1
  BY <1>3, FS_Singleton
<1>. QED
  BY <1>1, <1>2, <1>3

==============================================================================
