---------------------------- MODULE AuditedRoutes ---------------------------
(***************************************************************************)
(* The payment routes of the demo API around the gateway and its           *)
(* reconciliation, with the audit log: an event before the adapter is      *)
(* called and one when its promise has settled.  Whatever throws after the *)
(* call is answered as a rejection, a failed save of the audit log too; an *)
(* audit save that throws outside the try ends the process, so that the    *)
(* log in memory is never ahead of its file in these routes.               *)
(***************************************************************************)
EXTENDS PaymentGatewayReconciliation

VARIABLES
  log,    \* the events on file, less their order and retention
  route,  \* [Calls \cup Queries -> the request of a route under way]
  told    \* history: what 200 answers said, as result events

routeVars == <<log, route, told>>
routedVars == <<allVars, routeVars>>

Event(action, t, state) == [action |-> action, transaction |-> t, state |-> state]
CheckoutEvents(t) ==
  {Event("SUBMITTED", t, "none"), Event("REJECTED", t, "none")}
    \cup {Event("RESULT", t, s) : s \in Outcomes}
QueryEvents(t) ==
  {Event("QUERIED", t, "none"), Event("QUERY_REJECTED", t, "none")}
    \cup {Event("QUERY_RESULT", t, s) : s \in Statuses}

\* "none" stands for a promise that is rejected; {} for one not settled.
NoRoute == [transaction |-> {}, outcome |-> {}]
Waiting(t) == [transaction |-> {t}, outcome |-> {}]
Settled(t, outcome) == [transaction |-> {t}, outcome |-> {outcome}]

InitRoutes ==
  /\ InitReconciliation
  /\ log = {} /\ told = {}
  /\ route = [c \in Calls \cup Queries |-> NoRoute]

-----------------------------------------------------------------------------
\* What the adapter gives for a request it has a record of: the recorded result of
\* the same request, or an error.
Replay(request) ==
  IF \E r \in memory[request.key] : r.request = request /\ r.state # Intent
  THEN (CHOOSE r \in memory[request.key] : TRUE).state ELSE "none"

\* POST checkout up to its await.
RouteCheckout(c, request) ==
  /\ route[c] = NoRoute
  /\ log' = log \cup {Event("SUBMITTED", request.transaction, "none")}
  /\ \/ Checkout(c, request)
     \/ Repeat(c, request)
  /\ route' = [route EXCEPT ![c] =
       IF call'[c] # Idle THEN Waiting(request.transaction)
       ELSE Settled(request.transaction, IF Admissible(request) THEN "none" ELSE Replay(request))]
  /\ UNCHANGED <<statusVars, told>>

\* The adapter goes on; its promise settles as its call ends: with the state it
\* recorded and saved, or rejected.
Recorded1(t) == {r.state : r \in {q \in UNION {memory'[k] : k \in Keys} : q.request.transaction = t}}

AdapterStep(c) ==
  /\ NetworkDisabled(c) \/ Post(c) \/ Answer(c) \/ Respond(c)
  /\ \E t \in route[c].transaction :
       IF call'[c] # Idle THEN UNCHANGED route
       ELSE \E s \in IF memory' # memory /\ file' = memory' THEN Recorded1(t) ELSE {"none"} :
              route' = [route EXCEPT ![c] = Settled(t, s)]
  /\ UNCHANGED <<statusVars, log, told>>

\* POST reconcile up to its await.  The first version takes the customer from the
\* body, the second from the recorded checkout; either may find none.
RouteQuery(q, t, customer) ==
  /\ route[q] = NoRoute
  /\ log' = log \cup {Event("QUERIED", t, "none")}
  /\ \/ /\ Ask(q, t, customer)
        /\ route' = [route EXCEPT ![q] = Waiting(t)]
     \/ /\ Recall(q, t)
        /\ \E s \in status[t] : route' = [route EXCEPT ![q] = Settled(t, s)]
     \/ /\ status[t] \cap TerminalStates = {} /\ ~CheckoutFound(t, customer)
        /\ route' = [route EXCEPT ![q] = Settled(t, "none")]
        /\ UNCHANGED allVars
  /\ UNCHANGED told

ServiceStep(q) ==
  /\ \/ ProviderAnswers(q) /\ UNCHANGED route
     \/ /\ Record(q)
        /\ \E t \in route[q].transaction :
             \E s \in IF statusFile' = status' THEN status'[t] ELSE {"none"} :
               route' = [route EXCEPT ![q] = Settled(t, s)]
  /\ UNCHANGED <<log, told>>

-----------------------------------------------------------------------------
ResultAction(x) == IF x \in Calls THEN "RESULT" ELSE "QUERY_RESULT"
RejectedAction(x) == IF x \in Calls THEN "REJECTED" ELSE "QUERY_REJECTED"

\* Mutant: the answer to a rejected promise is recorded as a result.
ReplyMut(x) ==
  /\ \E t \in route[x].transaction, outcome \in route[x].outcome :
       LET result == Event(ResultAction(x), t, IF outcome = "none" THEN "GATEWAY_REJECTED" ELSE outcome)
       IN log' = log \cup {result} /\ told' = told \cup {result}
  /\ route' = [route EXCEPT ![x] = NoRoute]
  /\ UNCHANGED allVars

\* The promise has settled: the result is recorded and answered, or the rejection.
\* When the save of the result's event throws, the event stays in the log and is
\* saved with that of the rejection, which is what the caller is told.
Reply(x) ==
  /\ \E t \in route[x].transaction, outcome \in route[x].outcome :
       LET result == Event(ResultAction(x), t, outcome)
           rejected == Event(RejectedAction(x), t, "none")
       IN \/ outcome # "none" /\ log' = log \cup {result} /\ told' = told \cup {result}
             /\ UNCHANGED faults
          \/ outcome = "none" /\ log' = log \cup {rejected} /\ UNCHANGED <<told, faults>>
          \/ /\ outcome # "none" /\ faults < MaxFaults /\ faults' = faults + 1
             /\ log' = log \cup {result, rejected} /\ UNCHANGED told
  /\ route' = [route EXCEPT ![x] = NoRoute]
  /\ UNCHANGED <<memory, file, call, network, posts, statusVars>>

\* A stop, of a request too that has just recorded its first event.
RestartRoutes ==
  /\ RestartBoth
  /\ log' \in {log} \cup {log \cup {Event(a, t, "none")} : a \in {"SUBMITTED", "QUERIED"}, t \in Transactions}
  /\ route' = [x \in Calls \cup Queries |-> NoRoute]
  /\ UNCHANGED told

NextRoutes ==
  \/ \E c \in Calls :
       \/ \E request \in Requests : RouteCheckout(c, request)
       \/ AdapterStep(c)
  \/ \E q \in Queries :
       \/ \E t \in Transactions, customer \in Variants : RouteQuery(q, t, customer)
       \/ ServiceStep(q)
  \/ \E x \in Calls \cup Queries : Reply(x)
  \/ \E t \in Transactions : Conclude(t) /\ UNCHANGED routeVars
  \/ RestartRoutes

SpecRoutes == InitRoutes /\ [][NextRoutes]_routedVars

-----------------------------------------------------------------------------
TypeOKRoutes ==
  /\ TypeOKReconciliation
  /\ log \subseteq UNION {CheckoutEvents(t) \cup QueryEvents(t) : t \in Transactions}
  /\ told \subseteq log
  /\ \A x \in Calls \cup Queries : Cardinality(route[x].transaction) <= 1

\* What reached the provider is announced in the audit file, whatever was lost of
\* its outcome: a posted checkout has its SUBMITTED event, a recorded status its
\* QUERIED event.
ActsAreAnnounced ==
  \A t \in Transactions :
    /\ posts[t] > 0 => Event("SUBMITTED", t, "none") \in log
    /\ status[t] \cup statusFile[t] # {} => Event("QUERIED", t, "none") \in log

\* The audit file and the gateway's never contradict each other: what a result
\* event says of a transaction is the result on file, or the file only has the
\* intent; and no two result events of it differ, through failed saves, retries,
\* replays and restarts.
AuditAgreesWithGateway ==
  \A t \in Transactions :
    LET said == {e.state : e \in {d \in log : d.action = "RESULT" /\ d.transaction = t}} IN
      /\ Cardinality(said) <= 1
      /\ \A k \in Keys : \A r \in file[k] :
           r.request.transaction = t /\ said # {} => r.state \in said \cup {Intent}
=============================================================================
