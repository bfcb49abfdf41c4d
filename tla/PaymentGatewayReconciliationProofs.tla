----------------- MODULE PaymentGatewayReconciliationProofs -----------------
(***************************************************************************)
(* Proofs about PaymentGateway, and about PaymentGatewayReconciliation,    *)
(* which extends it.  A call under way owns its key: memory and file both  *)
(* hold its intent, and nothing else, under it until it ends.  The         *)
(* composed system takes this invariant over: seen from the gateway's      *)
(* variables, every step of it is one of the gateway's or none.            *)
(***************************************************************************)
EXTENDS PaymentGatewayReconciliation, TLAPS

\* later holds what earlier does: the same requests, and the results there were.
Keeps(earlier, later) ==
  \A k \in Keys : \A r \in earlier[k] : \E q \in later[k] :
    q.request = r.request /\ (r.state # Intent => q.state = r.state)

OneRecord == \A k \in Keys : (\A r, q \in memory[k] : r = q) /\ \A r, q \in file[k] : r = q

OneKey ==
  \A k, l \in Keys : \A r \in memory[k], q \in memory[l] :
    r.request.transaction = q.request.transaction => k = l

Held(request) == {[request |-> request, state |-> Intent]}

CallsHoldTheirKey ==
  \A c \in Calls : call[c].stage # "idle" =>
    \E request \in Requests :
      /\ call[c].request = {request}
      /\ memory[request.key] = Held(request)
      /\ file[request.key] = Held(request)

CallsApart ==
  \A c, d \in Calls : c # d /\ call[c].stage # "idle" /\ call[d].stage # "idle" =>
    \A r \in call[c].request, q \in call[d].request : r.key # q.key

NotPostedYet ==
  \A c \in Calls : call[c].stage = "intended" => \A r \in call[c].request : posts[r.transaction] = 0

IInv ==
  /\ TypeOK /\ Keeps(file, memory) /\ OneRecord /\ OneKey
  /\ CallsHoldTheirKey /\ CallsApart /\ NotPostedYet
  /\ AtMostOnePost /\ PostedIsOnFile

-----------------------------------------------------------------------------
LEMMA InitIInv == Init => IInv
<1> SUFFICES ASSUME Init PROVE IInv
  OBVIOUS
<1>1. TypeOK
  BY PaymentGatewayAssumption DEF Init, TypeOK, Idle
<1>. QED
  BY <1>1 DEF Init, IInv, Idle, Keeps, OneRecord, OneKey, CallsHoldTheirKey, CallsApart,
       NotPostedYet, AtMostOnePost, PostedIsOnFile

\* What recording a request does to the map.
LEMMA RecordedIsHeld ==
  ASSUME TypeOK, NEW request \in Requests, NEW state, [request |-> request, state |-> state] \in Records
  PROVE  /\ Recorded(request, state) \in [Keys -> SUBSET Records]
         /\ \A k \in Keys : Recorded(request, state)[k] =
              IF k = request.key THEN {[request |-> request, state |-> state]} ELSE memory[k]
         /\ \A k \in Keys : \A r \in Recorded(request, state)[k] : r.request.key = k
<1>1. [request |-> request, state |-> state] \in Records /\ request.key \in Keys
  BY DEF Requests
<1>2. memory \in [Keys -> SUBSET Records] /\ \A k \in Keys : \A r \in memory[k] : r.request.key = k
  BY DEF TypeOK
<1>. QED
  BY <1>1, <1>2 DEF Recorded

\* What a save, done or failed, leaves on file.
LEMMA SavedOrNot ==
  ASSUME TypeOK, NEW records, records \in [Keys -> SUBSET Records],
         \A k \in Keys : \A r \in records[k] : r.request.key = k,
         Saved(records) \/ NotSaved(records)
  PROVE  /\ file' \in {file, records}
         /\ file' \in [Keys -> SUBSET Records]
         /\ \A k \in Keys : \A r \in file'[k] : r.request.key = k
         /\ faults' \in 0..MaxFaults
<1>1. file' \in {file, records}
  BY DEF Saved, NotSaved
<1>2. faults' \in 0..MaxFaults
  BY PaymentGatewayAssumption DEF Saved, NotSaved, TypeOK
<1>. QED
  BY <1>1, <1>2 DEF TypeOK

\* What posts say of the file stays true of a file that keeps what it held.
LEMMA PostsStayOnFile ==
  ASSUME IInv, Keeps(file, file'), posts' = posts
  PROVE  AtMostOnePost' /\ PostedIsOnFile'
BY DEF IInv, AtMostOnePost, PostedIsOnFile, Keeps

LEMMA Stutter ==
  ASSUME IInv, UNCHANGED vars
  PROVE  IInv' /\ Keeps(file, file')
BY DEF vars, IInv, TypeOK, Keeps, OneRecord, OneKey, CallsHoldTheirKey, CallsApart,
     NotPostedYet, AtMostOnePost, PostedIsOnFile

LEMMA CheckoutStep ==
  ASSUME IInv, NEW c \in Calls, NEW request \in Requests, Checkout(c, request)
  PROVE  IInv' /\ Keeps(file, file')
<1> DEFINE new == Recorded(request, Intent)
<1>1. TypeOK /\ call[c].stage = "idle" /\ memory' = new /\ posts' = posts /\ network' = network
  BY DEF IInv, Checkout
<1>2. request.key \in Keys /\ memory[request.key] = {}
  BY DEF Requests, Checkout, Admissible
<1>3. /\ new \in [Keys -> SUBSET Records]
      /\ \A k \in Keys : new[k] = IF k = request.key THEN Held(request) ELSE memory[k]
      /\ \A k \in Keys : \A r \in new[k] : r.request.key = k
  <2>1. [request |-> request, state |-> Intent] \in Records
    BY DEF Records
  <2>. QED
    BY <1>1, <2>1, RecordedIsHeld DEF Held
<1>4. Saved(new) \/ NotSaved(new)
  BY DEF Checkout
<1>5. \/ file' = new /\ call' = [call EXCEPT ![c] = [stage |-> "intended", request |-> {request}]]
      \/ file' = file /\ call' = call
  BY <1>1 DEF Checkout, Saved, NotSaved
<1> HIDE DEF new
<1>6. /\ file' \in [Keys -> SUBSET Records]
      /\ \A k \in Keys : \A r \in file'[k] : r.request.key = k
      /\ faults' \in 0..MaxFaults
  BY <1>1, <1>3, <1>4, SavedOrNot
<1>7. TypeOK'
  <2>1. call' \in [Calls -> [stage : {"idle", "intended", "posted", "answered"}, request : SUBSET Requests]]
    BY <1>1, <1>5 DEF TypeOK
  <2>. QED
    BY <1>1, <1>3, <1>6, <2>1 DEF TypeOK
<1>8. Keeps(file, memory) /\ file[request.key] = {}
  <2>1. Keeps(file, memory)
    BY DEF IInv
  <2>2. \A r \in file[request.key] : FALSE
    BY <1>2, <2>1 DEF Keeps
  <2>. QED
    BY <2>1, <2>2
<1>9. Keeps(file, new)
  BY <1>2, <1>3, <1>8 DEF Keeps
<1>10. Keeps(file, file') /\ Keeps(file, memory)'
  <2>1. Keeps(file, file) /\ Keeps(new, new)
    BY DEF Keeps
  <2>. QED
    BY <1>1, <1>5, <1>9, <2>1 DEF Keeps
<1>11. OneRecord'
  BY <1>1, <1>3, <1>5 DEF IInv, OneRecord, Held
<1>12. \A k \in Keys : \A r \in memory[k] : r.request.transaction = request.transaction => k = request.key
  BY DEF Checkout, Admissible, KeysOf
<1>13. OneKey'
  <2> SUFFICES ASSUME NEW k \in Keys, NEW l \in Keys, NEW r \in new[k], NEW q \in new[l],
                      r.request.transaction = q.request.transaction
               PROVE  k = l
    BY <1>1 DEF OneKey
  <2>1. CASE k = request.key
    <3>1. r.request = request
      BY <1>3, <2>1 DEF Held
    <3>. QED
      BY <1>3, <1>12, <2>1, <3>1
  <2>2. CASE l = request.key
    <3>1. q.request = request
      BY <1>3, <2>2 DEF Held
    <3>. QED
      BY <1>3, <1>12, <2>2, <3>1
  <2>3. CASE k # request.key /\ l # request.key
    BY <1>3, <2>3 DEF IInv, OneKey
  <2>. QED
    BY <2>1, <2>2, <2>3
<1>14. AtMostOnePost' /\ PostedIsOnFile'
  BY <1>1, <1>10, PostsStayOnFile
<1>15. CASE file' = file /\ call' = call
  <2>1. CallsHoldTheirKey'
    <3> SUFFICES ASSUME NEW d \in Calls, call[d].stage # "idle"
                 PROVE  \E q \in Requests : /\ call[d].request = {q}
                                            /\ new[q.key] = Held(q) /\ file[q.key] = Held(q)
      BY <1>1, <1>15 DEF CallsHoldTheirKey
    <3>1. PICK q \in Requests : /\ call[d].request = {q}
                                /\ memory[q.key] = Held(q) /\ file[q.key] = Held(q)
      BY DEF IInv, CallsHoldTheirKey
    <3>2. q.key \in Keys /\ q.key # request.key
      BY <1>2, <3>1 DEF Requests, Held
    <3>. QED
      BY <1>3, <3>1, <3>2
  <2>2. CallsApart' /\ NotPostedYet'
    BY <1>1, <1>15 DEF IInv, CallsApart, NotPostedYet
  <2>. QED
    BY <1>7, <1>10, <1>11, <1>13, <1>14, <2>1, <2>2 DEF IInv
<1>16. CASE file' = new /\ call' = [call EXCEPT ![c] = [stage |-> "intended", request |-> {request}]]
  <2>1. /\ call'[c] = [stage |-> "intended", request |-> {request}]
        /\ \A d \in Calls : d # c => call'[d] = call[d]
    BY <1>1, <1>16 DEF TypeOK
  <2>2. ASSUME NEW d \in Calls, d # c, call[d].stage # "idle"
        PROVE  \E q \in Requests : /\ call[d].request = {q} /\ q.key # request.key
                                   /\ new[q.key] = Held(q)
    <3>1. PICK q \in Requests : /\ call[d].request = {q}
                                /\ memory[q.key] = Held(q) /\ file[q.key] = Held(q)
      BY <2>2 DEF IInv, CallsHoldTheirKey
    <3>2. q.key \in Keys /\ q.key # request.key
      BY <1>2, <3>1 DEF Requests, Held
    <3>. QED
      BY <1>3, <3>1, <3>2
  <2>3. CallsHoldTheirKey'
    <3> SUFFICES ASSUME NEW d \in Calls, call'[d].stage # "idle"
                 PROVE  \E q \in Requests : /\ call'[d].request = {q}
                                            /\ memory'[q.key] = Held(q) /\ file'[q.key] = Held(q)
      BY DEF CallsHoldTheirKey
    <3>1. CASE d = c
      BY <1>1, <1>2, <1>3, <1>16, <2>1, <3>1
    <3>2. CASE d # c
      BY <1>1, <1>16, <2>1, <2>2, <3>2
    <3>. QED
      BY <3>1, <3>2
  <2>4. CallsApart'
    <3> SUFFICES ASSUME NEW d \in Calls, NEW e \in Calls, d # e,
                        call'[d].stage # "idle", call'[e].stage # "idle",
                        NEW r \in call'[d].request, NEW q \in call'[e].request
                 PROVE  r.key # q.key
      BY DEF CallsApart
    <3>1. CASE d = c
      <4>1. r = request
        BY <2>1, <3>1
      <4>. QED
        BY <2>1, <2>2, <3>1, <4>1
    <3>2. CASE e = c
      <4>1. q = request
        BY <2>1, <3>2
      <4>. QED
        BY <2>1, <2>2, <3>2, <4>1
    <3>3. CASE d # c /\ e # c
      BY <2>1, <3>3 DEF IInv, CallsApart
    <3>. QED
      BY <3>1, <3>2, <3>3
  <2>5. posts[request.transaction] = 0
    <3>1. request.transaction \in Transactions /\ posts[request.transaction] \in Nat
      BY <1>1 DEF TypeOK, Requests
    <3>2. SUFFICES ASSUME posts[request.transaction] > 0 PROVE FALSE
      BY <3>1
    <3>3. PICK k \in Keys : \E r \in file[k] : r.request.transaction = request.transaction
      BY <3>1, <3>2 DEF IInv, PostedIsOnFile
    <3>4. \E q \in memory[k] : q.request.transaction = request.transaction
      BY <1>8, <3>3 DEF Keeps
    <3>. QED
      BY <1>2, <1>12, <3>4
  <2>6. NotPostedYet'
    BY <1>1, <2>1, <2>5 DEF IInv, NotPostedYet
  <2>. QED
    BY <1>7, <1>10, <1>11, <1>13, <1>14, <2>3, <2>4, <2>6 DEF IInv
<1>. QED
  BY <1>5, <1>10, <1>15, <1>16

\* What a call under way holds.
LEMMA CallHolds ==
  ASSUME IInv, NEW c \in Calls, call[c].stage # "idle"
  PROVE  \E request \in Requests :
           /\ call[c].request = {request} /\ request.key \in Keys
           /\ request.transaction \in Transactions
           /\ memory[request.key] = Held(request) /\ file[request.key] = Held(request)
BY DEF IInv, CallsHoldTheirKey, Requests

\* Steps that change neither the records nor what any other call holds.
LEMMA RecordsUnchanged ==
  ASSUME IInv, memory' = memory, file' = file,
         \A d \in Calls : call'[d].stage # "idle" =>
           call[d].stage # "idle" /\ call'[d].request = call[d].request
  PROVE  /\ Keeps(file, file') /\ Keeps(file, memory)' /\ OneRecord' /\ OneKey'
         /\ CallsHoldTheirKey' /\ CallsApart'
<1>1. Keeps(file, file') /\ Keeps(file, memory)' /\ OneRecord' /\ OneKey'
  BY DEF IInv, Keeps, OneRecord, OneKey
<1>2. CallsHoldTheirKey'
  BY DEF IInv, CallsHoldTheirKey
<1>3. CallsApart'
  BY DEF IInv, CallsApart
<1>. QED
  BY <1>1, <1>2, <1>3

LEMMA NetworkDisabledStep ==
  ASSUME IInv, NEW c \in Calls, NetworkDisabled(c)
  PROVE  IInv' /\ Keeps(file, file')
<1>1. /\ TypeOK /\ UNCHANGED <<memory, file, network, posts, faults>>
      /\ call'[c] = Idle /\ \A d \in Calls : d # c => call'[d] = call[d]
  BY DEF IInv, TypeOK, NetworkDisabled
<1>2. TypeOK'
  <2>1. call' \in [Calls -> [stage : {"idle", "intended", "posted", "answered"}, request : SUBSET Requests]]
    BY DEF IInv, TypeOK, NetworkDisabled, Idle
  <2>. QED
    BY <1>1, <2>1 DEF TypeOK
<1>3. \A d \in Calls : call'[d].stage # "idle" =>
        call[d].stage # "idle" /\ call'[d] = call[d]
  BY <1>1 DEF Idle
<1>4. /\ Keeps(file, file') /\ Keeps(file, memory)' /\ OneRecord' /\ OneKey'
      /\ CallsHoldTheirKey' /\ CallsApart'
  BY <1>1, <1>3, RecordsUnchanged
<1>5. AtMostOnePost' /\ PostedIsOnFile'
  BY <1>1, <1>4, PostsStayOnFile
<1>6. NotPostedYet'
  BY <1>1, <1>3 DEF IInv, NotPostedYet
<1>. QED
  BY <1>2, <1>4, <1>5, <1>6 DEF IInv

LEMMA AnswerStep ==
  ASSUME IInv, NEW c \in Calls, Answer(c)
  PROVE  IInv' /\ Keeps(file, file')
<1>1. /\ TypeOK /\ UNCHANGED <<memory, file, network, posts, faults>> /\ call[c].stage = "posted"
      /\ call' = [call EXCEPT ![c].stage = "answered"]
  BY DEF IInv, Answer
<1>2. /\ call' \in [Calls -> [stage : {"idle", "intended", "posted", "answered"}, request : SUBSET Requests]]
      /\ call'[c].stage = "answered" /\ call'[c].request = call[c].request
      /\ \A d \in Calls : d # c => call'[d] = call[d]
  BY <1>1 DEF TypeOK
<1>3. TypeOK'
  BY <1>1, <1>2 DEF TypeOK
<1>4. \A d \in Calls : call'[d].stage # "idle" =>
        call[d].stage # "idle" /\ call'[d].request = call[d].request
  BY <1>1, <1>2
<1>5. /\ Keeps(file, file') /\ Keeps(file, memory)' /\ OneRecord' /\ OneKey'
      /\ CallsHoldTheirKey' /\ CallsApart'
  BY <1>1, <1>4, RecordsUnchanged
<1>6. AtMostOnePost' /\ PostedIsOnFile'
  BY <1>1, <1>5, PostsStayOnFile
<1>7. NotPostedYet'
  BY <1>1, <1>2 DEF IInv, NotPostedYet
<1>. QED
  BY <1>3, <1>5, <1>6, <1>7 DEF IInv

LEMMA PostStep ==
  ASSUME IInv, NEW c \in Calls, Post(c)
  PROVE  IInv' /\ Keeps(file, file')
<1>1. /\ TypeOK /\ UNCHANGED <<memory, file, network, faults>> /\ call[c].stage = "intended"
      /\ call' = [call EXCEPT ![c].stage = "posted"]
  BY DEF IInv, Post
<1>2. /\ call' \in [Calls -> [stage : {"idle", "intended", "posted", "answered"}, request : SUBSET Requests]]
      /\ call'[c].stage = "posted" /\ call'[c].request = call[c].request
      /\ \A d \in Calls : d # c => call'[d] = call[d]
  BY <1>1 DEF TypeOK
<1>3. PICK request \in Requests :
        /\ call[c].request = {request} /\ request.key \in Keys
        /\ request.transaction \in Transactions
        /\ memory[request.key] = Held(request) /\ file[request.key] = Held(request)
  BY <1>1, CallHolds
<1>4. /\ posts' \in [Transactions -> Nat]
      /\ \A t \in Transactions :
           posts'[t] = IF request.transaction = t THEN posts[t] + 1 ELSE posts[t]
  BY <1>1, <1>3 DEF Post, TypeOK
<1>5. posts[request.transaction] = 0
  BY <1>1, <1>3 DEF IInv, NotPostedYet
<1>6. TypeOK'
  BY <1>1, <1>2, <1>4 DEF TypeOK
<1>7. \A d \in Calls : call'[d].stage # "idle" =>
        call[d].stage # "idle" /\ call'[d].request = call[d].request
  BY <1>1, <1>2
<1>8. /\ Keeps(file, file') /\ Keeps(file, memory)' /\ OneRecord' /\ OneKey'
      /\ CallsHoldTheirKey' /\ CallsApart'
  BY <1>1, <1>7, RecordsUnchanged
<1>9. AtMostOnePost'
  BY <1>4, <1>5 DEF IInv, AtMostOnePost
<1>10. PostedIsOnFile'
  <2> SUFFICES ASSUME NEW t \in Transactions, posts'[t] > 0
               PROVE  \E k \in Keys : \E r \in file[k] : r.request.transaction = t
    BY <1>1 DEF PostedIsOnFile
  <2>1. CASE t = request.transaction
    <3>1. [request |-> request, state |-> Intent] \in file[request.key]
      BY <1>3 DEF Held
    <3>. QED
      BY <1>3, <2>1, <3>1
  <2>2. CASE t # request.transaction
    BY <1>4, <2>2 DEF IInv, PostedIsOnFile
  <2>. QED
    BY <2>1, <2>2
<1>11. NotPostedYet'
  <2> SUFFICES ASSUME NEW d \in Calls, call'[d].stage = "intended", NEW q \in call'[d].request
               PROVE  posts'[q.transaction] = 0
    BY DEF NotPostedYet
  <2>1. d # c /\ call'[d] = call[d]
    BY <1>2
  <2>2. q \in Requests /\ q.key \in Keys /\ q.transaction \in Transactions /\ memory[q.key] = Held(q)
    BY <2>1, CallHolds
  <2>3. posts[q.transaction] = 0
    BY <2>1 DEF IInv, NotPostedYet
  <2>4. q.key # request.key
    BY <1>1, <1>3, <2>1 DEF IInv, CallsApart
  <2>5. q.transaction # request.transaction
    <3>1. \A r \in memory[q.key], o \in memory[request.key] :
            r.request.transaction = o.request.transaction => q.key = request.key
      BY <1>3, <2>2 DEF IInv, OneKey
    <3>2. /\ [request |-> q, state |-> Intent] \in memory[q.key]
          /\ [request |-> request, state |-> Intent] \in memory[request.key]
      BY <1>3, <2>2 DEF Held
    <3>. QED
      BY <2>4, <3>1, <3>2
  <2>. QED
    BY <1>4, <2>2, <2>3, <2>5
<1>. QED
  BY <1>6, <1>8, <1>9, <1>10, <1>11 DEF IInv

LEMMA RespondStep ==
  ASSUME IInv, NEW c \in Calls, Respond(c)
  PROVE  IInv' /\ Keeps(file, file')
<1>1. PICK request \in Requests :
        /\ call[c].request = {request} /\ request.key \in Keys
        /\ request.transaction \in Transactions
        /\ memory[request.key] = Held(request) /\ file[request.key] = Held(request)
  BY CallHolds DEF Respond
<1>2. PICK state \in Outcome(c) :
        /\ memory' = Recorded(request, state)
        /\ Saved(memory') \/ NotSaved(memory')
  BY <1>1 DEF Respond
<1>3. state \in Outcomes \cup {Intent}
  BY DEF Outcome, Outcomes
<1>4. /\ TypeOK /\ UNCHANGED <<network, posts>> /\ call[c].stage # "idle"
      /\ call'[c] = Idle /\ \A d \in Calls : d # c => call'[d] = call[d]
  BY DEF IInv, TypeOK, Respond
<1> DEFINE new == Recorded(request, state)
           answer == [request |-> request, state |-> state]
<1>5. /\ new \in [Keys -> SUBSET Records]
      /\ \A k \in Keys : new[k] = IF k = request.key THEN {answer} ELSE memory[k]
      /\ \A k \in Keys : \A r \in new[k] : r.request.key = k
  <2>1. TypeOK /\ request \in Requests /\ answer \in Records
    BY <1>3, <1>4 DEF Records
  <2>. QED
    BY <2>1, RecordedIsHeld
<1>6. memory' = new /\ (Saved(new) \/ NotSaved(new))
  BY <1>2
<1>7. answer.request = request /\ \A r \in Held(request) : r.request = request /\ r.state = Intent
  BY DEF Held
<1> HIDE DEF new, answer
<1>8. /\ file' \in {file, new} /\ file' \in [Keys -> SUBSET Records]
      /\ \A k \in Keys : \A r \in file'[k] : r.request.key = k
      /\ faults' \in 0..MaxFaults
  BY <1>4, <1>5, <1>6, SavedOrNot
<1>9. TypeOK'
  <2>1. call' \in [Calls -> [stage : {"idle", "intended", "posted", "answered"}, request : SUBSET Requests]]
    BY DEF IInv, TypeOK, Respond, Idle
  <2>. QED
    BY <1>4, <1>5, <1>6, <1>8, <2>1 DEF TypeOK
<1>10. Keeps(file, new)
  <2> SUFFICES ASSUME NEW k \in Keys, NEW r \in file[k]
               PROVE  \E q \in new[k] : q.request = r.request /\ (r.state # Intent => q.state = r.state)
    BY DEF Keeps
  <2>1. CASE k = request.key
    <3>1. r.request = request /\ r.state = Intent
      BY <1>1, <1>7, <2>1
    <3>. QED
      BY <1>5, <1>7, <2>1, <3>1
  <2>2. CASE k # request.key
    BY <1>5, <2>2 DEF IInv, Keeps
  <2>. QED
    BY <2>1, <2>2
<1>11. Keeps(file, file') /\ Keeps(file, memory)'
  <2>1. Keeps(file, file) /\ Keeps(new, new)
    BY DEF Keeps
  <2>. QED
    BY <1>6, <1>8, <1>10, <2>1 DEF Keeps
<1>12. OneRecord'
  BY <1>5, <1>6, <1>8 DEF IInv, OneRecord
<1>13. \A k \in Keys : \A r \in new[k] : \E q \in memory[k] : q.request = r.request
  <2>1. [request |-> request, state |-> Intent] \in memory[request.key]
    BY <1>1 DEF Held
  <2>. QED
    BY <1>5, <1>7, <2>1
<1>14. OneKey'
  BY <1>6, <1>13 DEF IInv, OneKey
<1>15. \A d \in Calls : call'[d].stage # "idle" =>
         /\ d # c /\ call[d].stage # "idle" /\ call'[d] = call[d]
  BY <1>4 DEF Idle
<1>16. CallsHoldTheirKey'
  <2> SUFFICES ASSUME NEW d \in Calls, call'[d].stage # "idle"
               PROVE  \E q \in Requests : /\ call'[d].request = {q}
                                          /\ memory'[q.key] = Held(q) /\ file'[q.key] = Held(q)
    BY DEF CallsHoldTheirKey
  <2>1. d # c /\ call[d].stage # "idle" /\ call'[d] = call[d]
    BY <1>15
  <2>2. PICK q \in Requests :
          /\ call[d].request = {q} /\ q.key \in Keys
          /\ memory[q.key] = Held(q) /\ file[q.key] = Held(q)
    BY <2>1, CallHolds
  <2>3. q.key # request.key
    BY <1>1, <1>4, <2>1, <2>2 DEF IInv, CallsApart
  <2>. QED
    BY <1>5, <1>6, <1>8, <2>1, <2>2, <2>3
<1>17. CallsApart' /\ NotPostedYet'
  <2>1. CallsApart'
    BY <1>15 DEF IInv, CallsApart
  <2>2. NotPostedYet'
    BY <1>4, <1>15 DEF IInv, NotPostedYet
  <2>. QED
    BY <2>1, <2>2
<1>18. AtMostOnePost' /\ PostedIsOnFile'
  BY <1>4, <1>11, PostsStayOnFile
<1>. QED
  BY <1>9, <1>11, <1>12, <1>14, <1>16, <1>17, <1>18 DEF IInv

LEMMA RestartStep ==
  ASSUME IInv, Restart
  PROVE  IInv' /\ Keeps(file, file')
<1>1. /\ TypeOK /\ memory' = file /\ file' = file /\ posts' = posts
      /\ \A d \in Calls : call'[d] = Idle
  BY DEF IInv, Restart
<1>2. TypeOK'
  <2>1. faults' \in 0..MaxFaults /\ network' \in BOOLEAN
    BY PaymentGatewayAssumption, <1>1 DEF Restart, TypeOK
  <2>2. call' \in [Calls -> [stage : {"idle", "intended", "posted", "answered"}, request : SUBSET Requests]]
    BY DEF Restart, Idle
  <2>. QED
    BY <1>1, <2>1, <2>2 DEF TypeOK
<1>3. Keeps(file, file)
  BY DEF Keeps
<1>4. Keeps(file, file') /\ Keeps(file, memory)'
  BY <1>1, <1>3 DEF Keeps
<1>5. \A k \in Keys : \A r \in file[k] : \E q \in memory[k] : q.request = r.request
  BY DEF IInv, Keeps
<1>6. OneKey'
  BY <1>1, <1>5 DEF IInv, OneKey
<1>7. CallsHoldTheirKey' /\ CallsApart' /\ NotPostedYet'
  BY <1>1 DEF Idle, CallsHoldTheirKey, CallsApart, NotPostedYet
<1>8. AtMostOnePost' /\ PostedIsOnFile'
  BY <1>1, <1>4, PostsStayOnFile
<1>. QED
  BY <1>1, <1>2, <1>4, <1>6, <1>7, <1>8 DEF IInv, OneRecord

LEMMA NextStep ==
  ASSUME IInv, Next
  PROVE  IInv' /\ Keeps(file, file')
<1>1. ASSUME NEW c \in Calls, NEW request \in Requests, Checkout(c, request)
      PROVE  IInv' /\ Keeps(file, file')
  BY <1>1, CheckoutStep
<1>2. ASSUME NEW c \in Calls, NEW request \in Requests, Repeat(c, request)
      PROVE  IInv' /\ Keeps(file, file')
  BY <1>2, Stutter DEF Repeat
<1>3. ASSUME NEW c \in Calls, NetworkDisabled(c) \/ Post(c) \/ Answer(c) \/ Respond(c)
      PROVE  IInv' /\ Keeps(file, file')
  BY <1>3, NetworkDisabledStep, PostStep, AnswerStep, RespondStep
<1>. QED
  BY <1>1, <1>2, <1>3, RestartStep DEF Next, CheckoutNext

-----------------------------------------------------------------------------
\* The invariant of every reachable state.
THEOREM Invariance == Spec => []IInv
<1>1. IInv /\ [Next]_vars => IInv'
  BY NextStep, Stutter
<1>. QED
  BY InitIInv, <1>1, PTL DEF Spec

\* The variables keep their types and every record its key.
THEOREM TypeCorrect == Spec => []TypeOK
<1>1. IInv => TypeOK
  BY DEF IInv
<1>. QED
  BY Invariance, <1>1, PTL

\* Whatever callers retry and however often the process stops, the provider is
\* asked at most once for each transaction.
THEOREM PostedOnce == Spec => []AtMostOnePost
<1>1. IInv => AtMostOnePost
  BY DEF IInv
<1>. QED
  BY Invariance, <1>1, PTL

\* The file knows of every transaction the provider was asked for.
THEOREM PostsAreDurable == Spec => []PostedIsOnFile
<1>1. IInv => PostedIsOnFile
  BY DEF IInv
<1>. QED
  BY Invariance, <1>1, PTL

\* No save takes a request or its result back.
THEOREM NothingForgotten == Spec => FileOnlyGrows
<1>1. IInv /\ [Next]_vars =>
        [\A k \in Keys : \A r \in file[k] : \E q \in file'[k] :
           q.request = r.request /\ (r.state # Intent => q.state = r.state)]_vars
  BY NextStep DEF Keeps
<1>. QED
  BY Invariance, <1>1, PTL DEF Spec, FileOnlyGrows

-----------------------------------------------------------------------------
\* The reconciliation beside the gateway.
\* What only a provider that got the request can have answered.
AnsweredStates == {"CHECKOUT_CREATED", "GATEWAY_REJECTED", "RECONCILIATION_REQUIRED"}

CallsPosted ==
  \A c \in Calls : call[c].stage \in {"posted", "answered"} =>
    \A r \in call[c].request : posts[r.transaction] > 0

AnsweredWasPosted ==
  \A k \in Keys : \A r \in memory[k] \cup file[k] :
    r.state \in AnsweredStates => posts[r.request.transaction] > 0

QueriedWasPosted ==
  \A q \in Queries : \A t \in query[q].transaction : posts[t] > 0

AnswerIsTrue ==
  \A q \in Queries : \A t \in query[q].transaction : \A s \in query[q].answer :
    s \in TerminalStates => s = provider[t]

StatusWasPosted ==
  \A t \in Transactions : status[t] \cup statusFile[t] # {} => posts[t] > 0

OneTransaction ==
  \A q \in Queries : \A t, u \in query[q].transaction : t = u

RInv ==
  /\ IInv /\ TypeOKReconciliation /\ CallsPosted /\ AnsweredWasPosted
  /\ OneTransaction /\ QueriedWasPosted /\ AnswerIsTrue /\ TerminalIsTrue /\ StatusWasPosted

-----------------------------------------------------------------------------
\* The gateway's side: what is answered has been posted, and posts only grow.
Grows == \A t \in Transactions : posts[t] > 0 => posts'[t] > 0

Answered == CallsPosted /\ AnsweredWasPosted

LEMMA StutterAnswered ==
  ASSUME Answered, UNCHANGED vars
  PROVE  Answered' /\ Grows
BY DEF vars, Answered, CallsPosted, AnsweredWasPosted, Grows

\* A record made of a request whose state needs no post, or has one.
LEMMA RecordingAnswered ==
  ASSUME IInv, Answered, NEW request \in Requests, NEW state,
         [request |-> request, state |-> state] \in Records,
         state \in AnsweredStates => posts[request.transaction] > 0,
         memory' = Recorded(request, state), posts' = posts,
         Saved(memory') \/ NotSaved(memory')
  PROVE  AnsweredWasPosted'
<1>1. TypeOK
  BY DEF IInv
<1>2. \A k \in Keys : memory'[k] = IF k = request.key THEN {[request |-> request, state |-> state]} ELSE memory[k]
  BY <1>1, RecordedIsHeld
<1>3. \A k \in Keys : \A r \in memory'[k] : r.state \in AnsweredStates => posts[r.request.transaction] > 0
  BY <1>2 DEF Answered, AnsweredWasPosted
<1>4. file' \in {file, memory'}
  BY DEF Saved, NotSaved
<1>. QED
  BY <1>3, <1>4 DEF Answered, AnsweredWasPosted

LEMMA CheckoutAnswered ==
  ASSUME IInv, Answered, NEW c \in Calls, NEW request \in Requests, Checkout(c, request)
  PROVE  Answered' /\ Grows
<1>1. posts' = posts /\ memory' = Recorded(request, Intent) /\ (Saved(memory') \/ NotSaved(memory'))
  BY DEF Checkout
<1>2. [request |-> request, state |-> Intent] \in Records /\ Intent \notin AnsweredStates
  BY DEF Records, Intent, AnsweredStates
<1>3. AnsweredWasPosted'
  BY <1>1, <1>2, RecordingAnswered
<1>4. call' = [call EXCEPT ![c] = [stage |-> "intended", request |-> {request}]] \/ call' = call
  BY DEF Checkout
<1>5. \A d \in Calls : call'[d] = call[d] \/ call'[d].stage = "intended"
  BY <1>4 DEF IInv, TypeOK
<1>6. CallsPosted'
  BY <1>1, <1>5 DEF Answered, CallsPosted
<1>. QED
  BY <1>1, <1>3, <1>6 DEF Answered, Grows

LEMMA RespondAnswered ==
  ASSUME IInv, Answered, NEW c \in Calls, Respond(c)
  PROVE  Answered' /\ Grows
<1>1. PICK request \in Requests :
        /\ call[c].request = {request} /\ request.key \in Keys
        /\ request.transaction \in Transactions
        /\ memory[request.key] = Held(request) /\ file[request.key] = Held(request)
  BY CallHolds DEF Respond
<1>2. PICK state \in Outcome(c) :
        memory' = Recorded(request, state) /\ (Saved(memory') \/ NotSaved(memory'))
  BY <1>1 DEF Respond
<1>3. posts' = posts
  BY DEF Respond
<1>4. [request |-> request, state |-> state] \in Records
  BY DEF Outcome, Outcomes, Records
<1>5. state \in AnsweredStates => posts[request.transaction] > 0
  <2>1. CASE call[c].stage = "answered"
    BY <1>1, <2>1 DEF Answered, CallsPosted
  <2>2. CASE call[c].stage # "answered"
    BY <2>2 DEF Outcome, AnsweredStates
  <2>. QED
    BY <2>1, <2>2
<1>6. AnsweredWasPosted'
  BY <1>2, <1>3, <1>4, <1>5, RecordingAnswered
<1>7. \A d \in Calls : call'[d] = call[d] \/ call'[d].stage = "idle"
  BY DEF Respond, IInv, TypeOK, Idle
<1>8. CallsPosted'
  BY <1>3, <1>7 DEF Answered, CallsPosted
<1>. QED
  BY <1>3, <1>6, <1>8 DEF Answered, Grows

LEMMA PostAnswered ==
  ASSUME IInv, Answered, NEW c \in Calls, Post(c)
  PROVE  Answered' /\ Grows
<1>1. PICK request \in Requests :
        /\ call[c].request = {request} /\ request.key \in Keys
        /\ request.transaction \in Transactions
        /\ memory[request.key] = Held(request) /\ file[request.key] = Held(request)
  BY CallHolds DEF Post
<1>2. /\ \A t \in Transactions :
           posts'[t] = IF request.transaction = t THEN posts[t] + 1 ELSE posts[t]
      /\ \A t \in Transactions : posts[t] \in Nat
  BY <1>1 DEF Post, IInv, TypeOK
<1>3. Grows /\ posts'[request.transaction] > 0
  BY <1>1, <1>2 DEF Grows
<1>4. memory' = memory /\ file' = file
  BY DEF Post
<1>5. \A k \in Keys : \A r \in memory[k] \cup file[k] : r.request.transaction \in Transactions
  BY DEF IInv, TypeOK, Records, Requests
<1>6. AnsweredWasPosted'
  BY <1>3, <1>4, <1>5 DEF Answered, AnsweredWasPosted, Grows
<1>7. /\ \A d \in Calls : d # c => call'[d] = call[d]
      /\ call'[c].request = {request}
      /\ \A d \in Calls : \A r \in call[d].request : r.transaction \in Transactions
  BY <1>1 DEF Post, IInv, TypeOK, Requests
<1>8. CallsPosted'
  BY <1>3, <1>7 DEF Answered, CallsPosted, Grows
<1>. QED
  BY <1>3, <1>6, <1>8 DEF Answered

LEMMA CheckoutNextAnswered ==
  ASSUME IInv, Answered, CheckoutNext
  PROVE  Answered' /\ Grows
<1>1. ASSUME NEW c \in Calls, NEW request \in Requests, Repeat(c, request)
      PROVE  Answered' /\ Grows
  BY <1>1, StutterAnswered DEF Repeat
<1>2. ASSUME NEW c \in Calls, NetworkDisabled(c)
      PROVE  Answered' /\ Grows
  <2>1. \A d \in Calls : call'[d] = call[d] \/ call'[d].stage = "idle"
    BY <1>2 DEF NetworkDisabled, IInv, TypeOK, Idle
  <2>2. UNCHANGED <<memory, file, posts>>
    BY <1>2 DEF NetworkDisabled
  <2>. QED
    BY <2>1, <2>2 DEF Answered, CallsPosted, AnsweredWasPosted, Grows
<1>3. ASSUME NEW c \in Calls, Answer(c)
      PROVE  Answered' /\ Grows
  <2>1. \A d \in Calls : call'[d].request = call[d].request
                         /\ (call'[d].stage = call[d].stage \/ call[d].stage = "posted")
    BY <1>3 DEF Answer, IInv, TypeOK
  <2>2. UNCHANGED <<memory, file, posts>>
    BY <1>3 DEF Answer
  <2>. QED
    BY <2>1, <2>2 DEF Answered, CallsPosted, AnsweredWasPosted, Grows
<1>. QED
  BY <1>1, <1>2, <1>3, CheckoutAnswered, RespondAnswered, PostAnswered DEF CheckoutNext

LEMMA RestartAnswered ==
  ASSUME IInv, Answered, Restart
  PROVE  Answered' /\ Grows
BY DEF Restart, Idle, Answered, CallsPosted, AnsweredWasPosted, Grows

-----------------------------------------------------------------------------
LEMMA InitRInv == InitReconciliation => RInv
<1> SUFFICES ASSUME InitReconciliation PROVE RInv
  OBVIOUS
<1>1. IInv /\ TypeOK
  BY InitIInv DEF InitReconciliation, IInv
<1>2. TypeOKReconciliation
  BY <1>1 DEF InitReconciliation, TypeOKReconciliation, NoQuery, ProviderStates
<1>3. CallsPosted /\ AnsweredWasPosted
  BY DEF InitReconciliation, Init, Idle, CallsPosted, AnsweredWasPosted
<1>. QED
  BY <1>1, <1>2, <1>3 DEF InitReconciliation, RInv, NoQuery, QueriedWasPosted, AnswerIsTrue,
       TerminalIsTrue, StatusWasPosted, OneTransaction

\* A step of the gateway.
LEMMA GatewayStep ==
  ASSUME RInv, CheckoutNext, UNCHANGED statusVars
  PROVE  RInv'
<1>1. IInv' /\ TypeOK'
  BY NextStep DEF RInv, Next, IInv
<1>2. Answered' /\ Grows
  BY CheckoutNextAnswered DEF RInv, Answered
<1>3. TypeOKReconciliation'
  BY <1>1 DEF RInv, TypeOKReconciliation, statusVars
<1>4. QueriedWasPosted'
  BY <1>2 DEF RInv, QueriedWasPosted, Grows, statusVars, TypeOKReconciliation
<1>5. StatusWasPosted'
  BY <1>2 DEF RInv, StatusWasPosted, Grows, statusVars
<1>6. AnswerIsTrue' /\ TerminalIsTrue' /\ OneTransaction'
  BY DEF RInv, AnswerIsTrue, TerminalIsTrue, OneTransaction, statusVars
<1>. QED
  BY <1>1, <1>2, <1>3, <1>4, <1>5, <1>6 DEF RInv, Answered

LEMMA ConcludeStep ==
  ASSUME RInv, NEW t \in Transactions, Conclude(t)
  PROVE  RInv'
<1>1. UNCHANGED <<vars, status, statusFile, query>> /\ provider[t] = "PAYMENT_PENDING"
  BY DEF Conclude
<1>2. PICK s \in TerminalStates : provider' = [provider EXCEPT ![t] = s]
  BY DEF Conclude
<1>3. IInv' /\ TypeOK' /\ Answered'
  BY <1>1, Stutter, StutterAnswered DEF RInv, Answered, IInv
<1>4. provider' \in [Transactions -> ProviderStates]
  BY <1>2 DEF RInv, TypeOKReconciliation, ProviderStates
<1>5. \A u \in Transactions : provider'[u] = provider[u] \/ provider[u] \notin TerminalStates
  BY <1>1, <1>2 DEF RInv, TypeOKReconciliation, TerminalStates
<1>6. AnswerIsTrue'
  BY <1>1, <1>5 DEF RInv, AnswerIsTrue, TypeOKReconciliation
<1>7. TerminalIsTrue'
  BY <1>1, <1>5 DEF RInv, TerminalIsTrue
<1>8. QueriedWasPosted' /\ StatusWasPosted' /\ OneTransaction'
  BY <1>1 DEF RInv, QueriedWasPosted, StatusWasPosted, OneTransaction, vars
<1>9. TypeOKReconciliation'
  BY <1>1, <1>3, <1>4 DEF RInv, TypeOKReconciliation
<1>. QED
  BY <1>3, <1>6, <1>7, <1>8, <1>9 DEF RInv, Answered

LEMMA AskStep ==
  ASSUME RInv, NEW q \in Queries, NEW t \in Transactions, NEW customer \in Variants, Ask(q, t, customer)
  PROVE  RInv'
<1>1. /\ UNCHANGED <<vars, status, statusFile, provider>> /\ query[q] = NoQuery
      /\ query' = [query EXCEPT ![q].transaction = {t}]
  BY DEF Ask
<1>2. /\ query'[q].transaction = {t} /\ query'[q].answer = {}
      /\ \A p \in Queries : p # q => query'[p] = query[p]
      /\ query' \in [Queries -> [transaction : SUBSET Transactions, answer : SUBSET Statuses]]
  BY <1>1 DEF RInv, TypeOKReconciliation, NoQuery
<1>3. IInv' /\ TypeOK' /\ Answered'
  BY <1>1, Stutter, StutterAnswered DEF RInv, Answered, IInv
<1>4. posts[t] > 0
  <2>1. PICK k \in KeysOf(t) : \E r \in memory[k] : r.request.variant = customer /\ r.state = "CHECKOUT_CREATED"
    BY DEF Ask, CheckoutFound
  <2>2. PICK r \in memory[k] : r.state = "CHECKOUT_CREATED"
    BY <2>1
  <2>3. k \in Keys /\ r.request.transaction = t
    BY <2>1 DEF KeysOf, RInv, IInv, OneRecord
  <2>4. "CHECKOUT_CREATED" \in AnsweredStates
    BY DEF AnsweredStates
  <2>. QED
    BY <2>2, <2>3, <2>4 DEF RInv, AnsweredWasPosted
<1>5. QueriedWasPosted' /\ OneTransaction' /\ AnswerIsTrue'
  BY <1>1, <1>2, <1>4 DEF RInv, QueriedWasPosted, OneTransaction, AnswerIsTrue, vars
<1>6. TerminalIsTrue' /\ StatusWasPosted'
  BY <1>1 DEF RInv, TerminalIsTrue, StatusWasPosted, vars
<1>7. TypeOKReconciliation'
  BY <1>1, <1>2, <1>3 DEF RInv, TypeOKReconciliation
<1>. QED
  BY <1>3, <1>5, <1>6, <1>7 DEF RInv, Answered

LEMMA ProviderAnswersStep ==
  ASSUME RInv, NEW q \in Queries, ProviderAnswers(q)
  PROVE  RInv'
<1>1. UNCHANGED <<vars, status, statusFile, provider>>
  BY DEF ProviderAnswers
<1>2. PICK t \in query[q].transaction : \E s \in Read(t) : query' = [query EXCEPT ![q].answer = {s}]
  BY DEF ProviderAnswers
<1>3. PICK s \in Read(t) : query' = [query EXCEPT ![q].answer = {s}]
  BY <1>2
<1>4. t \in Transactions /\ provider[t] \in ProviderStates
  BY DEF RInv, TypeOKReconciliation
<1>5. s \in Statuses /\ (s \in TerminalStates => s = provider[t])
  BY <1>4 DEF Read, Statuses, TerminalStates
<1>6. /\ query'[q].transaction = query[q].transaction /\ query'[q].answer = {s}
      /\ \A p \in Queries : p # q => query'[p] = query[p]
      /\ query' \in [Queries -> [transaction : SUBSET Transactions, answer : SUBSET Statuses]]
  BY <1>3, <1>5 DEF RInv, TypeOKReconciliation
<1>7. IInv' /\ TypeOK' /\ Answered'
  BY <1>1, Stutter, StutterAnswered DEF RInv, Answered, IInv
<1>8. QueriedWasPosted' /\ OneTransaction'
  BY <1>1, <1>6 DEF RInv, QueriedWasPosted, OneTransaction, vars
<1>9. AnswerIsTrue'
  <2>1. \A u \in query'[q].transaction : u = t
    BY <1>6 DEF RInv, OneTransaction
  <2>. QED
    BY <1>1, <1>5, <1>6, <2>1 DEF RInv, AnswerIsTrue
<1>10. TerminalIsTrue' /\ StatusWasPosted'
  BY <1>1 DEF RInv, TerminalIsTrue, StatusWasPosted, vars
<1>11. TypeOKReconciliation'
  BY <1>1, <1>6, <1>7 DEF RInv, TypeOKReconciliation
<1>. QED
  BY <1>7, <1>8, <1>9, <1>10, <1>11 DEF RInv, Answered

LEMMA RecordStep ==
  ASSUME RInv, NEW q \in Queries, Record(q)
  PROVE  RInv'
<1>1. UNCHANGED <<memory, file, call, network, posts, provider>> /\ faults' \in {faults, faults + 1}
      /\ statusFile' \in {statusFile, status'}
  BY DEF Record
<1>2. PICK t \in query[q].transaction, s \in query[q].answer : status' = [status EXCEPT ![t] = {s}]
  BY DEF Record
<1>3. /\ t \in Transactions /\ s \in Statuses /\ posts[t] > 0
      /\ (s \in TerminalStates => s = provider[t])
  BY DEF RInv, TypeOKReconciliation, QueriedWasPosted, AnswerIsTrue
<1>4. /\ status' \in [Transactions -> SUBSET Statuses]
      /\ status'[t] = {s} /\ \A u \in Transactions : u # t => status'[u] = status[u]
  BY <1>2, <1>3 DEF RInv, TypeOKReconciliation
<1>5. /\ query'[q] = NoQuery /\ \A p \in Queries : p # q => query'[p] = query[p]
      /\ query' \in [Queries -> [transaction : SUBSET Transactions, answer : SUBSET Statuses]]
  BY DEF Record, RInv, TypeOKReconciliation, NoQuery
<1>6. faults' \in 0..MaxFaults
  BY PaymentGatewayAssumption DEF Record, RInv, IInv, TypeOK
<1>7. IInv' /\ TypeOK'
  BY <1>1, <1>6 DEF RInv, IInv, TypeOK, Keeps, OneRecord, OneKey, CallsHoldTheirKey, CallsApart,
       NotPostedYet, AtMostOnePost, PostedIsOnFile
<1>8. CallsPosted' /\ AnsweredWasPosted'
  BY <1>1 DEF RInv, CallsPosted, AnsweredWasPosted
<1>9. QueriedWasPosted' /\ OneTransaction' /\ AnswerIsTrue'
  BY <1>1, <1>5 DEF RInv, QueriedWasPosted, OneTransaction, AnswerIsTrue, NoQuery
<1>10. \A u \in Transactions : \A x \in status'[u] : x \in TerminalStates => x = provider[u]
  BY <1>3, <1>4 DEF RInv, TerminalIsTrue
<1>11. TerminalIsTrue'
  BY <1>1, <1>10 DEF RInv, TerminalIsTrue
<1>12. \A u \in Transactions : status'[u] # {} => posts[u] > 0
  BY <1>3, <1>4 DEF RInv, StatusWasPosted
<1>13. StatusWasPosted'
  BY <1>1, <1>12 DEF RInv, StatusWasPosted
<1>14. TypeOKReconciliation'
  BY <1>1, <1>4, <1>5, <1>7 DEF RInv, TypeOKReconciliation
<1>. QED
  BY <1>7, <1>8, <1>9, <1>11, <1>13, <1>14 DEF RInv

LEMMA RestartBothStep ==
  ASSUME RInv, RestartBoth
  PROVE  RInv'
<1>1. Restart /\ UNCHANGED <<statusFile, provider>> /\ status' = statusFile /\ posts' = posts
      /\ query' = [q \in Queries |-> NoQuery]
  BY DEF RestartBoth, Restart
<1>2. IInv' /\ TypeOK' /\ Answered'
  BY <1>1, RestartStep, RestartAnswered DEF RInv, IInv, Answered
<1>3. \A q \in Queries : query'[q] = NoQuery
  BY <1>1
<1>4. QueriedWasPosted' /\ OneTransaction' /\ AnswerIsTrue'
  BY <1>3 DEF QueriedWasPosted, OneTransaction, AnswerIsTrue, NoQuery
<1>5. TerminalIsTrue' /\ StatusWasPosted'
  BY <1>1 DEF RInv, TerminalIsTrue, StatusWasPosted
<1>6. TypeOKReconciliation'
  BY <1>1, <1>2 DEF RInv, TypeOKReconciliation, NoQuery
<1>. QED
  BY <1>2, <1>4, <1>5, <1>6 DEF RInv, Answered

LEMMA StutterRInv ==
  ASSUME RInv, UNCHANGED allVars
  PROVE  RInv'
<1>1. UNCHANGED vars /\ UNCHANGED statusVars
  BY DEF allVars
<1>2. IInv' /\ TypeOK' /\ Answered'
  BY <1>1, Stutter, StutterAnswered DEF RInv, Answered, IInv
<1>. QED
  BY <1>1, <1>2 DEF RInv, Answered, TypeOKReconciliation, OneTransaction, QueriedWasPosted,
       AnswerIsTrue, TerminalIsTrue, StatusWasPosted, vars, statusVars

LEMMA NextRInv == RInv /\ [NextReconciliation]_allVars => RInv'
<1> SUFFICES ASSUME RInv, NextReconciliation PROVE RInv'
  BY StutterRInv
<1>1. ASSUME NEW q \in Queries, NEW t \in Transactions, Recall(q, t)
      PROVE  RInv'
  BY <1>1, StutterRInv DEF Recall
<1>. QED
  BY <1>1, GatewayStep, ConcludeStep, AskStep, ProviderAnswersStep, RecordStep, RestartBothStep
     DEF NextReconciliation

-----------------------------------------------------------------------------
\* The invariant of the gateway and the reconciliation together.
THEOREM InvarianceReconciliation == SpecReconciliation => []RInv
BY InitRInv, NextRInv, PTL DEF SpecReconciliation

\* A terminal state in memory or on file is what the provider's session ended in.
THEOREM TerminalStatesAreTrue == SpecReconciliation => []TerminalIsTrue
<1>1. RInv => TerminalIsTrue
  BY DEF RInv
<1>. QED
  BY InvarianceReconciliation, <1>1, PTL

\* Only what was posted, once, and is on the gateway's file has a status.
THEOREM StatusesNeedPosts == SpecReconciliation => []StatusNeedsPost
<1>1. RInv => StatusNeedsPost
  <2> SUFFICES ASSUME RInv, NEW t \in Transactions, status[t] \cup statusFile[t] # {}
               PROVE  posts[t] = 1 /\ \E k \in Keys : \E r \in file[k] : r.request.transaction = t
    BY DEF StatusNeedsPost
  <2>1. posts[t] > 0 /\ posts[t] <= 1 /\ posts[t] \in Nat
    BY DEF RInv, IInv, StatusWasPosted, AtMostOnePost, TypeOK
  <2>. QED
    BY <2>1 DEF RInv, IInv, PostedIsOnFile
<1>. QED
  BY InvarianceReconciliation, <1>1, PTL

LEMMA KeepsTerminal == RInv /\ NextReconciliation => TerminalKept
<1>1. ASSUME RInv, NEW q \in Queries, Record(q)
      PROVE  TerminalKept
  <2>1. statusFile' \in {statusFile, status'}
    BY <1>1 DEF Record
  <2>2. PICK t \in query[q].transaction, s \in query[q].answer : status' = [status EXCEPT ![t] = {s}]
    BY <1>1 DEF Record
  <2>3. \A u \in Transactions : u # t => status'[u] = status[u]
    BY <1>1, <2>2 DEF RInv, TypeOKReconciliation
  <2>. QED
    BY <2>1, <2>2, <2>3 DEF TerminalKept
<1>. QED
  BY <1>1 DEF NextReconciliation, statusVars, Conclude, Recall, allVars, Ask, ProviderAnswers, RestartBoth,
       TerminalKept

\* A saved terminal state outlives every later step but the recording of a query
\* that was already under way.
THEOREM SavedTerminalStays == SpecReconciliation => StickyOnceQuiet
<1>1. RInv /\ [NextReconciliation]_allVars => [TerminalKept]_allVars
  BY KeepsTerminal
<1>. QED
  BY InvarianceReconciliation, <1>1, PTL DEF SpecReconciliation, StickyOnceQuiet
=============================================================================
