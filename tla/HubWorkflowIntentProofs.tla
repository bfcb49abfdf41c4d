----------------------- MODULE HubWorkflowIntentProofs ----------------------
(***************************************************************************)
(* Theorems about HubWorkflowIntent.  The point of the invariant is what   *)
(* a revision certifies: a caller that still holds the revision of the     *)
(* stored record holds the stored record, so that what it checked on its   *)
(* copy is true of what it replaces.                                       *)
(***************************************************************************)
EXTENDS HubWorkflowIntent, TLAPS

SamePins(q, r) ==
  /\ q.digest = r.digest /\ q.route = r.route
  /\ q.assignment = r.assignment /\ q.expires = r.expires

OneRecord == \A s \in Scopes : \A q, r \in record[s] : q = r

MarkedOnce == \A s \in Scopes : \A r \in record[s] :
  (r.state = "RESERVED_SYNTHETIC") <=> (r.markedAt = 0)

OpenedRecord == \A s \in Scopes : opened[s] <= 1 /\ (opened[s] = 1 => record[s] # {})

\* A call that passed the gate found its assignment; one about to write has a
\* copy that is older than the stored record or equal to it.
Backed(w) == \A request \in call[w].request :
  /\ call[w].stage = "gated" =>
       \E r \in record[request.scope] : r.assignment = request.assignment
  /\ call[w].stage \in {"gated", "mark"} => call[w].at \in Times
  /\ call[w].stage \in {"mark", "ambiguous"} => \A seen \in call[w].seen :
       \E r \in record[request.scope] :
         /\ SamePins(seen, r)
         /\ seen.revision <= r.revision
         /\ seen.revision = r.revision => seen = r
  /\ call[w].stage \in {"mark", "ambiguous"} => \A seen \in call[w].seen :
       (seen.state = "RESERVED_SYNTHETIC") <=> (seen.markedAt = 0)
  /\ call[w].stage = "mark" => \A seen \in call[w].seen :
       /\ seen.digest = request.digest /\ seen.route = request.route
       /\ seen.assignment = request.assignment
       /\ call[w].at <= seen.expires
       /\ seen.state # "RECONCILIATION_REQUIRED"
  /\ call[w].stage = "ambiguous" => \A seen \in call[w].seen :
       seen.state = "POSSIBLE_EXTERNAL_MUTATION"

IInv ==
  /\ TypeOK /\ OneRecord /\ MarkedOnce /\ OpenedRecord /\ MarksKeepThePins
  /\ \A w \in Workers : Backed(w)

-----------------------------------------------------------------------------
\* No record disappears and none changes what it pins.
PinsStay == \A s \in Scopes : \A q \in record[s] : \E r \in record'[s] : SamePins(q, r)

\* So what has been said about the records stays true of them.
LEMMA PinsKept ==
  ASSUME IInv, PinsStay, opened' = opened, marks' = marks
  PROVE  OpenedRecord' /\ MarksKeepThePins'
<1>1. OpenedRecord'
  BY DEF IInv, PinsStay, OpenedRecord
<1>2. \A m \in marks : m[1] \in Scopes
  BY DEF IInv, TypeOK
<1>. QED
  BY <1>1, <1>2 DEF IInv, PinsStay, SamePins, MarksKeepThePins

LEMMA InitIInv == Init => IInv
<1> SUFFICES ASSUME Init PROVE IInv
  OBVIOUS
<1>1. TypeOK
  BY HubWorkflowIntentAssumption DEF Init, TypeOK, Idle, Calls, Results, Decisions
<1>2. \A w \in Workers : Backed(w)
  BY DEF Init, Idle, Backed
<1>. QED
  BY <1>1, <1>2 DEF Init, IInv, OneRecord, MarkedOnce, OpenedRecord, MarksKeepThePins

\* A step that only changes one call keeps the invariant if the call is backed.
LEMMA CallStep ==
  ASSUME IInv, NEW w \in Workers, NEW c \in Calls, call' = [call EXCEPT ![w] = c],
         UNCHANGED <<record, opened, marks>>, Backed(w)'
  PROVE  IInv'
<1>1. TypeOK'
  BY DEF IInv, TypeOK
<1>2. (OneRecord /\ MarkedOnce /\ OpenedRecord /\ MarksKeepThePins)'
  BY DEF IInv, OneRecord, MarkedOnce, OpenedRecord, MarksKeepThePins
<1>3. ASSUME NEW v \in Workers, v # w PROVE Backed(v)'
  <2>1. call'[v] = call[v] /\ Backed(v)
    BY <1>3 DEF IInv, TypeOK
  <2>. QED
    BY <2>1 DEF Backed, SamePins
<1>. QED
  BY <1>1, <1>2, <1>3 DEF IInv

\* So does a call that returns, even when its step wrote the record, as long as
\* the write keeps the pins and moves the revision on.
LEMMA Returned ==
  ASSUME IInv, NEW w \in Workers, NEW result \in Results, Return(w, result),
         UNCHANGED <<record, opened, marks>>
  PROVE  IInv'
<1>1. Idle(result) \in Calls
  BY HubWorkflowIntentAssumption DEF Idle, Calls
<1>2. call'[w] = Idle(result)
  BY DEF Return, IInv, TypeOK
<1>3. Backed(w)'
  BY <1>2 DEF Idle, Backed
<1>. QED
  BY <1>1, <1>3, CallStep DEF Return

LEMMA Stored ==
  ASSUME IInv, NEW w \in Workers, NEW result \in Results, Return(w, result),
         NEW s \in Scopes, NEW r \in Records, record' = [record EXCEPT ![s] = {r}],
         \A q \in record[s] : SamePins(q, r) /\ q.revision < r.revision,
         (r.state = "RESERVED_SYNTHETIC") <=> (r.markedAt = 0)
  PROVE  /\ record' \in [Scopes -> SUBSET Records] /\ call' \in [Workers -> Calls]
         /\ OneRecord' /\ MarkedOnce' /\ \A v \in Workers : Backed(v)'
<1>1. Idle(result) \in Calls
  BY HubWorkflowIntentAssumption DEF Idle, Calls
<1>2. record' \in [Scopes -> SUBSET Records] /\ call' \in [Workers -> Calls]
  BY <1>1 DEF Return, IInv, TypeOK
<1>3. OneRecord' /\ MarkedOnce'
  BY DEF IInv, TypeOK, OneRecord, MarkedOnce
<1>4. Backed(w)'
  <2>1. call'[w].request = {}
    BY DEF Return, IInv, TypeOK, Idle
  <2>. QED
    BY <2>1 DEF Backed
<1>5. ASSUME NEW v \in Workers, v # w PROVE Backed(v)'
  <2>1. call'[v] = call[v] /\ Backed(v) /\ call[v] \in Calls
    BY <1>5 DEF Return, IInv, TypeOK
  <2>2. SUFFICES ASSUME NEW request \in call[v].request PROVE
          /\ call[v].stage = "gated" =>
               \E q \in record'[request.scope] : q.assignment = request.assignment
          /\ call[v].stage \in {"mark", "ambiguous"} => \A seen \in call[v].seen :
               \E q \in record'[request.scope] :
                 /\ SamePins(seen, q)
                 /\ seen.revision <= q.revision
                 /\ seen.revision = q.revision => seen = q
    BY <2>1 DEF Backed
  <2>3. request.scope \in Scopes /\ call[v].seen \subseteq Records
    BY <2>1, <2>2 DEF Calls, Requests
  <2>4. CASE request.scope # s
    <3>1. record'[request.scope] = record[request.scope]
      BY <2>3, <2>4 DEF IInv, TypeOK
    <3>. QED
      BY <2>1, <3>1 DEF Backed
  <2>5. CASE request.scope = s
    <3>1. record'[request.scope] = {r}
      BY <2>5 DEF IInv, TypeOK
    <3>2. \A q \in record[s] : SamePins(q, r) /\ q.revision < r.revision /\ q \in Records
      BY DEF IInv, TypeOK
    <3>3. call[v].stage = "gated" => r.assignment = request.assignment
      BY <2>1, <2>5, <3>2 DEF Backed, SamePins
    <3>4. ASSUME call[v].stage \in {"mark", "ambiguous"}, NEW seen \in call[v].seen
          PROVE  SamePins(seen, r) /\ seen.revision < r.revision
      <4>1. PICK q \in record[s] : SamePins(seen, q) /\ seen.revision <= q.revision
        BY <2>1, <2>5, <3>4 DEF Backed
      <4>2. seen.revision \in Nat /\ q.revision \in Nat /\ r.revision \in Nat
        BY <2>3, <3>2 DEF Records
      <4>3. SamePins(q, r) /\ q.revision < r.revision
        BY <3>2
      <4>. QED
        BY <4>1, <4>2, <4>3 DEF SamePins
    <3>5. \A seen \in call[v].seen : seen.revision \in Nat
      BY <2>3 DEF Records
    <3>6. r.revision \in Nat
      BY DEF Records
    <3>. QED
      BY <3>1, <3>3, <3>4, <3>5, <3>6
  <2>. QED
    BY <2>4, <2>5
<1>. QED
  BY <1>2, <1>3, <1>4, <1>5

-----------------------------------------------------------------------------
LEMMA BusyIsCall ==
  ASSUME NEW stage \in {"create", "raced", "gated", "mark", "ambiguous"},
         NEW request \in Requests, NEW at \in 0..MaxTime, NEW seen \in SUBSET Records
  PROVE  Busy(stage, request, at, seen) \in Calls
BY DEF Busy, Calls, Results, Decisions

LEMMA Times0 == 0 \in 0..MaxTime /\ Times \subseteq 0..MaxTime
BY HubWorkflowIntentAssumption DEF Times

LEMMA ReserveStep ==
  ASSUME IInv, NEW w \in Workers, NEW request \in Requests, Reserve(w, request)
  PROVE  IInv'
<1>1. record[request.scope] \subseteq Records
  BY DEF IInv, TypeOK, Requests
<1>2. CASE record[request.scope] = {}
  <2>1. Continue(w, "create", request, 0, {})
    BY <1>2 DEF Reserve
  <2>2. Busy("create", request, 0, {}) \in Calls
    BY BusyIsCall, Times0
  <2>3. call'[w] = Busy("create", request, 0, {})
    BY <2>1 DEF Continue, IInv, TypeOK
  <2>4. Backed(w)'
    BY <2>3 DEF Backed, Busy
  <2>. QED
    BY <2>1, <2>2, <2>4, CallStep DEF Reserve, Continue
<1>3. CASE record[request.scope] # {}
  <2>1. PICK existing \in record[request.scope] :
          Return(w, DecisionForExisting(existing, request))
    BY <1>3 DEF Reserve
  <2>2. DecisionForExisting(existing, request) \in Results
    BY <1>1 DEF DecisionForExisting, Results, Decisions
  <2>. QED
    BY <2>1, <2>2, Returned DEF Reserve
<1>. QED
  BY <1>2, <1>3

LEMMA NewRecordIsRecord ==
  ASSUME NEW request \in Requests
  PROVE  NewRecord(request) \in Records
BY HubWorkflowIntentAssumption DEF NewRecord, Requests, Records, States

LEMMA CreateStep ==
  ASSUME IInv, NEW w \in Workers, Create(w)
  PROVE  IInv'
<1>1. PICK request \in call[w].request :
        \/ /\ record[request.scope] = {}
           /\ record' = [record EXCEPT ![request.scope] = {NewRecord(request)}]
           /\ \/ Return(w, "RESERVED_NEW") /\ opened' = [opened EXCEPT ![request.scope] = @ + 1]
              \/ Return(w, "error") /\ UNCHANGED opened
        \/ /\ Continue(w, "raced", request, 0, {})
           /\ UNCHANGED <<record, opened>>
  BY DEF Create
<1>2. request \in Requests /\ request.scope \in Scopes /\ marks' = marks
  BY DEF IInv, TypeOK, Calls, Requests, Create
<1>3. CASE /\ record[request.scope] = {}
           /\ record' = [record EXCEPT ![request.scope] = {NewRecord(request)}]
           /\ \/ Return(w, "RESERVED_NEW") /\ opened' = [opened EXCEPT ![request.scope] = @ + 1]
              \/ Return(w, "error") /\ UNCHANGED opened
  <2>1. NewRecord(request) \in Records
    BY <1>2, NewRecordIsRecord
  <2>2. (NewRecord(request).state = "RESERVED_SYNTHETIC") <=> (NewRecord(request).markedAt = 0)
    BY DEF NewRecord
  <2>3. PICK result \in {"RESERVED_NEW", "error"} : Return(w, result)
    BY <1>3
  <2>4. result \in Results
    BY <2>3 DEF Results
  <2>5. /\ record' \in [Scopes -> SUBSET Records] /\ call' \in [Workers -> Calls]
        /\ OneRecord' /\ MarkedOnce' /\ \A v \in Workers : Backed(v)'
    BY <1>2, <1>3, <2>1, <2>2, <2>3, <2>4, Stored
  <2>6. /\ opened' \in [Scopes -> Nat]
        /\ \A s \in Scopes : opened'[s] <= 1 /\ (opened'[s] = 1 => record'[s] # {})
    <3>1. opened \in [Scopes -> Nat] /\ record \in [Scopes -> SUBSET Records]
      BY DEF IInv, TypeOK
    <3>2. opened[request.scope] = 0
      BY <1>2, <1>3, <3>1 DEF IInv, OpenedRecord
    <3>. QED
      BY <1>2, <1>3, <3>1, <3>2 DEF IInv, OpenedRecord
  <2>7. MarksKeepThePins'
    <3>1. \A m \in marks : m[1] # request.scope /\ m[1] \in Scopes
      BY <1>3 DEF IInv, MarksKeepThePins, TypeOK
    <3>2. \A s \in Scopes : s # request.scope => record'[s] = record[s]
      BY <1>3 DEF IInv, TypeOK
    <3>. QED
      BY <1>2, <3>1, <3>2 DEF IInv, MarksKeepThePins
  <2>. QED
    BY <1>2, <2>5, <2>6, <2>7 DEF IInv, TypeOK, OpenedRecord
<1>4. CASE Continue(w, "raced", request, 0, {}) /\ UNCHANGED <<record, opened>>
  <2>1. Busy("raced", request, 0, {}) \in Calls
    BY <1>2, BusyIsCall, Times0
  <2>2. call'[w] = Busy("raced", request, 0, {})
    BY <1>4 DEF Continue, IInv, TypeOK
  <2>3. Backed(w)'
    BY <2>2 DEF Backed, Busy
  <2>. QED
    BY <1>2, <1>4, <2>1, <2>3, CallStep DEF Continue
<1>. QED
  BY <1>1, <1>3, <1>4

LEMMA RacedStep ==
  ASSUME IInv, NEW w \in Workers, Raced(w)
  PROVE  IInv'
<1>1. PICK request \in call[w].request : \E existing \in record[request.scope] :
        Return(w, DecisionForExisting(existing, request))
  BY DEF Raced
<1>3. PICK existing \in record[request.scope] : Return(w, DecisionForExisting(existing, request))
  BY <1>1
<1>2. DecisionForExisting(existing, request) \in Results
  BY DEF DecisionForExisting, Results, Decisions
<1>. QED
  BY <1>2, <1>3, Returned DEF Raced

LEMMA GateStep ==
  ASSUME IInv, NEW w \in Workers, NEW request \in Requests, NEW at \in Times,
         Gate(w, request, at)
  PROVE  IInv'
<1>1. CASE record[request.scope] = {} /\ Return(w, "NO_RESERVATION")
  <2>1. "NO_RESERVATION" \in Results
    BY DEF Results, Decisions
  <2>. QED
    BY <1>1, <2>1, Returned DEF Gate
<1>2. ASSUME NEW existing \in record[request.scope],
             LET decision == Certify(existing, request, at)
             IN  IF decision = "SYNTHETIC_DISPATCH_ELIGIBLE"
                   THEN Continue(w, "gated", request, at, {})
                   ELSE Return(w, decision)
      PROVE  IInv'
  <2>1. CASE Certify(existing, request, at) = "SYNTHETIC_DISPATCH_ELIGIBLE"
    <3>1. existing.assignment = request.assignment
      BY <2>1 DEF Certify
    <3>2. Continue(w, "gated", request, at, {})
      BY <1>2, <2>1
    <3>3. Busy("gated", request, at, {}) \in Calls
      BY BusyIsCall, Times0
    <3>4. call'[w] = Busy("gated", request, at, {})
      BY <3>2 DEF Continue, IInv, TypeOK
    <3>5. record' = record
      BY DEF Gate
    <3>6. Backed(w)'
      BY <3>1, <3>4, <3>5 DEF Backed, Busy
    <3>. QED
      BY <3>2, <3>3, <3>6, CallStep DEF Gate, Continue
  <2>2. CASE Certify(existing, request, at) # "SYNTHETIC_DISPATCH_ELIGIBLE"
    <3>1. Certify(existing, request, at) \in Results
      BY <2>2 DEF Certify, Results, Decisions
    <3>. QED
      BY <1>2, <2>2, <3>1, Returned DEF Gate
  <2>. QED
    BY <2>1, <2>2
<1>. QED
  BY <1>1, <1>2 DEF Gate

LEMMA RecheckStep ==
  ASSUME IInv, NEW w \in Workers, Recheck(w)
  PROVE  IInv'
<1>1. PICK request \in call[w].request : \E existing \in record[request.scope] :
       IF /\ existing.digest = request.digest
          /\ existing.route = request.route
          /\ call[w].at <= existing.expires
          /\ existing.state # "RECONCILIATION_REQUIRED"
         THEN Continue(w, "mark", request, call[w].at, {existing})
         ELSE Return(w, "error")
  BY DEF Recheck
<1>2. PICK existing \in record[request.scope] :
       IF /\ existing.digest = request.digest
          /\ existing.route = request.route
          /\ call[w].at <= existing.expires
          /\ existing.state # "RECONCILIATION_REQUIRED"
         THEN Continue(w, "mark", request, call[w].at, {existing})
         ELSE Return(w, "error")
  BY <1>1
<1>3. request \in Requests /\ request.scope \in Scopes /\ existing \in Records
      /\ call[w].at \in 0..MaxTime
  BY DEF IInv, TypeOK, Calls, Requests
<1>4. UNCHANGED <<record, opened, marks>> /\ call[w].stage = "gated"
  BY DEF Recheck
<1>5. CASE Return(w, "error")
  <2>1. "error" \in Results
    BY DEF Results
  <2>. QED
    BY <1>4, <1>5, <2>1, Returned
<1>6. CASE /\ existing.digest = request.digest
           /\ existing.route = request.route
           /\ call[w].at <= existing.expires
           /\ existing.state # "RECONCILIATION_REQUIRED"
           /\ Continue(w, "mark", request, call[w].at, {existing})
  <2>1. existing.assignment = request.assignment /\ call[w].at \in Times
    BY <1>3, <1>4 DEF IInv, Backed, OneRecord
  <2>2. Busy("mark", request, call[w].at, {existing}) \in Calls
    BY <1>3, BusyIsCall
  <2>3. call'[w] = Busy("mark", request, call[w].at, {existing})
    BY <1>6 DEF Continue, IInv, TypeOK
  <2>4. /\ existing.revision <= existing.revision
        /\ (existing.state = "RESERVED_SYNTHETIC") <=> (existing.markedAt = 0)
    BY <1>3 DEF Records, IInv, MarkedOnce
  <2>5. Backed(w)'
    BY <1>4, <1>6, <2>1, <2>3, <2>4 DEF Backed, Busy, SamePins
  <2>. QED
    BY <1>4, <1>6, <2>2, <2>5, CallStep DEF Continue
<1>. QED
  BY <1>2, <1>5, <1>6

LEMMA AmbiguousStep ==
  ASSUME IInv, NEW w \in Workers, NEW request \in Requests, Ambiguous(w, request)
  PROVE  IInv'
<1>1. UNCHANGED <<record, opened, marks>>
  BY DEF Ambiguous
<1>2. CASE Return(w, "error")
  <2>1. "error" \in Results
    BY DEF Results
  <2>. QED
    BY <1>1, <1>2, <2>1, Returned
<1>3. ASSUME NEW existing \in record[request.scope],
             existing.digest = request.digest,
             existing.state = "POSSIBLE_EXTERNAL_MUTATION",
             Continue(w, "ambiguous", request, 0, {existing})
      PROVE  IInv'
  <2>1. /\ existing \in Records
        /\ (existing.state = "RESERVED_SYNTHETIC") <=> (existing.markedAt = 0)
    BY DEF IInv, TypeOK, Requests, MarkedOnce
  <2>2. Busy("ambiguous", request, 0, {existing}) \in Calls
    BY <2>1, BusyIsCall, Times0
  <2>3. call'[w] = Busy("ambiguous", request, 0, {existing})
    BY <1>3 DEF Continue, IInv, TypeOK
  <2>4. existing.revision <= existing.revision
    BY <2>1 DEF Records
  <2>5. \E r \in record'[request.scope] :
          /\ SamePins(existing, r)
          /\ existing.revision <= r.revision
          /\ existing.revision = r.revision => existing = r
    BY <1>1, <1>3, <2>4 DEF SamePins
  <2>6. Backed(w)'
    BY <1>3, <2>1, <2>3, <2>5 DEF Backed, Busy
  <2>. QED
    BY <1>1, <1>3, <2>2, <2>6, CallStep DEF Continue
<1>. QED
  BY <1>2, <1>3 DEF Ambiguous

\* What compareAndSet writes replaces exactly the record the caller loaded.
LEMMA Swap ==
  ASSUME IInv, NEW w \in Workers, call[w].stage \in {"mark", "ambiguous"},
         NEW request \in call[w].request, NEW seen \in call[w].seen,
         seen.revision < MaxRevision, NEW updated \in Records, SamePins(seen, updated),
         (updated.state = "RESERVED_SYNTHETIC") <=> (updated.markedAt = 0),
         CompareAndSet(w, request.scope, seen, updated)
  PROVE  /\ record' \in [Scopes -> SUBSET Records] /\ call' \in [Workers -> Calls]
         /\ OneRecord' /\ MarkedOnce' /\ PinsStay /\ \A v \in Workers : Backed(v)'
         /\ \/ UNCHANGED record
            \/ /\ record[request.scope] = {seen}
               /\ record' = [record EXCEPT ![request.scope] =
                               {[updated EXCEPT !.revision = seen.revision + 1]}]
<1>1. request.scope \in Scopes /\ seen \in Records
  BY DEF IInv, TypeOK, Calls, Requests
<1>2. CASE \E current \in record[request.scope] : current.revision = seen.revision
  <2> DEFINE new == [updated EXCEPT !.revision = seen.revision + 1]
  <2>1. record[request.scope] = {seen}
    <3>1. PICK current \in record[request.scope] : current.revision = seen.revision
      BY <1>2
    <3>2. \E r \in record[request.scope] : seen.revision = r.revision => seen = r
      BY DEF IInv, Backed
    <3>3. \A r \in record[request.scope] : r = current
      BY <1>1 DEF IInv, OneRecord
    <3>. QED
      BY <3>1, <3>2, <3>3
  <2>2. record' = [record EXCEPT ![request.scope] = {new}]
    BY <1>2 DEF CompareAndSet
  <2>3. PICK result \in {"stored", "error"} : Return(w, result)
    BY <1>2 DEF CompareAndSet
  <2>4. result \in Results
    BY <2>3 DEF Results
  <2>5. new \in Records /\ seen.revision \in Nat
    BY <1>1, HubWorkflowIntentAssumption DEF Records
  <2>6. new.revision = seen.revision + 1
    BY DEF Records
  <2>7. /\ SamePins(seen, new) /\ new.state = updated.state /\ new.markedAt = updated.markedAt
    BY DEF SamePins, Records
  <2>8. seen.revision < new.revision
    BY <2>5, <2>6
  <2>9. (new.state = "RESERVED_SYNTHETIC") <=> (new.markedAt = 0)
    BY <2>7
  <2> HIDE DEF new
  <2>10. \A q \in record[request.scope] : SamePins(q, new) /\ q.revision < new.revision
    BY <2>1, <2>7, <2>8
  <2>11. /\ record' \in [Scopes -> SUBSET Records] /\ call' \in [Workers -> Calls]
         /\ OneRecord' /\ MarkedOnce' /\ \A v \in Workers : Backed(v)'
    BY <1>1, <2>2, <2>3, <2>4, <2>5, <2>9, <2>10, Stored
  <2>12. PinsStay
    BY <1>1, <2>1, <2>2, <2>7 DEF PinsStay, SamePins, IInv, TypeOK
  <2>. QED
    BY <2>1, <2>2, <2>11, <2>12 DEF new
<1>3. CASE ~ \E current \in record[request.scope] : current.revision = seen.revision
  <2> DEFINE result == "CONCURRENT_UPDATE_REVIEW_REQUIRED"
  <2>1. UNCHANGED record /\ Return(w, result)
    BY <1>3 DEF CompareAndSet
  <2>2. Idle(result) \in Calls
    BY HubWorkflowIntentAssumption DEF Idle, Calls, Results
  <2>3. call' \in [Workers -> Calls]
    BY <2>1, <2>2 DEF Return, IInv, TypeOK
  <2>4. Backed(w)'
    BY <2>1 DEF Return, IInv, TypeOK, Idle, Backed
  <2>5. ASSUME NEW v \in Workers, v # w PROVE Backed(v)'
    <3>1. call'[v] = call[v] /\ Backed(v)
      BY <2>1, <2>5 DEF Return, IInv, TypeOK
    <3>. QED
      BY <2>1, <3>1 DEF Backed, SamePins
  <2>. QED
    BY <2>1, <2>3, <2>4, <2>5 DEF IInv, TypeOK, OneRecord, MarkedOnce, PinsStay, SamePins
<1>. QED
  BY <1>2, <1>3

LEMMA CommitAmbiguousStep ==
  ASSUME IInv, NEW w \in Workers, CommitAmbiguous(w)
  PROVE  IInv'
<1>1. PICK request \in call[w].request : \E seen \in call[w].seen :
        /\ seen.revision < MaxRevision
        /\ CompareAndSet(w, request.scope, seen, [seen EXCEPT !.state = "RECONCILIATION_REQUIRED"])
  BY DEF CommitAmbiguous
<1>2. PICK seen \in call[w].seen :
        /\ seen.revision < MaxRevision
        /\ CompareAndSet(w, request.scope, seen, [seen EXCEPT !.state = "RECONCILIATION_REQUIRED"])
  BY <1>1
<1> DEFINE updated == [seen EXCEPT !.state = "RECONCILIATION_REQUIRED"]
<1>3. request.scope \in Scopes /\ seen \in Records /\ call[w].stage = "ambiguous"
  BY DEF IInv, TypeOK, Calls, Requests, CommitAmbiguous
<1>4. updated \in Records /\ SamePins(seen, updated) /\ updated.markedAt = seen.markedAt
      /\ updated.state = "RECONCILIATION_REQUIRED"
  BY <1>3 DEF Records, States, SamePins
<1>5. seen.state = "POSSIBLE_EXTERNAL_MUTATION"
  BY <1>3 DEF IInv, Backed
<1>6. seen.markedAt # 0
  BY <1>3, <1>5 DEF IInv, Backed
<1> HIDE DEF updated
<1>7. CompareAndSet(w, request.scope, seen, updated)
  BY <1>2 DEF updated
<1>8. /\ record' \in [Scopes -> SUBSET Records] /\ call' \in [Workers -> Calls]
      /\ OneRecord' /\ MarkedOnce' /\ PinsStay /\ \A v \in Workers : Backed(v)'
      /\ \/ UNCHANGED record
         \/ /\ record[request.scope] = {seen}
            /\ record' = [record EXCEPT ![request.scope] =
                            {[updated EXCEPT !.revision = seen.revision + 1]}]
  BY <1>2, <1>3, <1>4, <1>6, <1>7, Swap
<1>9. opened' = opened /\ marks' = marks
  BY DEF CommitAmbiguous
<1>. QED
  BY <1>8, <1>9, PinsKept DEF IInv, TypeOK

LEMMA CommitMarkStep ==
  ASSUME IInv, NEW w \in Workers, CommitMark(w)
  PROVE  IInv'
<1>1. PICK request \in call[w].request : \E seen \in call[w].seen :
       /\ seen.revision < MaxRevision
       /\ CompareAndSet(w, request.scope, seen,
            [seen EXCEPT !.state = "POSSIBLE_EXTERNAL_MUTATION",
                         !.markedAt = IF @ = 0 THEN call[w].at ELSE @])
       /\ marks' = IF record' = record THEN marks
                   ELSE marks \cup {<<request.scope, request, call[w].at>>}
  BY DEF CommitMark
<1>2. PICK seen \in call[w].seen :
       /\ seen.revision < MaxRevision
       /\ CompareAndSet(w, request.scope, seen,
            [seen EXCEPT !.state = "POSSIBLE_EXTERNAL_MUTATION",
                         !.markedAt = IF @ = 0 THEN call[w].at ELSE @])
       /\ marks' = IF record' = record THEN marks
                   ELSE marks \cup {<<request.scope, request, call[w].at>>}
  BY <1>1
<1> DEFINE updated == [seen EXCEPT !.state = "POSSIBLE_EXTERNAL_MUTATION",
                                   !.markedAt = IF @ = 0 THEN call[w].at ELSE @]
<1>3. /\ request \in Requests /\ request.scope \in Scopes /\ seen \in Records
      /\ call[w].stage = "mark" /\ call[w].at \in Times /\ call[w].at # 0
  BY DEF IInv, Backed, TypeOK, Calls, Requests, CommitMark, Times
<1>4. updated \in Records /\ SamePins(seen, updated) /\ updated.markedAt # 0
      /\ updated.state = "POSSIBLE_EXTERNAL_MUTATION"
  BY <1>3, Times0 DEF Records, States, SamePins
<1> HIDE DEF updated
<1>5. CompareAndSet(w, request.scope, seen, updated)
  BY <1>2 DEF updated
<1>6. /\ record' \in [Scopes -> SUBSET Records] /\ call' \in [Workers -> Calls]
      /\ OneRecord' /\ MarkedOnce' /\ PinsStay /\ \A v \in Workers : Backed(v)'
      /\ \/ UNCHANGED record
         \/ /\ record[request.scope] = {seen}
            /\ record' = [record EXCEPT ![request.scope] =
                            {[updated EXCEPT !.revision = seen.revision + 1]}]
  BY <1>2, <1>3, <1>4, <1>5, Swap
<1>7. opened' = opened
  BY DEF CommitMark
<1>8. OpenedRecord'
  BY <1>6, <1>7 DEF IInv, PinsStay, OpenedRecord
<1>9. \A m \in marks : \E r \in record'[m[1]] :
        /\ r.digest = m[2].digest
        /\ r.route = m[2].route
        /\ r.assignment = m[2].assignment
        /\ m[3] <= r.expires
  BY <1>6 DEF IInv, TypeOK, MarksKeepThePins, PinsStay, SamePins
<1>10. CASE marks' = marks
  BY <1>6, <1>7, <1>8, <1>9, <1>10 DEF IInv, TypeOK, MarksKeepThePins
<1>11. CASE /\ record[request.scope] = {seen} /\ marks' # marks
            /\ marks' = marks \cup {<<request.scope, request, call[w].at>>}
  <2>1. \E r \in record'[request.scope] : SamePins(seen, r)
    BY <1>3, <1>6, <1>11 DEF PinsStay
  <2>2. /\ seen.digest = request.digest /\ seen.route = request.route
        /\ seen.assignment = request.assignment /\ call[w].at <= seen.expires
    BY <1>3 DEF IInv, Backed
  <2> DEFINE kept(m) == \E r \in record'[m[1]] :
                          /\ r.digest = m[2].digest
                          /\ r.route = m[2].route
                          /\ r.assignment = m[2].assignment
                          /\ m[3] <= r.expires
  <2>3. MarksKeepThePins'
    <3>1. PICK r \in record'[request.scope] : SamePins(seen, r)
      BY <2>1
    <3>2. r.digest = request.digest /\ r.route = request.route
          /\ r.assignment = request.assignment /\ call[w].at <= r.expires
      BY <2>2, <3>1 DEF SamePins
    <3>3. kept(<<request.scope, request, call[w].at>>)
      BY <3>2
    <3>4. \A m \in marks : kept(m)
      BY <1>9
    <3>5. \A m \in marks' : kept(m)
      BY <1>11, <3>3, <3>4
    <3>. QED
      BY <3>5 DEF MarksKeepThePins
  <2>4. marks' \subseteq Scopes \X Requests \X Times
    BY <1>3, <1>11 DEF IInv, TypeOK
  <2>. QED
    BY <1>6, <1>7, <1>8, <2>3, <2>4 DEF IInv, TypeOK
<1>. QED
  BY <1>2, <1>6, <1>10, <1>11

LEMMA RestoreStep ==
  ASSUME IInv, Restore
  PROVE  IInv'
<1>1. \A s \in Scopes : record'[s] = {[r EXCEPT !.revision = 1] : r \in record[s]}
  BY DEF Restore
<1>2. \A s \in Scopes : \A r \in record[s] :
        LET q == [r EXCEPT !.revision = 1]
        IN  q \in Records /\ SamePins(r, q) /\ q.state = r.state /\ q.markedAt = r.markedAt
  BY HubWorkflowIntentAssumption DEF IInv, TypeOK, Records, SamePins
<1>3. record' \in [Scopes -> SUBSET Records]
  BY <1>1, <1>2 DEF Restore
<1>4. OneRecord' /\ MarkedOnce' /\ PinsStay
  <2>1. OneRecord'
    BY <1>1 DEF IInv, OneRecord
  <2>2. ASSUME NEW s \in Scopes, NEW q \in record'[s]
        PROVE  (q.state = "RESERVED_SYNTHETIC") <=> (q.markedAt = 0)
    <3>1. PICK r \in record[s] : q = [r EXCEPT !.revision = 1]
      BY <1>1
    <3>. QED
      BY <1>2, <3>1 DEF IInv, MarkedOnce
  <2>3. PinsStay
    BY <1>1, <1>2 DEF PinsStay
  <2>. QED
    BY <2>1, <2>2, <2>3 DEF MarkedOnce
<1>5. OpenedRecord' /\ MarksKeepThePins'
  BY <1>4, PinsKept DEF Restore
<1>6. Idle("none") \in Calls
  BY HubWorkflowIntentAssumption DEF Idle, Calls, Results
<1>7. call' \in [Workers -> Calls] /\ \A w \in Workers : Backed(w)'
  BY <1>6 DEF Restore, Idle, Backed
<1>. QED
  BY <1>3, <1>4, <1>5, <1>7 DEF Restore, IInv, TypeOK

LEMMA IInvStep == IInv /\ [Next]_vars => IInv'
<1>1. ASSUME IInv, UNCHANGED vars PROVE IInv'
  BY <1>1 DEF vars, IInv, TypeOK, OneRecord, MarkedOnce, OpenedRecord, MarksKeepThePins,
     Backed, SamePins
<1>2. ASSUME IInv, NEW w \in Workers, Die(w) PROVE IInv'
  <2>1. "error" \in Results
    BY DEF Results
  <2>. QED
    BY <1>2, <2>1, Returned DEF Die
<1>. QED
  BY <1>1, <1>2, ReserveStep, CreateStep, RacedStep, GateStep, RecheckStep, CommitMarkStep,
     AmbiguousStep, CommitAmbiguousStep, RestoreStep DEF Next

THEOREM Invariance == Spec => []IInv
BY InitIInv, IInvStep, PTL DEF Spec

\* Types hold for any number of keys, workers, digests, routes and revisions.
THEOREM TypeCorrect == Spec => []TypeOK
BY Invariance, PTL DEF IInv

\* Racing reservations, crashes and restores open one logical workflow per key.
THEOREM OneWorkflowPerKey == Spec => []OneLogicalWorkflow
<1>1. IInv => OneLogicalWorkflow
  BY DEF IInv, OpenedRecord, OneLogicalWorkflow
<1>. QED
  BY <1>1, Invariance, PTL

\* No stored mark went over another route, intent or assignment than the
\* reserved one, or after its expiry, although marks check a copy.
THEOREM NoFallbackAfterReservation == Spec => []MarksKeepThePins
BY Invariance, PTL DEF IInv

-----------------------------------------------------------------------------
\* The refinement.  What a key shows of its one record:
LEMMA View ==
  ASSUME NEW r
  PROVE  /\ PhaseOf({r}) = IF r.state = "RESERVED_SYNTHETIC" THEN "reserved"
                           ELSE IF r.state = "POSSIBLE_EXTERNAL_MUTATION" THEN "possible"
                           ELSE "reconcile"
         /\ PinsOf({r}) = {[digest |-> r.digest, route |-> r.route,
                            assignment |-> r.assignment, expires |-> r.expires]}
         /\ FirstMark({r}) = r.markedAt
<1>1. PhaseOf({r}) = IF r.state = "RESERVED_SYNTHETIC" THEN "reserved"
                     ELSE IF r.state = "POSSIBLE_EXTERNAL_MUTATION" THEN "possible"
                     ELSE "reconcile"
  BY DEF PhaseOf
<1>2. PinsOf({r}) = {[digest |-> r.digest, route |-> r.route,
                      assignment |-> r.assignment, expires |-> r.expires]}
  BY DEF PinsOf
<1>3. (CHOOSE q \in {r} : TRUE) = r
  OBVIOUS
<1>. QED
  BY <1>1, <1>2, <1>3 DEF FirstMark

LEMMA ViewOfNone == PhaseOf({}) = "none" /\ PinsOf({}) = {} /\ FirstMark({}) = 0
BY DEF PhaseOf, PinsOf, FirstMark

\* A write to one key moves one key of the abstract reservation.
LEMMA MovedKey ==
  ASSUME IInv, NEW s \in Scopes, NEW r \in Records, record' = [record EXCEPT ![s] = {r}]
  PROVE  /\ [k \in Scopes |-> PhaseOf(record'[k])] =
              [[k \in Scopes |-> PhaseOf(record[k])] EXCEPT ![s] = PhaseOf({r})]
         /\ [k \in Scopes |-> PinsOf(record'[k])] =
              [[k \in Scopes |-> PinsOf(record[k])] EXCEPT ![s] = PinsOf({r})]
         /\ [k \in Scopes |-> FirstMark(record'[k])] =
              [[k \in Scopes |-> FirstMark(record[k])] EXCEPT ![s] = FirstMark({r})]
BY DEF IInv, TypeOK

LEMMA CreateMoves ==
  ASSUME IInv, NEW w \in Workers, Create(w)
  PROVE  UNCHANGED record \/ \E s \in Scopes : Promise!Reserve(s)
<1>1. PICK request \in call[w].request :
        \/ /\ record[request.scope] = {}
           /\ record' = [record EXCEPT ![request.scope] = {NewRecord(request)}]
        \/ UNCHANGED record
  BY DEF Create
<1>2. request \in Requests /\ request.scope \in Scopes
  BY DEF IInv, TypeOK, Calls, Requests
<1>3. CASE /\ record[request.scope] = {}
           /\ record' = [record EXCEPT ![request.scope] = {NewRecord(request)}]
  <2> DEFINE s == request.scope
             new == NewRecord(request)
             pin == [digest |-> request.digest, route |-> request.route,
                     assignment |-> request.assignment, expires |-> request.expires]
  <2>1. new \in Records
    BY <1>2, NewRecordIsRecord
  <2>2. PhaseOf({new}) = "reserved" /\ PinsOf({new}) = {pin} /\ FirstMark({new}) = 0
    <3>1. /\ new.state = "RESERVED_SYNTHETIC" /\ new.markedAt = 0
          /\ pin = [digest |-> new.digest, route |-> new.route,
                    assignment |-> new.assignment, expires |-> new.expires]
      BY DEF NewRecord
    <3>2. /\ PhaseOf({new}) = IF new.state = "RESERVED_SYNTHETIC" THEN "reserved"
                              ELSE IF new.state = "POSSIBLE_EXTERNAL_MUTATION" THEN "possible"
                              ELSE "reconcile"
          /\ PinsOf({new}) = {[digest |-> new.digest, route |-> new.route,
                               assignment |-> new.assignment, expires |-> new.expires]}
          /\ FirstMark({new}) = new.markedAt
      BY View
    <3>. QED
      BY <3>1, <3>2
  <2>3. pin \in [digest : Digests, route : Routes, assignment : Assignments, expires : Times]
    BY <1>2 DEF Requests
  <2>4. PhaseOf(record[s]) = "none" /\ FirstMark(record[s]) = 0
    BY <1>3, ViewOfNone
  <2>8. record' = [record EXCEPT ![s] = {new}] /\ s \in Scopes
    BY <1>2, <1>3
  <2> HIDE DEF new, pin, s
  <2>9. /\ [k \in Scopes |-> PhaseOf(record'[k])] =
             [[k \in Scopes |-> PhaseOf(record[k])] EXCEPT ![s] = PhaseOf({new})]
        /\ [k \in Scopes |-> PinsOf(record'[k])] =
             [[k \in Scopes |-> PinsOf(record[k])] EXCEPT ![s] = PinsOf({new})]
        /\ [k \in Scopes |-> FirstMark(record'[k])] =
             [[k \in Scopes |-> FirstMark(record[k])] EXCEPT ![s] = FirstMark({new})]
    BY <2>1, <2>8, MovedKey
  <2>5. /\ [k \in Scopes |-> PhaseOf(record'[k])] =
             [[k \in Scopes |-> PhaseOf(record[k])] EXCEPT ![s] = "reserved"]
        /\ [k \in Scopes |-> PinsOf(record'[k])] =
             [[k \in Scopes |-> PinsOf(record[k])] EXCEPT ![s] = {pin}]
        /\ [k \in Scopes |-> FirstMark(record'[k])] =
             [[k \in Scopes |-> FirstMark(record[k])] EXCEPT ![s] = 0]
    BY <2>2, <2>9
  <2>6. [k \in Scopes |-> FirstMark(record'[k])] = [k \in Scopes |-> FirstMark(record[k])]
    BY <2>4, <2>5
  <2>7. Promise!Reserve(s)
    BY <2>3, <2>4, <2>5, <2>6, <2>8 DEF Promise!Reserve
  <2>. QED
    BY <2>7, <2>8
<1>. QED
  BY <1>1, <1>3

\* A caller's swap, on the abstract reservation: its key goes from the phase
\* and marks of what it loaded to those of what it writes, with the same pins.
LEMMA SwapMoves ==
  ASSUME IInv, NEW s \in Scopes, NEW seen \in Records, NEW updated \in Records,
         SamePins(seen, updated), record[s] = {seen}, seen.revision < MaxRevision,
         record' = [record EXCEPT ![s] = {[updated EXCEPT !.revision = seen.revision + 1]}]
  PROVE  /\ PhaseOf(record[s]) = PhaseOf({seen}) /\ PinsOf(record[s]) = PinsOf({seen})
         /\ FirstMark(record[s]) = seen.markedAt
         /\ [k \in Scopes |-> PhaseOf(record'[k])] =
              [[k \in Scopes |-> PhaseOf(record[k])] EXCEPT ![s] = PhaseOf({updated})]
         /\ [k \in Scopes |-> PinsOf(record'[k])] = [k \in Scopes |-> PinsOf(record[k])]
         /\ [k \in Scopes |-> FirstMark(record'[k])] =
              [[k \in Scopes |-> FirstMark(record[k])] EXCEPT ![s] = updated.markedAt]
<1> DEFINE new == [updated EXCEPT !.revision = seen.revision + 1]
<1>1. new \in Records
  BY HubWorkflowIntentAssumption DEF Records
<1>2. /\ new.state = updated.state /\ new.markedAt = updated.markedAt
      /\ new.digest = updated.digest /\ new.route = updated.route
      /\ new.assignment = updated.assignment /\ new.expires = updated.expires
  BY DEF Records
<1>3. record' = [record EXCEPT ![s] = {new}]
  OBVIOUS
<1> HIDE DEF new
<1>4. /\ PhaseOf({new}) = PhaseOf({updated}) /\ FirstMark({new}) = updated.markedAt
      /\ PinsOf({new}) = PinsOf({updated})
  BY <1>2, View
<1>5. PinsOf({updated}) = PinsOf({seen}) /\ FirstMark({seen}) = seen.markedAt
  BY View DEF SamePins
<1>6. /\ [k \in Scopes |-> PhaseOf(record'[k])] =
           [[k \in Scopes |-> PhaseOf(record[k])] EXCEPT ![s] = PhaseOf({new})]
      /\ [k \in Scopes |-> PinsOf(record'[k])] =
           [[k \in Scopes |-> PinsOf(record[k])] EXCEPT ![s] = PinsOf({new})]
      /\ [k \in Scopes |-> FirstMark(record'[k])] =
           [[k \in Scopes |-> FirstMark(record[k])] EXCEPT ![s] = FirstMark({new})]
  BY <1>1, <1>3, MovedKey
<1>7. PhaseOf(record[s]) = PhaseOf({seen}) /\ PinsOf(record[s]) = PinsOf({seen})
      /\ FirstMark(record[s]) = seen.markedAt
  BY <1>5
<1>8. PinsOf({new}) = PinsOf(record[s])
  BY <1>4, <1>5
<1>9. [[k \in Scopes |-> PinsOf(record[k])] EXCEPT ![s] = PinsOf({new})] =
        [k \in Scopes |-> PinsOf(record[k])]
  BY <1>8
<1>10. [k \in Scopes |-> PinsOf(record'[k])] = [k \in Scopes |-> PinsOf(record[k])]
  BY <1>6, <1>9
<1>. QED
  BY <1>4, <1>6, <1>7, <1>10

LEMMA CommitMarkMoves ==
  ASSUME IInv, NEW w \in Workers, CommitMark(w)
  PROVE  Promise!Next \/ UNCHANGED Promise!reservationVars
<1>1. PICK request \in call[w].request : \E seen \in call[w].seen :
       /\ seen.revision < MaxRevision
       /\ CompareAndSet(w, request.scope, seen,
            [seen EXCEPT !.state = "POSSIBLE_EXTERNAL_MUTATION",
                         !.markedAt = IF @ = 0 THEN call[w].at ELSE @])
  BY DEF CommitMark
<1>2. PICK seen \in call[w].seen :
       /\ seen.revision < MaxRevision
       /\ CompareAndSet(w, request.scope, seen,
            [seen EXCEPT !.state = "POSSIBLE_EXTERNAL_MUTATION",
                         !.markedAt = IF @ = 0 THEN call[w].at ELSE @])
  BY <1>1
<1> DEFINE updated == [seen EXCEPT !.state = "POSSIBLE_EXTERNAL_MUTATION",
                                   !.markedAt = IF @ = 0 THEN call[w].at ELSE @]
           s == request.scope
<1>3. /\ s \in Scopes /\ seen \in Records /\ call[w].stage = "mark"
      /\ call[w].at \in Times /\ call[w].at # 0 /\ call[w].at <= seen.expires
      /\ seen.state # "RECONCILIATION_REQUIRED"
  BY DEF IInv, Backed, TypeOK, Calls, Requests, CommitMark, Times
<1>4. (seen.state = "RESERVED_SYNTHETIC") <=> (seen.markedAt = 0)
  BY <1>3 DEF IInv, Backed
<1>5. /\ updated \in Records /\ SamePins(seen, updated)
      /\ updated.state = "POSSIBLE_EXTERNAL_MUTATION" /\ updated.markedAt # 0
      /\ updated.markedAt = IF seen.markedAt = 0 THEN call[w].at ELSE seen.markedAt
  BY <1>3, Times0 DEF Records, States, SamePins
<1> HIDE DEF updated
<1>6. CompareAndSet(w, s, seen, updated)
  BY <1>2 DEF updated
<1>7. \/ UNCHANGED record
      \/ /\ record[s] = {seen}
         /\ record' = [record EXCEPT ![s] = {[updated EXCEPT !.revision = seen.revision + 1]}]
  BY <1>2, <1>3, <1>4, <1>5, <1>6, Swap
<1> HIDE DEF s
<1>8. CASE UNCHANGED record
  BY <1>8 DEF Promise!reservationVars
<1>9. CASE /\ record[s] = {seen}
           /\ record' = [record EXCEPT ![s] = {[updated EXCEPT !.revision = seen.revision + 1]}]
  <2>1. /\ PhaseOf(record[s]) = PhaseOf({seen}) /\ PinsOf(record[s]) = PinsOf({seen})
        /\ FirstMark(record[s]) = seen.markedAt
        /\ [k \in Scopes |-> PhaseOf(record'[k])] =
             [[k \in Scopes |-> PhaseOf(record[k])] EXCEPT ![s] = PhaseOf({updated})]
        /\ [k \in Scopes |-> PinsOf(record'[k])] = [k \in Scopes |-> PinsOf(record[k])]
        /\ [k \in Scopes |-> FirstMark(record'[k])] =
             [[k \in Scopes |-> FirstMark(record[k])] EXCEPT ![s] = updated.markedAt]
    BY <1>2, <1>3, <1>5, <1>9, SwapMoves
  <2>2. PhaseOf({updated}) = "possible"
    BY <1>5, View
  <2>3. CASE seen.state = "RESERVED_SYNTHETIC"
    <3>1. PhaseOf(record[s]) = "reserved"
      BY <2>1, <2>3, View
    <3>2. updated.markedAt = call[w].at
      BY <1>4, <1>5, <2>3
    <3>3. \A p \in PinsOf(record[s]) : call[w].at <= p.expires
      BY <1>3, <2>1, View
    <3>4. Promise!Mark(s)
      BY <1>3, <2>1, <2>2, <3>1, <3>2, <3>3 DEF Promise!Mark
    <3>. QED
      BY <1>3, <3>4 DEF Promise!Next
  <2>4. CASE seen.state # "RESERVED_SYNTHETIC"
    <3>1. PhaseOf(record[s]) = "possible"
      <4>1. seen.state = "POSSIBLE_EXTERNAL_MUTATION"
        BY <1>3, <2>4 DEF Records, States
      <4>. QED
        BY <2>1, <4>1, View
    <3>2. FirstMark(record[s]) = updated.markedAt
      BY <1>4, <1>5, <2>1, <2>4
    <3>3. [k \in Scopes |-> PhaseOf(record'[k])] = [k \in Scopes |-> PhaseOf(record[k])]
      BY <2>1, <2>2, <3>1
    <3>4. [k \in Scopes |-> FirstMark(record'[k])] = [k \in Scopes |-> FirstMark(record[k])]
      BY <2>1, <3>2
    <3>. QED
      BY <2>1, <3>3, <3>4 DEF Promise!reservationVars
  <2>. QED
    BY <2>3, <2>4
<1>. QED
  BY <1>7, <1>8, <1>9

LEMMA CommitAmbiguousMoves ==
  ASSUME IInv, NEW w \in Workers, CommitAmbiguous(w)
  PROVE  UNCHANGED record \/ \E s \in Scopes : Promise!Reconcile(s)
<1>1. PICK request \in call[w].request : \E seen \in call[w].seen :
        /\ seen.revision < MaxRevision
        /\ CompareAndSet(w, request.scope, seen, [seen EXCEPT !.state = "RECONCILIATION_REQUIRED"])
  BY DEF CommitAmbiguous
<1>2. PICK seen \in call[w].seen :
        /\ seen.revision < MaxRevision
        /\ CompareAndSet(w, request.scope, seen, [seen EXCEPT !.state = "RECONCILIATION_REQUIRED"])
  BY <1>1
<1> DEFINE updated == [seen EXCEPT !.state = "RECONCILIATION_REQUIRED"]
           s == request.scope
<1>3. /\ s \in Scopes /\ seen \in Records /\ call[w].stage = "ambiguous"
      /\ seen.state = "POSSIBLE_EXTERNAL_MUTATION" /\ seen.markedAt # 0
  BY DEF IInv, TypeOK, Backed, Calls, Requests, CommitAmbiguous
<1>4. updated \in Records /\ SamePins(seen, updated) /\ updated.markedAt = seen.markedAt
      /\ updated.state = "RECONCILIATION_REQUIRED"
  BY <1>3 DEF Records, States, SamePins
<1> HIDE DEF updated
<1>5. CompareAndSet(w, s, seen, updated)
  BY <1>2 DEF updated
<1>6. \/ UNCHANGED record
      \/ /\ record[s] = {seen}
         /\ record' = [record EXCEPT ![s] = {[updated EXCEPT !.revision = seen.revision + 1]}]
  BY <1>2, <1>3, <1>4, <1>5, Swap
<1> HIDE DEF s
<1>7. CASE /\ record[s] = {seen}
           /\ record' = [record EXCEPT ![s] = {[updated EXCEPT !.revision = seen.revision + 1]}]
  <2>1. /\ PhaseOf(record[s]) = PhaseOf({seen}) /\ PinsOf(record[s]) = PinsOf({seen})
        /\ FirstMark(record[s]) = seen.markedAt
        /\ [k \in Scopes |-> PhaseOf(record'[k])] =
             [[k \in Scopes |-> PhaseOf(record[k])] EXCEPT ![s] = PhaseOf({updated})]
        /\ [k \in Scopes |-> PinsOf(record'[k])] = [k \in Scopes |-> PinsOf(record[k])]
        /\ [k \in Scopes |-> FirstMark(record'[k])] =
             [[k \in Scopes |-> FirstMark(record[k])] EXCEPT ![s] = updated.markedAt]
    BY <1>2, <1>3, <1>4, <1>7, SwapMoves
  <2>2. PhaseOf({updated}) = "reconcile" /\ PhaseOf(record[s]) = "possible"
    BY <1>3, <1>4, <2>1, View
  <2>3. [k \in Scopes |-> FirstMark(record'[k])] = [k \in Scopes |-> FirstMark(record[k])]
    BY <1>3, <1>4, <2>1
  <2>4. Promise!Reconcile(s)
    BY <1>3, <2>1, <2>2, <2>3 DEF Promise!Reconcile
  <2>. QED
    BY <1>3, <2>4
<1>. QED
  BY <1>6, <1>7

LEMMA RestoreMoves ==
  ASSUME IInv, Restore
  PROVE  UNCHANGED Promise!reservationVars
<1>1. ASSUME NEW s \in Scopes
      PROVE  /\ PhaseOf(record'[s]) = PhaseOf(record[s]) /\ PinsOf(record'[s]) = PinsOf(record[s])
             /\ FirstMark(record'[s]) = FirstMark(record[s])
  <2>1. CASE record[s] = {}
    BY <2>1 DEF Restore
  <2>2. CASE record[s] # {}
    <3>1. PICK r : record[s] = {r} /\ r \in Records
      BY <2>2 DEF IInv, OneRecord, TypeOK
    <3> DEFINE new == [r EXCEPT !.revision = 1]
    <3>2. record'[s] = {new}
      BY <3>1 DEF Restore
    <3>3. /\ new.state = r.state /\ new.markedAt = r.markedAt
          /\ new.digest = r.digest /\ new.route = r.route
          /\ new.assignment = r.assignment /\ new.expires = r.expires
      BY <3>1 DEF Records
    <3> HIDE DEF new
    <3>4. /\ PhaseOf({new}) = PhaseOf({r}) /\ FirstMark({new}) = FirstMark({r})
          /\ PinsOf({new}) = PinsOf({r})
      BY <3>3, View
    <3>. QED
      BY <3>1, <3>2, <3>4
  <2>. QED
    BY <2>1, <2>2
<1>. QED
  BY <1>1 DEF Promise!reservationVars

LEMMA ReservationStep == IInv /\ [Next]_vars => [Promise!Next]_(Promise!reservationVars)
<1> SUFFICES ASSUME IInv, [Next]_vars PROVE Promise!Next \/ UNCHANGED Promise!reservationVars
  OBVIOUS
<1>1. CASE UNCHANGED record
  BY <1>1 DEF Promise!reservationVars
<1>2. ASSUME NEW w \in Workers, Create(w) PROVE Promise!Next \/ UNCHANGED record
  BY <1>2, CreateMoves DEF Promise!Next
<1>3. ASSUME NEW w \in Workers, CommitAmbiguous(w) PROVE Promise!Next \/ UNCHANGED record
  BY <1>3, CommitAmbiguousMoves DEF Promise!Next
<1>4. \/ UNCHANGED record
      \/ Restore
      \/ \E w \in Workers : Create(w) \/ CommitMark(w) \/ CommitAmbiguous(w)
  BY DEF Next, vars, Reserve, Raced, Gate, Recheck, Ambiguous, Die
<1>. QED
  BY <1>1, <1>2, <1>3, <1>4, CommitMarkMoves, RestoreMoves

\* The store implements the reservation it promises: for every number of keys
\* and workers, whatever they race and wherever they stop.
THEOREM StoreImplementsReservation == Spec => ImplementsReservation
<1>1. Init => Promise!Init
  <2>1. ASSUME NEW s \in Scopes, record[s] = {}
        PROVE PhaseOf(record[s]) = "none" /\ PinsOf(record[s]) = {} /\ FirstMark(record[s]) = 0
    BY <2>1, ViewOfNone
  <2>. QED
    BY <2>1 DEF Init, Promise!Init
<1>. QED
  BY <1>1, Invariance, ReservationStep, PTL DEF Spec, ImplementsReservation, Promise!Spec

\* A reservation left to reconciliation is never written again: whoever swaps
\* it has loaded the stored record, and refuses one in that state.
LEMMA LateSwap ==
  ASSUME IInv, NEW w \in Workers, CommitMark(w) \/ CommitAmbiguous(w),
         NEW s \in Scopes, NEW r \in record[s], r.state = "RECONCILIATION_REQUIRED"
  PROVE  record'[s] = record[s]
<1>1. PICK request \in call[w].request : \E seen \in call[w].seen : \E updated :
        CompareAndSet(w, request.scope, seen, updated)
  BY DEF CommitMark, CommitAmbiguous
<1>2. PICK seen \in call[w].seen : \E updated : CompareAndSet(w, request.scope, seen, updated)
  BY <1>1
<1>3. PICK updated : CompareAndSet(w, request.scope, seen, updated)
  BY <1>2
<1>4. call[w].stage \in {"mark", "ambiguous"} /\ request.scope \in Scopes
  <2>1. call[w].stage \in {"mark", "ambiguous"}
    BY DEF CommitMark, CommitAmbiguous
  <2>2. request \in Requests
    BY DEF IInv, TypeOK, Calls
  <2>. QED
    BY <2>1, <2>2 DEF Requests
<1>5. seen.state # "RECONCILIATION_REQUIRED"
  BY <1>4 DEF IInv, Backed
<1>6. CASE \E current \in record[request.scope] : current.revision = seen.revision
  <2>1. seen \in record[request.scope]
    <3>1. PICK current \in record[request.scope] : current.revision = seen.revision
      BY <1>6
    <3>2. \E q \in record[request.scope] : seen.revision = q.revision => seen = q
      BY <1>4 DEF IInv, Backed
    <3>3. \A q \in record[request.scope] : q = current
      BY <1>4 DEF IInv, OneRecord
    <3>. QED
      BY <3>1, <3>2, <3>3
  <2>2. request.scope # s
    BY <1>5, <2>1 DEF IInv, OneRecord
  <2>. QED
    BY <1>3, <1>6, <2>2 DEF CompareAndSet, IInv, TypeOK
<1>7. CASE ~ \E current \in record[request.scope] : current.revision = seen.revision
  BY <1>3, <1>7 DEF CompareAndSet
<1>. QED
  BY <1>6, <1>7

THEOREM NothingAfterReconciliation == Spec => ReconciliationIsFinal
<1>1. ASSUME IInv, [Next]_vars, NEW s \in Scopes, NEW r \in record[s],
             r.state = "RECONCILIATION_REQUIRED"
      PROVE  record'[s] \in {record[s], {[r EXCEPT !.revision = 1]}}
  <2>1. CASE Restore
    <3>1. record[s] = {r}
      BY <1>1 DEF IInv, OneRecord
    <3>. QED
      BY <1>1, <2>1, <3>1 DEF Restore
  <2>2. ASSUME NEW w \in Workers, Create(w) PROVE record'[s] = record[s]
    BY <1>1, <2>2 DEF Create, IInv, TypeOK, Calls, Requests
  <2>3. ASSUME NEW w \in Workers, CommitMark(w) \/ CommitAmbiguous(w)
        PROVE  record'[s] = record[s]
    BY <1>1, <2>3, LateSwap
  <2>4. \/ UNCHANGED record
        \/ Restore
        \/ \E w \in Workers : Create(w) \/ CommitMark(w) \/ CommitAmbiguous(w)
    BY <1>1 DEF Next, vars, Reserve, Raced, Gate, Recheck, Ambiguous, Die
  <2>. QED
    BY <2>1, <2>2, <2>3, <2>4
<1>2. IInv /\ [Next]_vars =>
        [\A s \in Scopes : \A r \in record[s] :
           r.state = "RECONCILIATION_REQUIRED" =>
             record'[s] \in {record[s], {[r EXCEPT !.revision = 1]}}]_vars
  BY <1>1
<1>. QED
  BY <1>2, Invariance, PTL DEF Spec, ReconciliationIsFinal
=============================================================================
