--------------------------- MODULE HubEvidenceProofs ---------------------------
(***************************************************************************)
(* Proofs about the parts of MCHub that evaluate evidence or answer reads  *)
(* from it, laid out as those of HubProofs.                                *)
(***************************************************************************)
EXTENDS MCHub, Sequences, FiniteSetTheorems, TLAPS

-----------------------------------------------------------------------------
\* OfflineEvidence.  An authorization is only found for a reservation that was just
\* made, and an unknown outcome only where the reservation says so.
CaptureScopes == {r.scope : r \in Captures}
CaptureRecord == [request : Captures, queuedAt : Nat, attempts : Nat]

\* What one evaluation may add to what is known of a key.
Justified(e, reservation) ==
  /\ e.scope \in CaptureScopes
  /\ e.outcome = "AUTHORIZED_SYNTHETIC" =>
       reservation[e.scope] # {} /\ \A x \in reservation[e.scope] : x.state # "RECONCILIATION_REQUIRED"
  /\ e.outcome = "RECONCILIATION_REQUIRED" =>
       reservation[e.scope] # {} /\ \A x \in reservation[e.scope] : x.state = "RECONCILIATION_REQUIRED"

Dated(e, evidence, now) ==
  /\ e.at \in Nat /\ e.at <= now
  /\ \E l \in evidence : /\ l.correlation = e.correlation
                         /\ \A d \in evidence : d.correlation = e.correlation => d.at <= l.at

Evaluated(now, queue, reservation, evidence) ==
  /\ now \in Nat /\ queue \in Seq(CaptureRecord)
  /\ reservation = [s \in CaptureScopes |-> reservation[s]]
  /\ \A s \in CaptureScopes : \A x, y \in reservation[s] : x = y
  /\ \A s \in CaptureScopes : \A x \in reservation[s] :
       x.state = "RECONCILIATION_REQUIRED" =>
         \E e \in evidence : e.scope = s /\ e.outcome = "RECONCILIATION_REQUIRED"
  /\ \A e \in evidence : Justified(e, reservation) /\ Dated(e, evidence, now)
  /\ \A d, e \in evidence :
       d.outcome = "AUTHORIZED_SYNTHETIC" /\ e.outcome = "AUTHORIZED_SYNTHETIC" /\ d.scope = e.scope => d = e

EvaluatedNow == Evaluated(x1, x2, x3, x4)

\* A request with an assignment is that request.
LEMMA AssignedCapture ==
  ASSUME NEW r \in Captures, NEW assignment
  PROVE  LET assigned == [r EXCEPT !.assignment = assignment]
         IN  assigned.digest = r.digest /\ assigned.route = r.route /\ assigned.scope = r.scope
<1>1. r = Capture(r.scope, r.hub, r.digest, r.route, r.expires, r.correlation, r.capturedAt)
  BY HubAssumption
<1>. QED
  BY <1>1 DEF Capture

\* What was reserved before is either answered at once or not eligible.
LEMMA KnownIsNotEligible ==
  ASSUME NEW r \in Captures, NEW existing \in x3[r.scope], Of!Answered(r) = {}, NEW assignment
  PROVE  Of!OutcomeOf(Of!Replay(r, existing, assignment)) # "AUTHORIZED_SYNTHETIC"
         /\ Of!Replay(r, existing, assignment) # "SYNTHETIC_DISPATCH_ELIGIBLE"
<1>. DEFINE assigned == [r EXCEPT !.assignment = assignment]
<1>1. assigned.digest = r.digest /\ assigned.route = r.route
  BY AssignedCapture
<1>2. Of!Decision(r) = {Of!Store!DecisionForExisting(x, r) : x \in x3[r.scope]}
  BY DEF Of!Decision
<1>3. Of!Store!DecisionForExisting(existing, r) \notin {"CONFLICT_REVIEW_REQUIRED", "DUPLICATE_NOOP"}
  BY <1>2 DEF Of!Answered
<1>4. ASSUME existing.digest = r.digest, existing.state # "RECONCILIATION_REQUIRED", existing.route = r.route
      PROVE  FALSE
  BY <1>3, <1>4 DEF Of!Store!DecisionForExisting
<1>. HIDE DEF assigned
<1>5. Of!Store!Certify(existing, assigned, x1) \notin {"SYNTHETIC_DISPATCH_ELIGIBLE", "AUTHORIZED_SYNTHETIC"}
  BY <1>1, <1>4 DEF Of!Store!Certify
<1>6. Of!Replay(r, existing, assignment) \in {"REPLAY_AUTHORIZATION_DENIED", Of!Store!Certify(existing, assigned, x1)}
  BY DEF Of!Replay, assigned
<1>. QED
  BY <1>5, <1>6 DEF Of!OutcomeOf

\* Only a reservation for reconciliation gives an unknown outcome.
LEMMA UnknownIsReserved ==
  ASSUME NEW r, NEW existing, NEW assignment,
         Of!OutcomeOf(Of!Replay(r, existing, assignment)) = "RECONCILIATION_REQUIRED"
  PROVE  existing.state = "RECONCILIATION_REQUIRED"
<1>. DEFINE assigned == [r EXCEPT !.assignment = assignment]
<1>1. Of!Store!Certify(existing, assigned, x1) = "RECONCILIATION_REQUIRED"
  BY DEF Of!OutcomeOf, Of!Replay
<1>. HIDE DEF assigned
<1>. QED
  BY <1>1 DEF Of!Store!Certify

\* A marked reservation is replayed as unknown when it would have been eligible.
LEMMA MarkedIsUnknown ==
  ASSUME NEW r, NEW existing, NEW marked, NEW assignment,
         Of!Replay(r, existing, assignment) = "SYNTHETIC_DISPATCH_ELIGIBLE",
         marked.digest = existing.digest, marked.expires = existing.expires,
         marked.state = "RECONCILIATION_REQUIRED"
  PROVE  Of!OutcomeOf(Of!Replay(r, marked, assignment)) = "RECONCILIATION_REQUIRED"
<1>. DEFINE assigned == [r EXCEPT !.assignment = assignment]
<1>1. assignment # "none" /\ Of!Store!Certify(existing, assigned, x1) = "SYNTHETIC_DISPATCH_ELIGIBLE"
  BY DEF Of!Replay
<1>. HIDE DEF assigned
<1>2. existing.digest = assigned.digest /\ ~(x1 > existing.expires)
  BY <1>1 DEF Of!Store!Certify
<1>3. Of!Store!Certify(marked, assigned, x1) = "RECONCILIATION_REQUIRED"
  BY <1>2 DEF Of!Store!Certify
<1>. QED
  BY <1>1, <1>3 DEF Of!OutcomeOf, Of!Replay, assigned

LEMMA NewReservation ==
  ASSUME NEW r \in Captures, x3[r.scope] = {}, NEW capturer
  PROVE  \E new : Of!Reserved(r, capturer) = {new} /\ new.state = "RESERVED_SYNTHETIC"
                  /\ new = [revision |-> new.revision, digest |-> new.digest, route |-> new.route,
                            assignment |-> new.assignment, expires |-> new.expires, state |-> new.state,
                            markedAt |-> new.markedAt]
<1>. DEFINE assigned == [r EXCEPT !.assignment = capturer]
            new == Of!Store!NewRecord(assigned)
<1>1. Of!Reserved(r, capturer) = {new}
  BY DEF Of!Reserved
<1>. HIDE DEF assigned
<1>2. new.state = "RESERVED_SYNTHETIC"
      /\ new = [revision |-> new.revision, digest |-> new.digest, route |-> new.route,
                assignment |-> new.assignment, expires |-> new.expires, state |-> new.state,
                markedAt |-> new.markedAt]
  BY DEF Of!Store!NewRecord
<1>. QED
  BY <1>1, <1>2

LEMMA KeepAdds ==
  ASSUME NEW i, NEW receivedAt, NEW outcome, Of!Keep(i, receivedAt, outcome)
  PROVE  \E e : /\ x4' = x4 \cup {e} /\ e.at = x1 /\ e.scope = x2[i].request.scope /\ e.outcome = outcome
BY DEF Of!Keep

\* An evaluation: its evidence is the latest of its correlation.
LEMMA AddedStep ==
  ASSUME EvaluatedNow, NEW e, x4' = x4 \cup {e}, e.at = x1, UNCHANGED <<x1, x2>>,
         x3' = [s \in CaptureScopes |-> x3'[s]],
         \A s \in CaptureScopes : \A x, y \in x3'[s] : x = y,
         \A s \in CaptureScopes : s # e.scope => x3'[s] = x3[s],
         Justified(e, x3'),
         \A x \in x3'[e.scope] : x.state = "RECONCILIATION_REQUIRED" =>
            x3'[e.scope] = x3[e.scope] \/ e.outcome = "RECONCILIATION_REQUIRED",
         x3'[e.scope] # x3[e.scope] => x3[e.scope] = {},
         e.outcome = "AUTHORIZED_SYNTHETIC" => x3[e.scope] = {}
  PROVE  EvaluatedNow'
<1>1. /\ x1 \in Nat /\ \A d \in x4 : Justified(d, x3) /\ Dated(d, x4, x1)
      /\ \A s \in CaptureScopes : \A x \in x3[s] :
           x.state = "RECONCILIATION_REQUIRED" => \E d \in x4 : d.scope = s /\ d.outcome = "RECONCILIATION_REQUIRED"
      /\ \A c, d \in x4 :
           c.outcome = "AUTHORIZED_SYNTHETIC" /\ d.outcome = "AUTHORIZED_SYNTHETIC" /\ c.scope = d.scope => c = d
  BY DEF EvaluatedNow, Evaluated
<1>2. e.scope \in CaptureScopes
  BY DEF Justified
<1>3. ASSUME NEW d \in x4 PROVE Justified(d, x3')
  BY <1>1 DEF Justified
<1>4. ASSUME NEW d \in x4' PROVE Dated(d, x4', x1)
  <2>1. d.at \in Nat /\ d.at <= x1
    BY <1>1 DEF Dated
  <2>2. CASE d.correlation = e.correlation
    <3>1. \A c \in x4' : c.at <= e.at
      BY <1>1 DEF Dated
    <3>. QED
      BY <2>1, <2>2, <3>1 DEF Dated
  <2>3. CASE d.correlation # e.correlation
    <3>1. d \in x4
      BY <2>3
    <3>. QED
      BY <1>1, <2>3, <3>1 DEF Dated
  <2>. QED
    BY <2>2, <2>3
<1>5. \A s \in CaptureScopes : \A x \in x3'[s] :
        x.state = "RECONCILIATION_REQUIRED" => \E d \in x4' : d.scope = s /\ d.outcome = "RECONCILIATION_REQUIRED"
  BY <1>1, <1>2
<1>6. \A c, d \in x4' :
        c.outcome = "AUTHORIZED_SYNTHETIC" /\ d.outcome = "AUTHORIZED_SYNTHETIC" /\ c.scope = d.scope => c = d
  <2>1. \A d \in x4 : d.outcome = "AUTHORIZED_SYNTHETIC" => x3[d.scope] # {}
    BY <1>1 DEF Justified
  <2>. QED
    BY <1>1, <2>1
<1>7. x1' \in Nat /\ x2' \in Seq(CaptureRecord)
  BY DEF EvaluatedNow, Evaluated
<1>8. \A d \in x4' : Justified(d, x3') /\ Dated(d, x4', x1')
  BY <1>3, <1>4
<1>. QED
  BY <1>5, <1>6, <1>7, <1>8 DEF EvaluatedNow, Evaluated

LEMMA QueuedCapture ==
  ASSUME EvaluatedNow, NEW i \in DOMAIN x2
  PROVE  x2[i] \in CaptureRecord /\ x2[i].request \in Captures /\ x2[i].request.scope \in CaptureScopes
<1>1. x2 \in Seq(CaptureRecord)
  BY DEF EvaluatedNow, Evaluated
<1>2. x2[i] \in CaptureRecord
  BY <1>1
<1>. QED
  BY <1>2 DEF CaptureRecord, CaptureScopes

\* An evaluation that leaves the reservation, for an outcome that claims nothing.
LEMMA HarmlessStep ==
  ASSUME EvaluatedNow, NEW i \in DOMAIN x2, NEW receivedAt, NEW outcome, Of!Keep(i, receivedAt, outcome),
         UNCHANGED <<x1, x2, x3>>, outcome \notin {"AUTHORIZED_SYNTHETIC", "RECONCILIATION_REQUIRED"}
  PROVE  EvaluatedNow'
<1>1. PICK e : x4' = x4 \cup {e} /\ e.at = x1 /\ e.scope = x2[i].request.scope /\ e.outcome = outcome
  BY KeepAdds
<1>2. e.scope \in CaptureScopes
  BY <1>1, QueuedCapture
<1>3. Justified(e, x3')
  BY <1>1, <1>2 DEF Justified
<1>4. /\ x3' = [s \in CaptureScopes |-> x3'[s]]
      /\ \A s \in CaptureScopes : \A x, y \in x3'[s] : x = y
  BY DEF EvaluatedNow, Evaluated
<1>. QED
  BY <1>1, <1>3, <1>4, AddedStep

\* What a scope's reservation becomes, and what stays of the others.
LEMMA OneScope ==
  ASSUME EvaluatedNow, NEW scope \in CaptureScopes, NEW new, x3' = [x3 EXCEPT ![scope] = {new}]
  PROVE  /\ x3' = [s \in CaptureScopes |-> x3'[s]]
         /\ x3'[scope] = {new}
         /\ \A s \in CaptureScopes : \A x, y \in x3'[s] : x = y
         /\ \A s \in CaptureScopes : s # scope => x3'[s] = x3[s]
BY DEF EvaluatedNow, Evaluated

LEMMA ReplayedStep ==
  ASSUME EvaluatedNow, NEW i \in DOMAIN x2, NEW receivedAt, NEW capturer, NEW replayer,
         Of!Replayed(i, receivedAt, capturer, replayer), UNCHANGED <<x1, x2>>
  PROVE  EvaluatedNow'
<1>. DEFINE r == x2[i].request
<1>1. r \in Captures /\ r.scope \in CaptureScopes
  BY QueuedCapture
<1>2. Of!Answered(r) = {}
  BY DEF Of!Replayed
<1>3. PICK existing \in Of!Reserved(r, capturer) :
        /\ x3' = [x3 EXCEPT ![r.scope] = {existing}]
        /\ Of!Keep(i, receivedAt, Of!OutcomeOf(Of!Replay(r, existing, replayer)))
  BY DEF Of!Replayed
<1>. DEFINE outcome == Of!OutcomeOf(Of!Replay(r, existing, replayer))
<1>4. PICK e : x4' = x4 \cup {e} /\ e.at = x1 /\ e.scope = r.scope /\ e.outcome = outcome
  BY <1>3, KeepAdds
<1>. HIDE DEF outcome
<1>5. outcome = "RECONCILIATION_REQUIRED" => existing.state = "RECONCILIATION_REQUIRED"
  BY UnknownIsReserved DEF outcome
<1>6. /\ x3' = [s \in CaptureScopes |-> x3'[s]]
      /\ x3'[r.scope] = {existing}
      /\ \A s \in CaptureScopes : \A x, y \in x3'[s] : x = y
      /\ \A s \in CaptureScopes : s # r.scope => x3'[s] = x3[s]
  BY <1>1, <1>3, OneScope
<1>7. CASE x3[r.scope] = {}
  <2>1. existing.state = "RESERVED_SYNTHETIC"
    BY <1>1, <1>3, <1>7, NewReservation
  <2>2. Justified(e, x3')
    BY <1>1, <1>4, <1>5, <1>6, <2>1 DEF Justified
  <2>. QED
    BY <1>4, <1>6, <1>7, <2>1, <2>2, AddedStep
<1>8. CASE x3[r.scope] # {}
  <2>1. existing \in x3[r.scope] /\ x3'[r.scope] = x3[r.scope]
    <3>1. existing \in x3[r.scope]
      BY <1>3, <1>8 DEF Of!Reserved
    <3>2. \A x, y \in x3[r.scope] : x = y
      BY <1>1 DEF EvaluatedNow, Evaluated
    <3>. QED
      BY <1>6, <3>1, <3>2
  <2>2. outcome # "AUTHORIZED_SYNTHETIC"
    BY <1>1, <1>2, <2>1, KnownIsNotEligible DEF outcome
  <2>3. Justified(e, x3')
    BY <1>1, <1>4, <1>5, <1>6, <2>2 DEF Justified
  <2>. QED
    BY <1>4, <1>6, <2>1, <2>2, <2>3, AddedStep
<1>. QED
  BY <1>7, <1>8

LEMMA AmbiguousStep ==
  ASSUME EvaluatedNow, NEW i \in DOMAIN x2, NEW receivedAt, NEW capturer, NEW replayer,
         Of!Ambiguous(i, receivedAt, capturer, replayer), UNCHANGED <<x1, x2>>
  PROVE  EvaluatedNow'
<1>. DEFINE r == x2[i].request
<1>1. r \in Captures /\ r.scope \in CaptureScopes
  BY QueuedCapture
<1>2. Of!Answered(r) = {}
  BY DEF Of!Ambiguous
<1>3. PICK existing \in Of!Reserved(r, capturer) :
        /\ Of!Replay(r, existing, replayer) = "SYNTHETIC_DISPATCH_ELIGIBLE"
        /\ \/ LET marked == [existing EXCEPT !.state = "RECONCILIATION_REQUIRED", !.markedAt = receivedAt]
              IN /\ x3' = [x3 EXCEPT ![r.scope] = {marked}]
                 /\ Of!Keep(i, receivedAt, Of!OutcomeOf(Of!Replay(r, marked, replayer)))
           \/ /\ x3' = [x3 EXCEPT ![r.scope] = {existing}]
              /\ UNCHANGED <<x4, x5>>
  BY DEF Of!Ambiguous
<1>4. x3[r.scope] = {}
  <2>1. CASE x3[r.scope] # {}
    <3>1. existing \in x3[r.scope]
      BY <1>3, <2>1 DEF Of!Reserved
    <3>. QED
      BY <1>1, <1>2, <1>3, <3>1, KnownIsNotEligible
  <2>. QED
    BY <2>1
<1>5. /\ existing.state = "RESERVED_SYNTHETIC"
      /\ existing = [revision |-> existing.revision, digest |-> existing.digest, route |-> existing.route,
                     assignment |-> existing.assignment, expires |-> existing.expires, state |-> existing.state,
                     markedAt |-> existing.markedAt]
  BY <1>1, <1>3, <1>4, NewReservation
<1>. DEFINE marked == [existing EXCEPT !.state = "RECONCILIATION_REQUIRED", !.markedAt = receivedAt]
            outcome == Of!OutcomeOf(Of!Replay(r, marked, replayer))
<1>6. marked.digest = existing.digest /\ marked.expires = existing.expires /\ marked.state = "RECONCILIATION_REQUIRED"
  BY <1>5
<1>7. CASE x3' = [x3 EXCEPT ![r.scope] = {marked}] /\ Of!Keep(i, receivedAt, outcome)
  <2>1. PICK e : x4' = x4 \cup {e} /\ e.at = x1 /\ e.scope = r.scope /\ e.outcome = outcome
    BY <1>7, KeepAdds
  <2>. HIDE DEF marked
  <2>2. outcome = "RECONCILIATION_REQUIRED"
    BY <1>3, <1>6, MarkedIsUnknown
  <2>. HIDE DEF outcome
  <2>3. /\ x3' = [s \in CaptureScopes |-> x3'[s]]
        /\ x3'[r.scope] = {marked}
        /\ \A s \in CaptureScopes : \A x, y \in x3'[s] : x = y
        /\ \A s \in CaptureScopes : s # r.scope => x3'[s] = x3[s]
    BY <1>1, <1>7, OneScope
  <2>4. Justified(e, x3')
    BY <1>1, <1>6, <2>1, <2>2, <2>3 DEF Justified
  <2>. QED
    BY <1>4, <2>1, <2>2, <2>3, <2>4, AddedStep
<1>8. CASE x3' = [x3 EXCEPT ![r.scope] = {existing}] /\ x4' = x4
  <2>1. /\ x3' = [s \in CaptureScopes |-> x3'[s]]
        /\ x3'[r.scope] = {existing}
        /\ \A s \in CaptureScopes : \A x, y \in x3'[s] : x = y
        /\ \A s \in CaptureScopes : s # r.scope => x3'[s] = x3[s]
    BY <1>1, <1>8, OneScope
  <2>2. \A d \in x4 : Justified(d, x3')
    <3>1. SUFFICES ASSUME NEW d \in x4 PROVE Justified(d, x3')
      OBVIOUS
    <3>2. Justified(d, x3)
      BY DEF EvaluatedNow, Evaluated
    <3>3. CASE d.scope = r.scope
      BY <1>4, <3>2, <3>3 DEF Justified
    <3>4. CASE d.scope # r.scope
      BY <2>1, <3>2, <3>4 DEF Justified
    <3>. QED
      BY <3>3, <3>4
  <2>3. \A s \in CaptureScopes : \A x \in x3'[s] :
          x.state = "RECONCILIATION_REQUIRED" => \E d \in x4 : d.scope = s /\ d.outcome = "RECONCILIATION_REQUIRED"
    BY <1>5, <2>1 DEF EvaluatedNow, Evaluated
  <2>. QED
    BY <1>8, <2>1, <2>2, <2>3 DEF EvaluatedNow, Evaluated
<1>. QED
  BY <1>3, <1>7, <1>8

LEMMA EvaluateStep ==
  ASSUME EvaluatedNow, NEW i \in DOMAIN x2, Of!Evaluate(i)
  PROVE  EvaluatedNow'
<1>1. UNCHANGED <<x1, x2>>
  BY DEF Of!Evaluate
<1>2. CASE Of!NotReceived(i)
  BY <1>1, <1>2, HarmlessStep DEF Of!NotReceived
<1>3. ASSUME NEW receivedAt, Of!CaptureDenied(i, receivedAt) PROVE EvaluatedNow'
  BY <1>1, <1>3, HarmlessStep DEF Of!CaptureDenied
<1>4. ASSUME NEW receivedAt, Of!KnownAlready(i, receivedAt) PROVE EvaluatedNow'
  <2>1. PICK outcome \in Of!Answered(x2[i].request) : Of!Keep(i, receivedAt, outcome)
    BY <1>4 DEF Of!KnownAlready
  <2>2. outcome \in {"CONFLICT_REVIEW_REQUIRED", "DUPLICATE_NOOP"} /\ x3' = x3
    BY <1>4 DEF Of!Answered, Of!KnownAlready
  <2>. QED
    BY <1>1, <2>1, <2>2, HarmlessStep
<1>. QED
  BY <1>1, <1>2, <1>3, <1>4, ReplayedStep, AmbiguousStep DEF Of!Evaluate

LEMMA OfflineStep ==
  ASSUME EvaluatedNow, Of!Next
  PROVE  EvaluatedNow'
<1>1. CASE Of!Tick
  <2>1. x1 \in Nat /\ x1' = x1 + 1 /\ UNCHANGED <<x2, x3, x4>>
    BY <1>1 DEF EvaluatedNow, Evaluated, Of!Tick
  <2>2. \A e \in x4 : Dated(e, x4, x1')
    BY <2>1 DEF EvaluatedNow, Evaluated, Dated
  <2>. QED
    BY <2>1, <2>2 DEF EvaluatedNow, Evaluated
<1>2. ASSUME NEW r \in Captures, Of!Enqueue(r) PROVE EvaluatedNow'
  <2>1. x2' \in Seq(CaptureRecord)
    BY <1>2 DEF EvaluatedNow, Evaluated, CaptureRecord, Of!Enqueue
  <2>. QED
    BY <1>2, <2>1 DEF EvaluatedNow, Evaluated, Of!Enqueue
<1>3. ASSUME NEW i \in DOMAIN x2, Of!Attempt(i) PROVE EvaluatedNow'
  <2>1. x2 \in Seq(CaptureRecord) /\ x2[i] \in CaptureRecord
    BY QueuedCapture DEF EvaluatedNow, Evaluated
  <2>2. [x2[i] EXCEPT !.attempts = x2[i].attempts + 1] \in CaptureRecord
    BY <2>1 DEF CaptureRecord
  <2>3. x2' \in Seq(CaptureRecord)
    BY <1>3, <2>1, <2>2 DEF Of!Attempt
  <2>. QED
    BY <1>3, <2>3 DEF EvaluatedNow, Evaluated, Of!Attempt
<1>. QED
  BY <1>1, <1>2, <1>3, EvaluateStep DEF Of!Next

LEMMA TraceOf ==
  ASSUME NEW c, NEW l
  PROVE  /\ Of!Trace(c, l).hub = l.hub /\ Of!Trace(c, l).correlation = c
         /\ Of!Trace(c, l).reconciliation <=> \E e \in Of!Of(c) : e.outcome = "RECONCILIATION_REQUIRED"
BY DEF Of!Trace

\* An unknown outcome is in the traces of its hub.
LEMMA UnknownIsTraced ==
  ASSUME EvaluatedNow, ~Of!ReadModelFails, NEW e \in x4, e.outcome = "RECONCILIATION_REQUIRED"
  PROVE  \E t \in Of!Search(e.hub) : t.reconciliation /\ e.correlation = t.correlation
<1>1. PICK l \in x4 : l.correlation = e.correlation /\ \A d \in x4 : d.correlation = e.correlation => d.at <= l.at
  BY DEF EvaluatedNow, Evaluated, Dated
<1>2. l \in Of!Latest(e.correlation)
  BY <1>1 DEF Of!Latest, Of!Of
<1>3. l.hub = e.hub
  BY <1>1 DEF Of!ReadModelFails
<1>. DEFINE t == Of!Trace(e.correlation, l)
<1>4. t \in Of!ReadModel
  BY <1>2 DEF Of!ReadModel
<1>5. t.hub = e.hub /\ t.correlation = e.correlation /\ t.reconciliation
  BY <1>3, TraceOf DEF Of!Of
<1>. QED
  BY <1>4, <1>5 DEF Of!Search

\* Offline evidence: a key is authorized at most once and never when its outcome is
\* unknown, and an unknown outcome can be found, for every set of captures and however
\* the queue records are evaluated.
THEOREM AuthorizationsAreSingle == HubSpec => []AuthorizedOnce
<1>. DEFINE Inv == moving = "offline" => EvaluatedNow
<1>1. HubInit => Inv
  BY DEF HubInit, Of!Init, EvaluatedNow, Evaluated, CaptureScopes
<1>2. Inv /\ [HubNext]_hubVars => Inv'
  <2>. SUFFICES ASSUME Inv, [HubNext]_hubVars, moving' = "offline" PROVE EvaluatedNow'
    OBVIOUS
  <2>1. EvaluatedNow /\ (Of!Next \/ UNCHANGED <<x1, x2, x3, x4>>)
    BY DEF HubNext, hubVars
  <2>2. CASE UNCHANGED <<x1, x2, x3, x4>>
    BY <2>1, <2>2 DEF EvaluatedNow
  <2>. QED
    BY <2>1, <2>2, OfflineStep
<1>3. Inv => AuthorizedOnce
  <2>. SUFFICES ASSUME EvaluatedNow PROVE Of!AuthorizedOnce
    BY DEF AuthorizedOnce
  <2>1. ASSUME NEW d \in x4, NEW e \in x4, d.outcome = "AUTHORIZED_SYNTHETIC", d.scope = e.scope,
               e.outcome \in {"AUTHORIZED_SYNTHETIC", "RECONCILIATION_REQUIRED"}
        PROVE  d = e
    <3>1. Justified(d, x3) /\ Justified(e, x3)
      BY DEF EvaluatedNow, Evaluated
    <3>2. e.outcome = "AUTHORIZED_SYNTHETIC"
      BY <2>1, <3>1 DEF Justified
    <3>. QED
      BY <2>1, <3>2 DEF EvaluatedNow, Evaluated
  <2>2. ASSUME NEW s \in DOMAIN x3, NEW existing \in x3[s],
               existing.state = "RECONCILIATION_REQUIRED", ~Of!ReadModelFails
        PROVE  \E e \in x4 : e.scope = s /\ \E t \in Of!Search(e.hub) : t.reconciliation /\ e.correlation = t.correlation
    <3>1. PICK e \in x4 : e.scope = s /\ e.outcome = "RECONCILIATION_REQUIRED"
      BY <2>2 DEF EvaluatedNow, Evaluated
    <3>. QED
      BY <2>2, <3>1, UnknownIsTraced
  <2>. QED
    BY <2>1, <2>2 DEF Of!AuthorizedOnce
<1>. QED
  BY <1>1, <1>2, <1>3, PTL DEF HubSpec

-----------------------------------------------------------------------------
\* HubAccess.
AnswersNow == moving = "access" => Ac!AnswersFollowTheHub

\* What authorizeSyntheticHubAccess has asked for.
LEMMA GrantedAccess ==
  ASSUME NEW s, NEW hub, NEW purpose, Ac!Authorized(s, hub, purpose)
  PROVE  /\ x1[hub].tenant = s.tenant /\ x1[hub].region = s.region
         /\ \E m \in x1[hub].members : m.partner = s.partner /\ m.active
         /\ Ac!OperatorsFor(x1[hub], s, purpose) # {}
BY DEF Ac!Authorized, Ac!MemberFor

\* The assignment that is shown is one of the session's own, so no device shows
\* another operator.
LEMMA ShownOperator ==
  ASSUME NEW s, NEW hub, NEW purpose, x1[hub] \in AccessRecords, Ac!OperatorsFor(x1[hub], s, purpose) # {}
  PROVE  LET staff == {x1[hub].operators[i] : i \in DOMAIN x1[hub].operators}
             mine == {o \in staff : o.active /\ o.partner = s.partner /\ o.role = s.role}
             view == Ac!Projection(s, hub, purpose)
         IN view.operator \in mine /\ \A d \in view.devices : d.operator \in {view.operator.id, "null"}
<1> DEFINE record == x1[hub]
           found == Ac!OperatorsFor(record, s, purpose)
           first == CHOOSE i \in found : \A j \in found : i <= j
<1>1. found \subseteq DOMAIN record.operators /\ DOMAIN record.operators \subseteq Nat
  <2>1. DOMAIN record.operators \subseteq Nat BY HubAssumption
  <2>2. found \subseteq DOMAIN record.operators BY DEF Ac!OperatorsFor
  <2>3. QED BY <2>1, <2>2
<1>2. first \in found
  <2>1. found \subseteq Nat /\ found # {} BY <1>1
  <2> HIDE DEF found
  <2>2. \E i \in found : \A j \in found : i <= j BY <2>1, Tr!LeastElement
  <2>3. QED BY <2>2
<1>3. /\ first \in DOMAIN record.operators /\ record.operators[first].active
      /\ record.operators[first].partner = s.partner /\ record.operators[first].role = s.role
  BY <1>2 DEF Ac!OperatorsFor
<1>4. Ac!Projection(s, hub, purpose).operator = record.operators[first] BY DEF Ac!Projection
<1> DEFINE whose == record.operators[first].id
           shown(d) == [d EXCEPT !.operator = IF @ = whose THEN @ ELSE "null"]
<1>5. Ac!Projection(s, hub, purpose).devices = {shown(d) : d \in record.devices} BY DEF Ac!Projection
<1>6. \A d \in record.devices : shown(d).operator \in {whose, "null"}
  <2>1. \A d \in record.devices : "operator" \in DOMAIN d BY HubAssumption
  <2>2. QED BY <2>1
<1>7. QED BY <1>3, <1>4, <1>5, <1>6

LEMMA ReadStep ==
  ASSUME x1 \in [AccessHubs -> AccessRecords],
         NEW s \in x2, NEW route \in Ac!Routes, NEW hub \in AccessHubs, NEW purpose,
         Ac!Read(s, route, hub, purpose)
  PROVE  Ac!AnswersFollowTheHub'
<1> DEFINE a == [session |-> s, route |-> route, hub |-> hub, documents |-> Ac!Search(s, route, hub),
                 view |-> Ac!Projection(s, hub, purpose)]
           record == x1[hub]
           staff == {record.operators[i] : i \in DOMAIN record.operators}
           mine == {o \in staff : o.active /\ o.partner = s.partner /\ o.role = s.role}
<1>1. x4' = {a} /\ x1' = x1 /\ s.role \in Ac!RolesOf(route) /\ Ac!Authorized(s, hub, purpose)
  BY DEF Ac!Read, Ac!Admitted
<1>2. /\ record.tenant = s.tenant /\ record.region = s.region
      /\ \E m \in record.members : m.partner = s.partner /\ m.active
      /\ Ac!OperatorsFor(record, s, purpose) # {}
  BY <1>1, GrantedAccess
<1>3. record \in AccessRecords OBVIOUS
<1>4. a.view.operator \in mine /\ \A d \in a.view.devices : d.operator \in {a.view.operator.id, "null"}
  BY <1>2, <1>3, ShownOperator
<1>5. \A d \in a.documents :
        d.hub = hub /\ d.tenant = s.tenant /\ (d.partner = s.partner \/ d.route = "neutrality-governance")
  BY <1>2 DEF Ac!Search
<1>6. s.role = "AGENT" => route \in {"hub", "services"} BY <1>1 DEF Ac!RolesOf
<1>7. mine # {} /\ \A d \in a.view.devices : d.operator \in {o.id : o \in mine} \cup {"null"} BY <1>4
<1>8. a.session = s /\ a.route = route /\ a.hub = hub OBVIOUS
<1> HIDE DEF a
<1>9. QED BY <1>1, <1>2, <1>5, <1>6, <1>7, <1>8 DEF Ac!AnswersFollowTheHub

\* A read is answered of the hubs as they are, and who takes over answers anew.
THEOREM AnswersAreCurrent == HubSpec => []AnswersFollowTheHub
<1> DEFINE Typed == moving = "access" => x1 \in [AccessHubs -> AccessRecords]
           Now == Typed /\ AnswersNow
<1>1. HubInit => Now
  <2>1. SUFFICES ASSUME HubInit, moving = "access" PROVE Ac!Init BY DEF Ac!Init, AnswersNow, Ac!AnswersFollowTheHub
  <2>2. QED BY <2>1 DEF HubInit
<1>2. Now /\ [HubNext]_hubVars => Now'
  <2>1. SUFFICES ASSUME moving = "access", moving' = "access", Now,
                        Ac!Next \/ UNCHANGED <<x1, x2, x3, x4>>
                 PROVE  x1' \in [AccessHubs -> AccessRecords] /\ Ac!AnswersFollowTheHub'
    BY DEF HubNext, hubVars, AnswersNow
  <2>2. CASE UNCHANGED <<x1, x2, x3, x4>> BY <2>1, <2>2 DEF AnswersNow, Ac!AnswersFollowTheHub
  <2>3. CASE Ac!StartSession BY <2>1, <2>3 DEF AnswersNow, Ac!AnswersFollowTheHub, Ac!StartSession
  <2>4. CASE Ac!EndSession BY <2>1, <2>4 DEF AnswersNow, Ac!AnswersFollowTheHub, Ac!EndSession
  <2>5. CASE Ac!Deploy BY <2>5 DEF Ac!Deploy, Ac!AnswersFollowTheHub
  <2>6. CASE \E s \in x2, route \in Ac!Routes, hub \in AccessHubs :
               \E purpose \in Ac!PurposesOf(route, s.role) : Ac!Read(s, route, hub, purpose)
    <3>1. PICK s \in x2, route \in Ac!Routes, hub \in AccessHubs :
                 \E purpose \in Ac!PurposesOf(route, s.role) : Ac!Read(s, route, hub, purpose)
      BY <2>6
    <3>2. PICK purpose \in Ac!PurposesOf(route, s.role) : Ac!Read(s, route, hub, purpose) BY <3>1
    <3>3. x1' = x1 BY <3>2 DEF Ac!Read
    <3>4. QED BY <2>1, <3>2, <3>3, ReadStep
  <2>7. CASE \E s \in x2, route \in Ac!Routes, hub \in AccessHubs :
               \E purpose \in Ac!PurposesOf(route, s.role) : Ac!Refuse(s, route, hub, purpose)
    BY <2>1, <2>7 DEF Ac!Refuse, Ac!AnswersFollowTheHub
  <2>8. QED BY <2>1, <2>2, <2>3, <2>4, <2>5, <2>6, <2>7 DEF Ac!Next
<1>3. Now => AnswersFollowTheHub BY DEF AnswersNow, AnswersFollowTheHub
<1>4. QED BY <1>1, <1>2, <1>3, PTL DEF HubSpec

-----------------------------------------------------------------------------
\* PilotEvidence.
\* The module counts as this one does.
LEMMA PilotCounts == \A S : Pi!Cardinality(S) = Cardinality(S)
BY DEF Pi!Cardinality, Cardinality

ObservedNow == moving = "pilot" => Pi!StatusIsObserved

\* A reviewer has the last word, and this stage lets no gate have one.
LEMMA Undecided ==
  ASSUME Pi!StageAllows, NEW gate \in PilotGates
  PROVE  Pi!Assessment(gate) = Pi!FromEvidence(gate)
BY DEF Pi!StageAllows, Pi!Assessment

LEMMA AssessedByEvidence ==
  ASSUME NEW gate, NEW s, s = Pi!FromEvidence(gate).status
  PROVE  LET judged == \A k \in PilotTargets[gate] : \A o \in Pi!Observed(gate, k.metric) : Pi!Meets(o.value, k)
         IN /\ s \in {"UNKNOWN", "COLLECTING", "PARTIAL", "MEETS_TARGET_UNREVIEWED", "MISSES_TARGET_UNREVIEWED"}
            /\ s \in {"MEETS_TARGET_UNREVIEWED", "MISSES_TARGET_UNREVIEWED"} =>
                 /\ \A k \in PilotTargets[gate] : Pi!Observed(gate, k.metric) # {}
                 /\ s = "MEETS_TARGET_UNREVIEWED" <=> judged
<1> DEFINE all == PilotTargets[gate]
           seen == Pi!Seen(gate)
           judged == \A k \in all : \A o \in Pi!Observed(gate, k.metric) : Pi!Meets(o.value, k)
<1>1. CASE seen = {} /\ ~Pi!Collected(gate) BY <1>1 DEF Pi!FromEvidence, Pi!Assessed
<1>2. CASE seen = {} /\ Pi!Collected(gate) BY <1>2 DEF Pi!FromEvidence, Pi!Assessed
<1>3. CASE seen \notin {{}, all} BY <1>3 DEF Pi!FromEvidence, Pi!Assessed
<1>4. CASE seen # {} /\ seen = all
  <2>1. s = IF judged THEN "MEETS_TARGET_UNREVIEWED" ELSE "MISSES_TARGET_UNREVIEWED"
    BY <1>4 DEF Pi!FromEvidence, Pi!Assessed
  <2>2. \A k \in all : Pi!Observed(gate, k.metric) # {} BY <1>4 DEF Pi!Seen
  <2>3. QED BY <2>1, <2>2
<1>5. QED BY <1>1, <1>2, <1>3, <1>4

\* What is published of one gate.
LEMMA GateStep ==
  ASSUME Pi!StageAllows, Pi!ObservationsFit, NEW gate \in PilotGates,
         NEW s, s = Pi!Assessment(gate).status
  PROVE  /\ s \in {"UNKNOWN", "COLLECTING", "PARTIAL", "MEETS_TARGET_UNREVIEWED", "MISSES_TARGET_UNREVIEWED"}
         /\ s \in {"MEETS_TARGET_UNREVIEWED", "MISSES_TARGET_UNREVIEWED"} =>
              /\ \A k \in PilotTargets[gate] : Cardinality(Pi!Observed(gate, k.metric)) = 1
              /\ s = "MEETS_TARGET_UNREVIEWED" <=>
                   \A k \in PilotTargets[gate] : \A o \in Pi!Observed(gate, k.metric) :
                     Pi!Meets(o.value, k) /\ o.unit = k.unit
<1> DEFINE judged == \A k \in PilotTargets[gate] : \A o \in Pi!Observed(gate, k.metric) : Pi!Meets(o.value, k)
<1>1. s = Pi!FromEvidence(gate).status BY Undecided
<1>2. /\ s \in {"UNKNOWN", "COLLECTING", "PARTIAL", "MEETS_TARGET_UNREVIEWED", "MISSES_TARGET_UNREVIEWED"}
      /\ s \in {"MEETS_TARGET_UNREVIEWED", "MISSES_TARGET_UNREVIEWED"} =>
           /\ \A k \in PilotTargets[gate] : Pi!Observed(gate, k.metric) # {}
           /\ s = "MEETS_TARGET_UNREVIEWED" <=> judged
  BY <1>1, AssessedByEvidence
<1>3. \A k \in PilotTargets[gate] : Pi!Observed(gate, k.metric) # {} =>
        Cardinality(Pi!Observed(gate, k.metric)) = 1
  <2>1. SUFFICES ASSUME NEW k \in PilotTargets[gate], NEW o \in Pi!Observed(gate, k.metric)
                 PROVE  Cardinality(Pi!Observed(gate, k.metric)) = 1
    OBVIOUS
  <2>2. Pi!Observed(gate, k.metric) = {o} BY <2>1 DEF Pi!ObservationsFit, Pi!Observed
  <2>3. QED BY <2>2, FS_Singleton
<1>4. \A k \in PilotTargets[gate] : \A o \in Pi!Observed(gate, k.metric) : o.unit = k.unit
  BY DEF Pi!ObservationsFit, Pi!Observed
<1>5. QED BY <1>2, <1>3, <1>4

\* A read model is published only of evidence that this stage allows.
THEOREM GatesAreObserved == HubSpec => []StatusIsObserved
<1>1. HubInit => ObservedNow
  <2>1. SUFFICES ASSUME HubInit, moving = "pilot" PROVE Pi!Init BY DEF Pi!Init, ObservedNow, Pi!StatusIsObserved
  <2>2. QED BY <2>1 DEF HubInit
<1>2. ObservedNow /\ [HubNext]_hubVars => ObservedNow'
  <2>1. SUFFICES ASSUME moving = "pilot", moving' = "pilot", ObservedNow,
                        Pi!Next \/ UNCHANGED <<x1, x2, x3, x4, x5, x6, x7>>
                 PROVE  Pi!StatusIsObserved'
    BY DEF HubNext, hubVars, ObservedNow
  <2>2. CASE x7' = x7 BY <2>1, <2>2 DEF ObservedNow, Pi!StatusIsObserved
  <2>3. CASE Pi!Publish
    <3> DEFINE m == [of |-> x1, assessments |-> [gate \in PilotGates |-> Pi!Assessment(gate)]]
    <3>1. x7' = x7 \cup {m} /\ Pi!StageAllows /\ Pi!ObservationsFit BY <2>3 DEF Pi!Publish
    <3>2. \A o \in m.of : o.class # "REAL_PILOT_OBSERVATION" BY <3>1 DEF Pi!StageAllows
    <3>3. \A gate \in PilotGates : Pi!GateIsObserved(m, gate)
      <4>1. TAKE gate \in PilotGates
      <4>2. m.assessments[gate].status = Pi!Assessment(gate).status OBVIOUS
      <4>3. \A metric : Pi!Counted(m, gate, metric) = Pi!Observed(gate, metric) BY DEF Pi!Counted, Pi!Observed
      <4> HIDE DEF m
      <4>4. QED BY <3>1, <4>2, <4>3, GateStep, PilotCounts DEF Pi!GateIsObserved
    <3> HIDE DEF m
    <3>4. QED BY <2>1, <3>1, <3>2, <3>3 DEF ObservedNow, Pi!StatusIsObserved
  <2>4. QED BY <2>1, <2>2, <2>3 DEF Pi!Next
<1>3. ObservedNow => StatusIsObserved BY DEF ObservedNow, StatusIsObserved
<1>4. QED BY <1>1, <1>2, <1>3, PTL DEF HubSpec

-----------------------------------------------------------------------------
\* OperatorReadiness.  What a read model says of an operator that is up for review.
UpForReview(m, o) ==
  LET lifted == [m.plan EXCEPT !.suspended = @ \ {o}]
  IN /\ Op!Operational(lifted, o) = "READY_SYNTHETIC" /\ m.overall = "BLOCKED"
     /\ o \notin m.plan.support
     /\ \A d \in m.operators[o].devices :
          /\ d \notin m.plan.support /\ StaffHubDevice[d] \subseteq {o}
          /\ Op!Cardinality(m.plan.reported[d]) = 1
          /\ \A r \in m.plan.reported[d] :
               /\ ~Op!IsOut(r) /\ ~Op!IsDoubtful(r)
               /\ r.visibility = "ASSIGNED_PARTNER" => StaffHubDevice[d] = {o}

Gathered ==
  /\ x5 \in [StaffOperators -> SUBSET StaffDevices]
  /\ x6 \in [StaffDevices -> {{}} \cup {{r} : r \in StaffReports}]
LiftedNow ==
  moving = "readiness" =>
    Gathered /\ \A m \in x8, o \in StaffOperators : m.reviews[o] = "REVIEW_REQUIRED" => UpForReview(m, o)

LEMMA StaffCounts == \A S : Op!Cardinality(S) = Cardinality(S)
BY DEF Op!Cardinality, Cardinality

\* A review is asked for of a suspended operator with nothing missing.
LEMMA NothingMissing ==
  ASSUME NEW p, NEW o, Op!Review(p, o) = "REVIEW_REQUIRED"
  PROVE  /\ Op!Operational(p, o) = "SUSPENDED_REVIEW_REQUIRED"
         /\ Op!Training(p, o) = "COMPLETE" /\ Op!Certification(p, o) = "CURRENT" /\ o \notin p.support
         /\ \A d \in p.authorized[o] : Op!DeviceReady(p, d)
<1>1. Op!Operational(p, o) = "SUSPENDED_REVIEW_REQUIRED" /\ Op!Missing(p, o) = {} BY DEF Op!Review
<1>2. QED BY <1>1 DEF Op!Missing

\* Such an operator is ready but for the suspension, for its training and its
\* certificate do not ask about that.
LEMMA ReadyOnceLifted ==
  ASSUME NEW o, NEW p, NEW q, Op!Training(p, o) = "COMPLETE", Op!Certification(p, o) = "CURRENT",
         q.completed = p.completed, q.expires = p.expires, q.at = p.at, o \notin q.suspended
  PROVE  Op!Operational(q, o) = "READY_SYNTHETIC"
<1>1. Op!Training(q, o) = "COMPLETE" BY DEF Op!Training
<1>2. Op!Certification(q, o) = "CURRENT" BY DEF Op!Certification
<1>3. QED BY <1>1, <1>2 DEF Op!Operational

LEMMA ReadyDevice ==
  ASSUME NEW p, NEW d, Op!DeviceReady(p, d)
  PROVE  /\ p.reported[d] # {} /\ d \notin p.support
         /\ \A r \in p.reported[d] : ~Op!IsOut(r) /\ ~Op!IsDoubtful(r)
BY DEF Op!DeviceReady, Op!DeviceState

LEMMA PublishStep ==
  ASSUME Gathered, Op!ScopeIsValid(Op!Plan), NEW m, NEW o \in StaffOperators,
         m = [plan |-> Op!Plan, overall |-> Op!Overall(Op!Plan),
              operators |-> [q \in StaffOperators |-> Op!ProjectOperator(Op!Plan, q)],
              devices |-> [d \in StaffDevices |-> Op!ProjectDevice(Op!Plan, d)],
              reviews |-> [q \in StaffOperators |-> Op!Review(Op!Plan, q)]],
         m.reviews[o] = "REVIEW_REQUIRED"
  PROVE  UpForReview(m, o)
<1> DEFINE p == Op!Plan
           lifted == [p EXCEPT !.suspended = @ \ {o}]
<1>1. /\ m.plan = p /\ m.overall = Op!Overall(p) /\ Op!Review(p, o) = "REVIEW_REQUIRED"
      /\ m.operators[o].devices = p.authorized[o]
  BY DEF Op!ProjectOperator
<1>2. /\ Op!Operational(p, o) = "SUSPENDED_REVIEW_REQUIRED"
      /\ Op!Training(p, o) = "COMPLETE" /\ Op!Certification(p, o) = "CURRENT" /\ o \notin p.support
      /\ \A d \in p.authorized[o] : Op!DeviceReady(p, d)
  BY <1>1, NothingMissing
<1>3. Op!Overall(p) = "BLOCKED" BY <1>2 DEF Op!Overall
<1>4. p.authorized = x5 /\ p.reported = x6 BY DEF Op!Plan
<1>5. /\ lifted.completed = p.completed /\ lifted.expires = p.expires /\ lifted.at = p.at
      /\ o \notin lifted.suspended
  BY DEF Op!Plan
<1>6. Op!Operational(lifted, o) = "READY_SYNTHETIC"
  <2> HIDE DEF p, lifted
  <2>1. QED BY <1>2, <1>5, ReadyOnceLifted
<1>7. ASSUME NEW d \in p.authorized[o]
      PROVE  /\ d \notin p.support /\ StaffHubDevice[d] \subseteq {o}
             /\ Op!Cardinality(p.reported[d]) = 1
             /\ \A r \in p.reported[d] :
                  /\ ~Op!IsOut(r) /\ ~Op!IsDoubtful(r)
                  /\ r.visibility = "ASSIGNED_PARTNER" => StaffHubDevice[d] = {o}
  <2>1. d \in StaffDevices BY <1>4 DEF Gathered
  <2>2. /\ p.reported[d] # {} /\ d \notin p.support
        /\ \A r \in p.reported[d] : ~Op!IsOut(r) /\ ~Op!IsDoubtful(r)
    BY <1>2, <1>7, ReadyDevice
  <2>3. StaffHubDevice[d] \subseteq {o} BY <1>7, <2>1 DEF Op!ScopeIsValid
  <2>4. \A r \in p.reported[d] : r.visibility = "ASSIGNED_PARTNER" => StaffHubDevice[d] = {o}
    BY <2>1, <2>3 DEF Op!ScopeIsValid
  <2>5. PICK r : p.reported[d] = {r} BY <1>4, <2>1, <2>2 DEF Gathered
  <2>6. Op!Cardinality(p.reported[d]) = 1 BY <2>5, FS_Singleton, StaffCounts
  <2>7. QED BY <2>2, <2>3, <2>4, <2>6
<1> HIDE DEF p
<1>8. QED BY <1>1, <1>2, <1>3, <1>6, <1>7 DEF UpForReview

LEMMA ReadinessStep ==
  ASSUME moving = "readiness", LiftedNow, Op!Next, moving' = moving
  PROVE  LiftedNow'
<1>1. CASE \E o \in StaffOperators : Op!Train(o) /\ UNCHANGED <<x1, x4, x5, x6, x7, x8>>
  BY <1>1 DEF LiftedNow, Gathered
<1>2. CASE \E o \in StaffOperators : Op!Operate(o) /\ UNCHANGED <<x1, x2, x3, x6, x7, x8>>
  BY <1>2 DEF LiftedNow, Gathered, Op!Operate
<1>3. CASE \E d \in StaffDevices : Op!ReportDevice(d) /\ UNCHANGED <<x1, x2, x3, x4, x5, x7, x8>>
  BY <1>3 DEF LiftedNow, Gathered, Op!ReportDevice
<1>4. CASE UNCHANGED <<x5, x6, x8>> BY <1>4 DEF LiftedNow, Gathered
<1>5. CASE Op!Publish /\ UNCHANGED <<x1, x2, x3, x4, x5, x6, x7>>
  <2>1. PICK m : /\ x8' = x8 \cup {m}
                 /\ m = [plan |-> Op!Plan, overall |-> Op!Overall(Op!Plan),
                         operators |-> [q \in StaffOperators |-> Op!ProjectOperator(Op!Plan, q)],
                         devices |-> [d \in StaffDevices |-> Op!ProjectDevice(Op!Plan, d)],
                         reviews |-> [q \in StaffOperators |-> Op!Review(Op!Plan, q)]]
    BY <1>5 DEF Op!Publish
  <2>2. Gathered /\ Gathered' BY <1>5 DEF LiftedNow, Gathered
  <2>3. Op!ScopeIsValid(Op!Plan) BY <1>5 DEF Op!Publish
  <2>4. \A o \in StaffOperators : m.reviews[o] = "REVIEW_REQUIRED" => UpForReview(m, o)
    BY <2>1, <2>2, <2>3, PublishStep
  <2>5. QED BY <2>1, <2>2, <2>4 DEF LiftedNow
<1>6. QED BY <1>1, <1>2, <1>3, <1>4, <1>5 DEF Op!Next, Op!Escalate, Op!Advance

\* A reviewer asked to return an operator to service has only the suspension to
\* decide.
THEOREM ReviewsAreEarned == HubSpec => []LiftingIsEnough
<1>1. HubInit => LiftedNow
  <2>1. SUFFICES ASSUME HubInit, moving = "readiness" PROVE Op!Init BY DEF Op!Init, LiftedNow, Gathered
  <2>2. QED BY <2>1 DEF HubInit
<1>2. LiftedNow /\ [HubNext]_hubVars => LiftedNow'
  <2>1. SUFFICES ASSUME LiftedNow, moving = "readiness", moving' = "readiness",
                        Op!Next \/ UNCHANGED <<x5, x6, x8>>
                 PROVE  LiftedNow'
    BY DEF HubNext, hubVars, LiftedNow
  <2>2. CASE UNCHANGED <<x5, x6, x8>> BY <2>1, <2>2 DEF LiftedNow, Gathered
  <2>3. QED BY <2>1, <2>2, ReadinessStep
<1>3. LiftedNow => LiftingIsEnough
  BY DEF LiftedNow, UpForReview, LiftingIsEnough, Op!LiftingIsEnough, Op!Search
<1>4. QED BY <1>1, <1>2, <1>3, PTL DEF HubSpec

-----------------------------------------------------------------------------
\* HubLiquidity.  A series that was made of something has the snapshots of its
\* observations at its time.
MadeOf(a) == {s.of : s \in a.snapshots}
Taken(a) ==
  /\ a.at \in Nat /\ IsFiniteSet(a.snapshots)
  /\ \A s \in a.snapshots : s.of \in LiquidityReports /\ s.of.at <= a.at /\ s = Li!Snapshot(s.of, a.at)

\* What was reported by the time of a series stays, so a later one of the scope
\* has it too.
Gained(a, b) == a.scope = b.scope /\ a.at < b.at /\ b.snapshots # {} => MadeOf(a) \subseteq MadeOf(b)

FadingNow ==
  moving = "liquidity" =>
    /\ x1 \in Nat /\ x2 \subseteq LiquidityReports /\ IsFiniteSet(x2)
    /\ \A a \in x3 :
         /\ Taken(a) /\ a.at <= x1 /\ MadeOf(a) \subseteq Li!Scoped(a.scope)
         /\ \A b \in x3 : Gained(a, b)

\* Of finitely many snapshots one is the latest: fewest are later.
LEMMA LatestIsThere ==
  ASSUME NEW S, IsFiniteSet(S), S # {}, \A s \in S : s.of.at \in Nat /\ s.of.id \in Nat
  PROVE  /\ Li!Latest(S) \in S
         /\ \A t \in S : t.of.at <= Li!Latest(S).of.at
<1> DEFINE Upto(t, s) == t.of.at < s.of.at \/ (t.of.at = s.of.at /\ t.of.id <= s.of.id)
           Later(s) == {t \in S : ~Upto(t, s)}
           T == {Later(s) : s \in S}
<1>1. T \subseteq FiniteSubsetsOf(S) /\ T # {}
  <2>1. \A s \in S : Later(s) \subseteq S /\ IsFiniteSet(Later(s)) BY FS_Subset
  <2>2. QED BY <2>1 DEF FiniteSubsetsOf
<1>2. IsWellFoundedOn(StrictSubsetOrdering(S), FiniteSubsetsOf(S)) BY FS_StrictSubsetOrderingWellFounded
<1>3. PICK few \in T : \A u \in T : <<u, few>> \notin StrictSubsetOrdering(S)
  <2> HIDE DEF T
  <2>1. QED BY <1>1, <1>2, WFMin
<1>4. PICK s \in S : few = Later(s) OBVIOUS
<1>5. \A t \in S : Upto(t, s)
  <2>1. SUFFICES ASSUME NEW t \in S, ~Upto(t, s) PROVE FALSE OBVIOUS
  <2>2. Later(t) \in T /\ Later(t) \in SUBSET S /\ Later(s) \in SUBSET S OBVIOUS
  <2>3. \A u \in S : ~Upto(u, t) => ~Upto(u, s) BY <2>1
  <2>4. t \in Later(s) /\ t \notin Later(t) BY <2>1
  <2>5. Later(t) \subseteq Later(s) /\ Later(t) # Later(s) BY <2>3, <2>4
  <2>6. <<Later(t), Later(s)>> \in StrictSubsetOrdering(S) BY <2>2, <2>5 DEF StrictSubsetOrdering
  <2>7. QED BY <1>3, <1>4, <2>2, <2>6
<1>6. Li!Latest(S) \in S /\ \A t \in S : Upto(t, Li!Latest(S)) BY <1>5 DEF Li!Latest
<1>7. QED BY <1>6

\* As an observation ages the server is no surer of it, and it asks for a refresh
\* over every horizon or over none.
LEMMA AgeCosts ==
  ASSUME NEW o \in LiquidityReports, NEW at \in Nat, NEW later \in Nat, at <= later
  PROVE  /\ Li!Confidence(o, later) <= Li!Confidence(o, at)
         /\ \A h \in LiquidityHorizons :
              Li!Recommendation(o, h, at) = "REFRESH" =>
                \A g \in LiquidityHorizons : Li!Recommendation(o, g, later) = "REFRESH"
<1>1. o.at \in Nat /\ o.trust \in Nat BY HubAssumption
<1>2. Li!Freshness(at - o.at) = "STALE" => Li!Freshness(later - o.at) = "STALE" BY <1>1 DEF Li!Freshness
<1>3. Li!Penalty(Li!Freshness(at - o.at)) <= Li!Penalty(Li!Freshness(later - o.at))
      /\ Li!Penalty(Li!Freshness(at - o.at)) \in Nat /\ Li!Penalty(Li!Freshness(later - o.at)) \in Nat
  BY <1>1 DEF Li!Freshness, Li!Penalty
<1>4. Li!Confidence(o, later) <= Li!Confidence(o, at) BY <1>1, <1>3 DEF Li!Confidence
<1>5. \A h, t : Li!Recommendation(o, h, t) = "REFRESH" <=> Li!Freshness(t - o.at) = "STALE"
  BY DEF Li!Recommendation
<1>6. QED BY <1>2, <1>4, <1>5

LEMMA BuildStep ==
  ASSUME moving = "liquidity", FadingNow, NEW scope, Li!Build(scope), moving' = moving
  PROVE  FadingNow'
<1> DEFINE a == [scope |-> scope, at |-> x1,
                 snapshots |-> IF Li!Accepts(scope) THEN {Li!Snapshot(o, x1) : o \in Li!Scoped(scope)} ELSE {}]
<1>1. x3' = x3 \cup {a} /\ x1' = x1 /\ x2' = x2 BY DEF Li!Build
<1>2. /\ x1 \in Nat /\ x2 \subseteq LiquidityReports /\ IsFiniteSet(x2)
      /\ \A b \in x3 :
           /\ Taken(b) /\ b.at <= x1 /\ MadeOf(b) \subseteq Li!Scoped(b.scope)
           /\ \A c \in x3 : Gained(b, c)
  BY DEF FadingNow
<1>3. a.scope = scope /\ a.at = x1 OBVIOUS
<1>4. \A o, at : Li!Snapshot(o, at).of = o BY DEF Li!Snapshot
<1>5. a.snapshots # {} =>
        Li!Accepts(scope) /\ a.snapshots = {Li!Snapshot(o, x1) : o \in Li!Scoped(scope)} /\ MadeOf(a) = Li!Scoped(scope)
  BY <1>4 DEF MadeOf
<1>6. IsFiniteSet(a.snapshots)
  <2>1. IsFiniteSet(Li!Scoped(scope)) BY <1>2, FS_Subset DEF Li!Scoped
  <2> DEFINE T == {Li!Snapshot(o, x1) : o \in Li!Scoped(scope)}
             f == [o \in Li!Scoped(scope) |-> Li!Snapshot(o, x1)]
  <2>2. f \in Surjection(Li!Scoped(scope), T) BY DEF Surjection
  <2>3. a.snapshots = T \/ a.snapshots = {} OBVIOUS
  <2> HIDE DEF T, f, a
  <2>4. IsFiniteSet(T) BY <2>1, <2>2, FS_Surjection
  <2>5. QED BY <2>3, <2>4, FS_EmptySet
<1> HIDE DEF a
<1>7. Taken(a)
  <2>1. \A s \in a.snapshots : s.of \in Li!Scoped(scope) /\ s = Li!Snapshot(s.of, x1) BY <1>4, <1>5
  <2>2. \A o \in Li!Scoped(scope) : o \in LiquidityReports BY <1>2 DEF Li!Scoped
  <2>3. \A s \in a.snapshots : s.of.at <= x1 BY <2>1, <1>5 DEF Li!Accepts
  <2>4. QED BY <1>2, <1>3, <1>6, <2>1, <2>2, <2>3 DEF Taken
<1>8. MadeOf(a) \subseteq Li!Scoped(a.scope) BY <1>3, <1>5 DEF MadeOf
<1>9. \A b \in x3 : Gained(b, a) BY <1>2, <1>3, <1>5 DEF Gained
<1>10. \A b \in x3 \cup {a} : Gained(a, b) BY <1>2, <1>3 DEF Gained, Taken
<1>11. \A s : Li!Scoped(s)' = Li!Scoped(s) BY <1>1 DEF Li!Scoped
<1>12. QED BY <1>1, <1>2, <1>3, <1>7, <1>8, <1>9, <1>10, <1>11 DEF FadingNow

LEMMA LiquidityStep ==
  ASSUME moving = "liquidity", FadingNow, Li!Next \/ UNCHANGED <<x1, x2, x3>>, moving' = moving
  PROVE  FadingNow'
<1>1. /\ x1 \in Nat /\ x2 \subseteq LiquidityReports /\ IsFiniteSet(x2)
      /\ \A a \in x3 :
           /\ Taken(a) /\ a.at <= x1 /\ MadeOf(a) \subseteq Li!Scoped(a.scope)
           /\ \A b \in x3 : Gained(a, b)
  BY DEF FadingNow
<1>2. CASE UNCHANGED <<x1, x2, x3>> BY <1>2, <1>1 DEF FadingNow, Li!Scoped
<1>3. ASSUME NEW o \in LiquidityReports, Li!Report(o) PROVE FadingNow'
  <2>1. x2' = x2 \cup {o} /\ UNCHANGED <<x1, x3>> BY <1>3 DEF Li!Report
  <2>2. IsFiniteSet(x2') BY <1>1, <2>1, FS_AddElement
  <2>3. \A scope : Li!Scoped(scope) \subseteq Li!Scoped(scope)' BY <2>1 DEF Li!Scoped
  <2>4. \A a \in x3 : MadeOf(a) \subseteq Li!Scoped(a.scope)' BY <1>1, <2>3
  <2>5. QED BY <1>1, <2>1, <2>2, <2>4 DEF FadingNow
<1>4. ASSUME NEW scope, Li!Build(scope) PROVE FadingNow' BY <1>4, BuildStep
<1>5. CASE Li!Tick
  <2>1. x1' \in Nat /\ x1 < x1' /\ UNCHANGED <<x2, x3>> BY <1>5, HubAssumption DEF Li!Tick
  <2>2. \A scope : Li!Scoped(scope)' = Li!Scoped(scope) BY <2>1 DEF Li!Scoped
  <2>3. \A a \in x3 : a.at <= x1' BY <1>1, <2>1 DEF Taken
  <2>4. QED BY <1>1, <2>1, <2>2, <2>3 DEF FadingNow
<1>6. QED BY <1>2, <1>3, <1>4, <1>5 DEF Li!Next

\* The latest snapshot of a series is one of its own.
LEMMA LatestOf ==
  ASSUME NEW a, Taken(a), a.snapshots # {}, NEW s, s = Li!Latest(a.snapshots)
  PROVE  /\ s.of \in LiquidityReports /\ s.of.at \in Nat /\ s.of \in MadeOf(a) /\ s = Li!Snapshot(s.of, a.at)
         /\ \A o \in MadeOf(a) : o.at <= s.of.at
<1>1. \A t \in a.snapshots : t.of \in LiquidityReports BY DEF Taken
<1>2. \A t \in a.snapshots : t.of.at \in Nat /\ t.of.id \in Nat BY <1>1, HubAssumption
<1>3. s \in a.snapshots /\ \A t \in a.snapshots : t.of.at <= s.of.at BY <1>2, LatestIsThere DEF Taken
<1>4. QED BY <1>1, <1>2, <1>3 DEF Taken, MadeOf

LEMMA SeriesFade ==
  ASSUME moving = "liquidity", FadingNow,
         NEW a \in x3, NEW b \in x3, a.snapshots # {}, b.snapshots # {},
         NEW s, s = Li!Latest(a.snapshots), NEW t, t = Li!Latest(b.snapshots)
  PROVE  /\ a.at <= b.at /\ s.of = t.of =>
              /\ t.confidence <= s.confidence
              /\ (\E h \in LiquidityHorizons : s.recommendation[h] = "REFRESH")
                   => \A h \in LiquidityHorizons : t.recommendation[h] = "REFRESH"
         /\ a.scope = b.scope /\ a.at < b.at => s.of.at <= t.of.at
<1>1. Taken(a) /\ Taken(b) /\ Gained(a, b) BY DEF FadingNow
<1>2. /\ s.of \in LiquidityReports /\ s = Li!Snapshot(s.of, a.at) /\ s.of \in MadeOf(a)
      /\ t = Li!Snapshot(t.of, b.at) /\ \A o \in MadeOf(b) : o.at <= t.of.at
  BY <1>1, LatestOf
<1>3. a.at \in Nat /\ b.at \in Nat BY <1>1 DEF Taken
<1>4. \A o, at : /\ Li!Snapshot(o, at).confidence = Li!Confidence(o, at)
                 /\ \A h \in LiquidityHorizons :
                      Li!Snapshot(o, at).recommendation[h] = Li!Recommendation(o, h, at)
  BY DEF Li!Snapshot
<1>5. ASSUME a.at <= b.at, s.of = t.of
      PROVE  /\ t.confidence <= s.confidence
             /\ (\E h \in LiquidityHorizons : s.recommendation[h] = "REFRESH")
                  => \A h \in LiquidityHorizons : t.recommendation[h] = "REFRESH"
  <2>1. /\ Li!Confidence(s.of, b.at) <= Li!Confidence(s.of, a.at)
        /\ \A h \in LiquidityHorizons :
             Li!Recommendation(s.of, h, a.at) = "REFRESH" =>
               \A g \in LiquidityHorizons : Li!Recommendation(s.of, g, b.at) = "REFRESH"
    BY <1>2, <1>3, <1>5, AgeCosts
  <2>2. /\ s.confidence = Li!Confidence(s.of, a.at) /\ t.confidence = Li!Confidence(s.of, b.at)
        /\ \A h \in LiquidityHorizons :
             /\ s.recommendation[h] = Li!Recommendation(s.of, h, a.at)
             /\ t.recommendation[h] = Li!Recommendation(s.of, h, b.at)
    BY <1>2, <1>4, <1>5
  <2>3. QED BY <2>1, <2>2
<1>6. a.scope = b.scope /\ a.at < b.at => s.of.at <= t.of.at BY <1>1, <1>2 DEF Gained
<1>7. QED BY <1>5, <1>6

\* As long as nothing newer is reported the server only becomes less sure, and it
\* never goes back to an older observation.
THEOREM ConfidenceFades == HubSpec => []ConfidenceOnlyFades
<1>1. HubInit => FadingNow
  <2>1. SUFFICES ASSUME HubInit, moving = "liquidity" PROVE Li!Init
    BY HubAssumption, FS_EmptySet DEF Li!Init, FadingNow
  <2>2. QED BY <2>1 DEF HubInit
<1>2. FadingNow /\ [HubNext]_hubVars => FadingNow'
  <2>1. SUFFICES ASSUME FadingNow, moving = "liquidity", moving' = "liquidity",
                        Li!Next \/ UNCHANGED <<x1, x2, x3>>
                 PROVE  FadingNow'
    BY DEF HubNext, hubVars, FadingNow
  <2>2. QED BY <2>1, LiquidityStep
<1>3. FadingNow => ConfidenceOnlyFades
  <2>1. SUFFICES ASSUME FadingNow, moving = "liquidity" PROVE Li!ConfidenceOnlyFades /\ Li!NeverOlder
    BY DEF ConfidenceOnlyFades
  <2>2. Li!ConfidenceOnlyFades BY <2>1, SeriesFade DEF Li!ConfidenceOnlyFades, Li!Made
  <2>3. Li!NeverOlder BY <2>1, SeriesFade DEF Li!NeverOlder, Li!Made
  <2>4. QED BY <2>2, <2>3
<1>4. QED BY <1>1, <1>2, <1>3, PTL DEF HubSpec

-----------------------------------------------------------------------------
\* NeutralityGovernance.
LEMMA PolicyCounts == \A S : Ne!Cardinality(S) = Cardinality(S)
BY DEF Ne!Cardinality, Cardinality

\* What a read model without exceptions has.
Earned(m) ==
  /\ LET oldest == CHOOSE v \in {c.to : c \in m.changes} : \A c \in m.changes : v <= c.to
     IN {c.to : c \in m.changes} = oldest..m.version
  /\ \A c \in m.changes : c.review = "ACCEPTED_SYNTHETIC"
  /\ \A p \in DOMAIN m.flags : m.flags[p] = "NONE_IDENTIFIED_SYNTHETIC"
  /\ \A d \in m.decisions :
       /\ d.outcome = "RECORDED_SYNTHETIC"
       /\ d.about \in Ne!Refs({c.to : c \in m.changes}, {check.pair : check \in m.checks}, DOMAIN m.flags)
  /\ \A p, q \in PolicyPartners :
       p # q /\ m.offer[p].capability = m.offer[q].capability =>
         m.offer[p].terms = m.offer[q].terms /\ Ne!InPlace(m.offer[p]) /\ Ne!InPlace(m.offer[q])

Governed ==
  /\ x1 \in Nat /\ x4 \in [PolicyPartners -> PolicyOffers]
  /\ \A c \in x3 : Ne!ChangeParses(c) /\ c.from \in Nat
  /\ \A p \in DOMAIN x5 : x5[p] \in Ne!FlagStates
  /\ \A d \in x6 : d.outcome \in Ne!Outcomes
EarnedNow ==
  moving = "neutrality" =>
    Governed /\ \A m \in x7 : m.state = "NO_SYNTHETIC_EXCEPTION_IDENTIFIED" => Earned(m)

\* A history that is complete has a record of every version from its oldest: the
\* last version missing would be where the change after it starts.
LEMMA WholeHistory ==
  ASSUME x1 \in Nat, \A c \in x3 : c.from \in Nat /\ c.to = c.from + 1, Ne!HistoryIsComplete
  PROVE  LET oldest == CHOOSE v \in {c.to : c \in x3} : \A c \in x3 : v <= c.to
         IN {c.to : c \in x3} = oldest..x1
<1> DEFINE tos == {c.to : c \in x3}
           oldest == CHOOSE v \in tos : \A c \in x3 : v <= c.to
<1>1. tos \subseteq Nat /\ x1 \in tos /\ \A v \in tos : v <= x1 BY DEF Ne!HistoryIsComplete
<1>2. oldest \in tos /\ \A v \in tos : oldest <= v
  <2>1. \E v \in tos : \A w \in tos : v <= w
    <3> HIDE DEF tos
    <3>1. QED BY <1>1, Tr!LeastElement
  <2>2. QED BY <2>1
<1>3. \A v \in tos : (\E w \in tos : w < v) => v - 1 \in tos
  <2>1. SUFFICES ASSUME NEW c \in x3, NEW b \in x3, b.to < c.to PROVE c.to - 1 \in tos OBVIOUS
  <2>2. PICK d \in x3 : d.to = c.from BY <2>1 DEF Ne!HistoryIsComplete
  <2>3. QED BY <2>2
<1> HIDE DEF tos, oldest
<1>4. \A v \in oldest..x1 : v \in tos
  <2> DEFINE gaps == {n \in Nat : x1 - n \in oldest..x1 /\ x1 - n \notin tos}
  <2>1. SUFFICES ASSUME gaps # {} PROVE FALSE
    <3>1. SUFFICES ASSUME NEW v \in oldest..x1, v \notin tos PROVE x1 - v \in gaps OBVIOUS
    <3>2. v \in Nat /\ x1 - v \in Nat /\ x1 - (x1 - v) = v BY <1>1, <1>2, <3>1
    <3>3. QED BY <3>1, <3>2
  <2>2. gaps \subseteq Nat OBVIOUS
  <2> HIDE DEF gaps
  <2>3. PICK n \in gaps : \A k \in gaps : n <= k BY <2>1, <2>2, Tr!LeastElement
  <2>4. n \in Nat /\ x1 - n \in oldest..x1 /\ x1 - n \notin tos BY <2>3 DEF gaps
  <2>5. oldest \in Nat /\ x1 \in Nat BY <1>1, <1>2
  <2>6. n # 0 /\ n - 1 \in Nat /\ n - 1 < n /\ x1 - (n - 1) \in oldest..x1 /\ x1 - (n - 1) = x1 - n + 1
    BY <1>1, <2>4, <2>5
  <2>7. x1 - (n - 1) \in tos BY <2>3, <2>6 DEF gaps
  <2>8. oldest < x1 - (n - 1) BY <2>4, <2>5, <2>6
  <2>9. x1 - (n - 1) - 1 \in tos BY <1>2, <1>3, <2>7, <2>8
  <2>10. QED BY <2>4, <2>5, <2>9
<1>5. \A v \in tos : v \in oldest..x1 BY <1>1, <1>2
<1>6. QED BY <1>4, <1>5 DEF tos, oldest

LEMMA PairOfPartners ==
  ASSUME NEW p \in PolicyPartners, NEW q \in PolicyPartners, p # q
  PROVE  {p, q} \in Ne!Comparisons
<1>1. IsFiniteSet({p}) /\ Cardinality({p}) = 1 BY FS_Singleton
<1>2. Cardinality({p} \cup {q}) = 2 BY <1>1, FS_AddElement
<1>3. {p} \cup {q} = {p, q} OBVIOUS
<1>4. QED BY <1>2, <1>3, PolicyCounts DEF Ne!Comparisons

\* What two partners without a difference have in common.
Alike(o, r) == o.terms = r.terms /\ Ne!InPlace(o) /\ Ne!InPlace(r)

LEMMA NoDifference ==
  ASSUME NEW o \in PolicyOffers, NEW r \in PolicyOffers, o.capability = r.capability,
         Ne!Differences(Ne!ParticipantFromReference(o), Ne!ParticipantFromReference(r)) = {}
  PROVE  Alike(o, r)
<1> DEFINE left == Ne!ParticipantFromReference(o)
           right == Ne!ParticipantFromReference(r)
<1>1. /\ left.capability = o.capability /\ left.terms = o.terms
      /\ left.eligible = (PolicyRegion \in o.regions \cap o.contract /\ \E g \in o.grant : PolicyRegion \in g.regions)
      /\ left.registered = o.registered /\ left.supports = o.supports
      /\ left.authorized = (\E g \in o.grant : g.route) /\ left.bound = (o.binding = "ENABLED_SYNTHETIC")
  BY DEF Ne!ParticipantFromReference
<1>2. /\ right.capability = r.capability /\ right.terms = r.terms
      /\ right.eligible = (PolicyRegion \in r.regions \cap r.contract /\ \E g \in r.grant : PolicyRegion \in g.regions)
      /\ right.registered = r.registered /\ right.supports = r.supports
      /\ right.authorized = (\E g \in r.grant : g.route) /\ right.bound = (r.binding = "ENABLED_SYNTHETIC")
  BY DEF Ne!ParticipantFromReference
<1> HIDE DEF left, right
<1>3. /\ \A term \in DOMAIN Ne!Mismatch : left.terms[term] = right.terms[term]
      /\ left.eligible /\ right.eligible /\ Ne!Provided(left) /\ Ne!Provided(right)
      /\ left.authorized /\ right.authorized /\ left.bound /\ right.bound
  <2>1. left.capability = right.capability BY <1>1, <1>2
  <2>2. Ne!Differences(left, right) = {} BY DEF left, right
  <2>3. QED BY <2>1, <2>2 DEF Ne!Differences
<1>4. o.terms = r.terms
  <2>1. /\ o.terms = [term \in DOMAIN Ne!Mismatch |-> o.terms[term]]
        /\ r.terms = [term \in DOMAIN Ne!Mismatch |-> r.terms[term]]
    BY HubAssumption
  <2>2. \A term \in DOMAIN Ne!Mismatch : o.terms[term] = r.terms[term] BY <1>1, <1>2, <1>3
  <2>3. QED BY <2>1, <2>2
<1>5. /\ \A g, h \in o.grant : g = h
      /\ \A g, h \in r.grant : g = h
  BY HubAssumption
<1>6. Ne!InPlace(o) BY <1>1, <1>3, <1>5 DEF Ne!Provided, Ne!InPlace
<1>7. Ne!InPlace(r) BY <1>2, <1>3, <1>5 DEF Ne!Provided, Ne!InPlace
<1>8. QED BY <1>4, <1>6, <1>7 DEF Alike

\* A check without a difference or a gap is of two partners that are alike.
LEMMA ChecksCompare ==
  ASSUME x4 \in [PolicyPartners -> PolicyOffers], ~Ne!EvidenceIncomplete, ~Ne!ReviewRequired,
         NEW p \in PolicyPartners, NEW q \in PolicyPartners, p # q, x4[p].capability = x4[q].capability
  PROVE  Alike(x4[p], x4[q])
<1> DEFINE pair == {p, q}
           l == CHOOSE u \in pair : TRUE
           r == CHOOSE u \in pair : u # l
           codes == Ne!Differences(Ne!ParticipantFromReference(x4[l]), Ne!ParticipantFromReference(x4[r]))
           check == [pair |-> pair, codes |-> codes, result |-> Ne!Result(codes)]
<1>1. pair \in Ne!Comparisons BY PairOfPartners
<1>2. check \in Ne!Checks BY <1>1 DEF Ne!Checks
<1>3. check.result # "DIFFERENCE_REQUIRES_REVIEW"
  <2>1. \A c \in Ne!Checks : c.result # "DIFFERENCE_REQUIRES_REVIEW" BY DEF Ne!ReviewRequired
  <2> HIDE DEF check
  <2>2. QED BY <1>2, <2>1
<1>4. l \in pair /\ r \in pair /\ l # r
  <2>1. l \in pair OBVIOUS
  <2> HIDE DEF l
  <2>2. \E u \in pair : u # l BY <2>1
  <2>3. QED BY <2>1, <2>2
<1>5. /\ x4[l] \in PolicyOffers /\ x4[r] \in PolicyOffers /\ x4[l].capability = x4[r].capability
  BY <1>4
<1>6. "CAPABILITY_MISMATCH" \notin codes
  BY <1>5 DEF Ne!Differences, Ne!ParticipantFromReference, Ne!Mismatch
<1>7. codes = {}
  <2>1. check.result = Ne!Result(codes) OBVIOUS
  <2> HIDE DEF check, codes
  <2>2. QED BY <1>3, <1>6, <2>1 DEF Ne!Result
<1>8. Alike(x4[l], x4[r])
  <2>1. Ne!Differences(Ne!ParticipantFromReference(x4[l]), Ne!ParticipantFromReference(x4[r])) = {} BY <1>7
  <2> HIDE DEF l, r
  <2>2. QED BY <1>5, <2>1, NoDifference
<1>9. (l = p /\ r = q) \/ (l = q /\ r = p) BY <1>4
<1> HIDE DEF l, r
<1>10. QED BY <1>8, <1>9 DEF Alike

\* Every comparison of the plan is in the read model.
LEMMA ComparisonsChecked == Ne!Comparisons \subseteq {check.pair : check \in Ne!Checks}
<1>1. SUFFICES ASSUME NEW pair \in Ne!Comparisons PROVE \E check \in Ne!Checks : check.pair = pair
  OBVIOUS
<1> DEFINE l == CHOOSE u \in pair : TRUE
           r == CHOOSE u \in pair : u # l
           codes == Ne!Differences(Ne!ParticipantFromReference(x4[l]), Ne!ParticipantFromReference(x4[r]))
<1>2. [pair |-> pair, codes |-> codes, result |-> Ne!Result(codes)] \in Ne!Checks BY DEF Ne!Checks
<1> HIDE DEF codes
<1>3. QED BY <1>2

\* What createStage4HubNeutralityGovernanceReadModel publishes.
LEMMA PublishPolicy ==
  ASSUME Governed, Ne!ScopeIsValid, Ne!NeutralityState = "NO_SYNTHETIC_EXCEPTION_IDENTIFIED", NEW m,
         m.version = x1, m.changes = x3, m.offer = x4, m.flags = x5,
         m.checks = Ne!Checks, m.decisions = x6
  PROVE  Earned(m)
<1>1. ~Ne!EvidenceIncomplete /\ ~Ne!ReviewRequired BY DEF Ne!NeutralityState
<1>2. \A c \in x3 : c.from \in Nat /\ c.to = c.from + 1 BY DEF Governed, Ne!ChangeParses
<1>3. LET oldest == CHOOSE v \in {c.to : c \in x3} : \A c \in x3 : v <= c.to
      IN {c.to : c \in x3} = oldest..x1
  BY <1>2, WholeHistory DEF Governed, Ne!ScopeIsValid
<1>4. \A c \in x3 : c.review = "ACCEPTED_SYNTHETIC" BY <1>1 DEF Governed, Ne!ChangeParses, Ne!ReviewRequired
<1>5. \A p \in DOMAIN x5 : x5[p] = "NONE_IDENTIFIED_SYNTHETIC"
  BY <1>1 DEF Governed, Ne!FlagStates, Ne!ReviewRequired
<1>6. \A p, q \in PolicyPartners : p # q /\ x4[p].capability = x4[q].capability => Alike(x4[p], x4[q])
  BY <1>1, ChecksCompare DEF Governed
<1>7. \A p, q \in PolicyPartners :
        p # q /\ m.offer[p].capability = m.offer[q].capability =>
          m.offer[p].terms = m.offer[q].terms /\ Ne!InPlace(m.offer[p]) /\ Ne!InPlace(m.offer[q])
  BY <1>6 DEF Alike
<1>8. \A d \in x6 : d.outcome = "RECORDED_SYNTHETIC" BY <1>1 DEF Governed, Ne!Outcomes, Ne!ReviewRequired
<1>9. \A d \in x6 :
        d.about \in Ne!Refs({c.to : c \in x3}, {check.pair : check \in Ne!Checks}, DOMAIN x5)
  BY ComparisonsChecked DEF Ne!ScopeIsValid, Ne!Refs
<1>10. QED BY <1>3, <1>4, <1>5, <1>7, <1>8, <1>9 DEF Earned

LEMMA PolicyStep ==
  ASSUME moving = "neutrality", EarnedNow, Ne!Next, moving' = moving
  PROVE  EarnedNow'
<1>1. Governed /\ x4' = x4 BY DEF EarnedNow, Ne!Next
<1>2. CASE Ne!NewVersion /\ UNCHANGED <<x3, x5, x6, x7>>
  BY <1>1, <1>2 DEF EarnedNow, Governed, Ne!NewVersion
<1>3. CASE UNCHANGED <<x1, x3, x5, x6, x7>> BY <1>1, <1>3 DEF EarnedNow, Governed
<1>4. CASE (Ne!RecordChange \/ Ne!LoseChange) /\ UNCHANGED <<x1, x2, x5, x6, x7>>
  <2>1. \A c \in x3' : Ne!ChangeParses(c) /\ c.from \in Nat
    <3>1. CASE Ne!LoseChange BY <1>1, <3>1 DEF Governed, Ne!LoseChange
    <3>2. CASE Ne!RecordChange
      <4>1. PICK change :
              /\ change.from \in 0..(PolicyVersions - 1) /\ Ne!ChangeParses(change)
              /\ x3' = {c \in x3 : c.to # change.to} \cup {change}
        BY <3>2 DEF Ne!RecordChange
      <4>2. change.from \in Nat BY <4>1, HubAssumption
      <4>3. QED BY <1>1, <4>1, <4>2 DEF Governed
    <3>3. QED BY <1>4, <3>1, <3>2
  <2>2. QED BY <1>1, <1>4, <2>1 DEF EarnedNow, Governed
<1>5. ASSUME NEW partner \in PolicyPartners, Ne!Flag(partner), UNCHANGED <<x1, x2, x3, x6, x7>> PROVE EarnedNow'
  <2>1. \A p \in DOMAIN x5' : x5'[p] \in Ne!FlagStates BY <1>1, <1>5 DEF Governed, Ne!Flag
  <2>2. QED BY <1>1, <1>5, <2>1 DEF EarnedNow, Governed
<1>6. CASE Ne!Publish /\ UNCHANGED <<x1, x2, x3, x5, x6>>
  <2>1. PICK m : /\ m.version = x1 /\ m.changes = x3 /\ m.offer = x4 /\ m.flags = x5
                 /\ m.checks = Ne!Checks /\ m.decisions = x6
                 /\ m.state = Ne!NeutralityState /\ x7' = x7 \cup {m}
    BY <1>6 DEF Ne!Publish
  <2>2. Ne!ScopeIsValid BY <1>6 DEF Ne!Publish
  <2>3. m.state = "NO_SYNTHETIC_EXCEPTION_IDENTIFIED" => Earned(m) BY <1>1, <2>1, <2>2, PublishPolicy
  <2>4. Governed' BY <1>1, <1>6 DEF Governed
  <2>5. QED BY <2>1, <2>3, <2>4 DEF EarnedNow
<1>7. CASE Ne!Decide /\ UNCHANGED <<x1, x2, x3, x5, x7>>
  <2>1. \A d \in x6' : d.outcome \in Ne!Outcomes
    BY <1>7 DEF Ne!Decide, Ne!Published, Ne!Outcomes
  <2>2. QED BY <1>1, <1>7, <2>1 DEF EarnedNow, Governed
<1>8. QED BY <1>1, <1>2, <1>3, <1>4, <1>5, <1>6, <1>7 DEF Ne!Next, Ne!ReviseRules

\* A read model without exceptions is of a plan whose history is whole and accepted,
\* that has no conflict declared and no decision that asks for a review, each about
\* something the model shows, and whose partners of one capability are on the same
\* terms with all of their own in place.
THEOREM NeutralityIsEarned == HubSpec => []NoExceptionIsEarned
<1>1. HubInit => EarnedNow
  <2>1. SUFFICES ASSUME HubInit, moving = "neutrality" PROVE Governed /\ x7 = {} BY DEF EarnedNow
  <2>2. Ne!Init BY <2>1 DEF HubInit
  <2>3. Ne!ChangeParses([from |-> 0, to |-> 1, review |-> "ACCEPTED_SYNTHETIC"])
    BY HubAssumption DEF Ne!ChangeParses
  <2>4. QED BY <2>2, <2>3 DEF Ne!Init, Governed, Ne!FlagStates, Ne!Published, Ne!Outcomes
<1>2. EarnedNow /\ [HubNext]_hubVars => EarnedNow'
  <2>1. SUFFICES ASSUME EarnedNow, moving = "neutrality", moving' = "neutrality",
                        Ne!Next \/ UNCHANGED <<x1, x2, x3, x4, x5, x6, x7>>
                 PROVE  EarnedNow'
    BY DEF HubNext, hubVars, EarnedNow
  <2>2. CASE UNCHANGED <<x1, x2, x3, x4, x5, x6, x7>> BY <2>1, <2>2 DEF EarnedNow, Governed
  <2>3. QED BY <2>1, <2>2, PolicyStep
<1>3. EarnedNow => NoExceptionIsEarned BY DEF EarnedNow, Earned, NoExceptionIsEarned, Ne!NoExceptionIsEarned
<1>4. QED BY <1>1, <1>2, <1>3, PTL DEF HubSpec
-----------------------------------------------------------------------------
\* HubServices, over the state of GovernedRouting.  The registry only grows, and what it
\* has of an id is one record for good: a route that was pinned is still what it was.
Registry(adapters, routes) ==
  /\ \A a, b \in adapters : a.id = b.id => a = b
  /\ \A q, r \in routes : q.id = r.id => q = r
  /\ \A a \in adapters : a.executable => a.status \in Se!AdapterStatusIn(a.environment)
  /\ \A r \in routes : \E a \in adapters :
       /\ a.id = r.adapter /\ a.environment = r.environment /\ r.capabilities \subseteq a.capabilities
       /\ Se!RouteIsUsable(r) => a.executable

\* A grant of the contract that was in force covers the resolution, and the registry has
\* what it pins.
Allowed(r) ==
  \E i \in DOMAIN r.contract.grants :
    LET g == r.contract.grants[i] IN
      /\ g.capability = r.capability /\ r.service.id \in g.services
      /\ Se!Within(g, r.at) /\ g.state \in Se!GrantStateIn(r.contract.environment)
      /\ g.roles \cap r.by.roles # {} /\ r.region \in g.regions /\ r.route \in g.routes
Pinned(r, routes) ==
  \E q \in routes : q.id = r.route /\ q.version = r.routeVersion /\ q.adapter = r.adapter
Made(r, routes) == Allowed(r) /\ Pinned(r, routes)

Routed(adapters, routes, contract, catalog, mutation, resolved) ==
  /\ Registry(adapters, routes) /\ contract \in ServiceContracts /\ catalog \in ServiceCatalogs
  /\ \/ resolved = <<>> /\ mutation = "PRE_SUBMIT"
     \/ \E r : resolved = <<r>> /\ Made(r, routes)
     \/ /\ mutation # "PRE_SUBMIT"
        /\ \E q, r : resolved = <<q, r>> /\ Made(q, routes) /\ Made(r, routes) /\ q.route = r.route
RoutedNow == Routed(x1, x2, x3, x4, x6, x7)

LEMMA FirstIsLeast ==
  ASSUME NEW S, S \subseteq Nat, S # {}
  PROVE  Se!Min(S) \in S
BY Tr!LeastElement DEF Se!Min

LEMMA InitRegistry == Se!Init => Registry(x1, x2)
<1>. SUFFICES ASSUME Se!Init PROVE Registry(x1, x2)
  OBVIOUS
<1>1. PICK asked \in BOOLEAN :
        /\ x1 = Se!SyntheticAdapters \cup Se!DirectProviderFoundations \cup {Se!ArifPayAdapter(asked)}
        /\ x2 = Se!SyntheticRoutes \cup {Se!ArifPayRoute(asked)}
  BY DEF Se!Init
<1>. DEFINE arifPay == Se!ArifPayAdapter(asked)
<1>. DEFINE alpha == Se!Adapter("alpha", "synthetic", {"LOOKUP", "CASH", "PLAN"}, "REGISTERED_SYNTHETIC", TRUE)
            beta == Se!Adapter("beta", "synthetic", {"LOOKUP", "SAVINGS"}, "REGISTERED_SYNTHETIC", TRUE)
            telebirr == Se!Adapter("telebirr", "testbed", {"C2B", "STATUS"}, "REGISTERED_TESTBED", FALSE)
            mpesa == Se!Adapter("mpesa", "sandbox", {"C2B", "STATUS"}, "REGISTERED_SANDBOX", FALSE)
<1>2. /\ Se!SyntheticAdapters = {alpha, beta} /\ alpha.id = "alpha" /\ beta.id = "beta"
      /\ Se!DirectProviderFoundations = {telebirr, mpesa} /\ telebirr.id = "telebirr" /\ mpesa.id = "mpesa"
  BY DEF Se!SyntheticAdapters, Se!DirectProviderFoundations, Se!Adapter
<1>. HIDE DEF alpha, beta, telebirr, mpesa
<1>3. /\ \A a, b \in Se!SyntheticAdapters : a.id = b.id => a = b
      /\ \A a, b \in Se!DirectProviderFoundations : a.id = b.id => a = b
  BY <1>2
<1>4. \A a \in Se!SyntheticAdapters :
        a.id \in {"alpha", "beta"} /\ a.executable /\ a.status = "REGISTERED_SYNTHETIC" /\ a.environment = "synthetic"
  BY DEF Se!SyntheticAdapters, Se!Adapter
<1>5. \A a \in Se!DirectProviderFoundations : a.id \in {"telebirr", "mpesa"} /\ ~a.executable
  BY DEF Se!DirectProviderFoundations, Se!Adapter
<1>6. /\ arifPay.id = "arifpay" /\ arifPay.environment = "sandbox" /\ arifPay.capabilities = {"C2B", "STATUS"}
      /\ arifPay.executable = asked /\ (asked => arifPay.status = "REGISTERED_SANDBOX")
  BY DEF Se!ArifPayAdapter, Se!Adapter
<1>7. Se!AdapterStatusIn("synthetic") = {"REGISTERED_SYNTHETIC"} /\ Se!AdapterStatusIn("sandbox") = {"REGISTERED_SANDBOX"}
  BY DEF Se!AdapterStatusIn
<1>8. \A r \in Se!SyntheticRoutes :
        /\ r.id \in {"alpha_core", "beta_core"} /\ r.environment = "synthetic"
        /\ \E a \in Se!SyntheticAdapters : a.id = r.adapter /\ r.capabilities \subseteq a.capabilities
  BY DEF Se!SyntheticRoutes, Se!Route, Se!SyntheticAdapters, Se!Adapter
<1>9. \A q, r \in Se!SyntheticRoutes : q.id = r.id => q = r
  BY DEF Se!SyntheticRoutes, Se!Route
<1>. DEFINE route == Se!ArifPayRoute(asked)
<1>10. /\ route.id = "arifpay_c2b" /\ route.adapter = "arifpay" /\ route.environment = "sandbox"
       /\ route.capabilities = {"C2B", "STATUS"} /\ (~asked => route.status = "DISABLED")
  BY DEF Se!ArifPayRoute, Se!Route
<1>11. Se!RouteIsUsable(route) => asked
  BY <1>10 DEF Se!RouteIsUsable, Se!RouteStatusIn
<1>. HIDE DEF arifPay, route
<1>12. \A a, b \in x1 : a.id = b.id => a = b
  BY <1>1, <1>3, <1>4, <1>5, <1>6 DEF arifPay
<1>13. \A q, r \in x2 : q.id = r.id => q = r
  BY <1>1, <1>8, <1>9, <1>10 DEF route
<1>14. \A a \in x1 : a.executable => a.status \in Se!AdapterStatusIn(a.environment)
  BY <1>1, <1>4, <1>5, <1>6, <1>7 DEF arifPay
<1>15. ASSUME NEW r \in x2
       PROVE  \E a \in x1 :
                /\ a.id = r.adapter /\ a.environment = r.environment /\ r.capabilities \subseteq a.capabilities
                /\ Se!RouteIsUsable(r) => a.executable
  <2>1. CASE r \in Se!SyntheticRoutes
    BY <1>1, <1>4, <1>8, <2>1
  <2>2. CASE r = route
    BY <1>1, <1>6, <1>10, <1>11, <2>2 DEF arifPay
  <2>. QED
    BY <1>1, <1>15, <2>1, <2>2 DEF route
<1>. QED
  BY <1>12, <1>13, <1>14, <1>15 DEF Registry

LEMMA RegisterAdapterStep ==
  ASSUME RoutedNow, NEW a, Se!RegisterAdapter(a)
  PROVE  RoutedNow'
<1>1. /\ x1' = x1 \cup {a} /\ x2' = x2 /\ x3' = x3 /\ x4' = x4 /\ x6' = x6 /\ x7' = x7
      /\ \A b \in x1 : b.id # a.id
      /\ a.executable => a.status \in Se!AdapterStatusIn(a.environment)
  BY DEF Se!RegisterAdapter, Se!AdapterMayRegister
<1>2. Registry(x1, x2)
  BY DEF RoutedNow, Routed
<1>3. Registry(x1', x2')
  BY <1>1, <1>2 DEF Registry
<1>. QED
  BY <1>1, <1>3 DEF RoutedNow, Routed

LEMMA RegisterRouteStep ==
  ASSUME RoutedNow, NEW r, Se!RegisterRoute(r)
  PROVE  RoutedNow'
<1>1. /\ x2' = x2 \cup {r} /\ x1' = x1 /\ x3' = x3 /\ x4' = x4 /\ x6' = x6 /\ x7' = x7
      /\ \A q \in x2 : q.id # r.id
      /\ \E a \in x1 :
           /\ a.id = r.adapter /\ a.environment = r.environment /\ r.capabilities \subseteq a.capabilities
           /\ Se!RouteIsUsable(r) => a.executable
  BY DEF Se!RegisterRoute, Se!RouteMayRegister
<1>2. Registry(x1, x2)
  BY DEF RoutedNow, Routed
<1>3. Registry(x1', x2')
  BY <1>1, <1>2 DEF Registry
<1>4. \A q : Made(q, x2) => Made(q, x2')
  BY <1>1 DEF Made, Pinned
<1>. QED
  BY <1>1, <1>3, <1>4 DEF RoutedNow, Routed

\* What the registry resolves of a service is one of its routes, with an adapter that runs.
LEMMA FirstRouteResolves ==
  ASSUME Registry(x1, x2), NEW service, DOMAIN service.routes \subseteq Nat, Se!RoutesFor(service) # {}
  PROVE  LET route == Se!RouteOf(Se!FirstRoute(service))
             adapter == Se!AdapterOf(route)
         IN /\ route \in x2 /\ route.id = Se!FirstRoute(service) /\ Se!RouteIsUsable(route)
            /\ adapter \in x1 /\ adapter.id = route.adapter /\ Se!AdapterIsUsable(adapter)
            /\ adapter.environment = route.environment /\ route.capabilities \subseteq adapter.capabilities
<1>. DEFINE i == Se!Min(Se!RoutesFor(service))
            route == Se!RouteOf(Se!FirstRoute(service))
            adapter == Se!AdapterOf(route)
<1>1. i \in Se!RoutesFor(service)
  <2>1. Se!RoutesFor(service) \subseteq Nat
    BY DEF Se!RoutesFor
  <2>. QED
    BY <2>1, FirstIsLeast
<1>2. PICK r \in x2 : r.id = service.routes[i] /\ Se!RouteIsUsable(r) /\ \E a \in x1 : a.id = r.adapter /\ Se!AdapterIsUsable(a)
  BY <1>1 DEF Se!RoutesFor
<1>3. PICK a \in x1 : a.id = r.adapter /\ Se!AdapterIsUsable(a)
  BY <1>2
<1>4. Se!FirstRoute(service) = r.id
  BY <1>2 DEF Se!FirstRoute
<1>5. route = r
  BY <1>4 DEF Registry, Se!RouteOf
<1>6. adapter = a
  BY <1>3, <1>5 DEF Registry, Se!AdapterOf
<1>7. a.environment = r.environment /\ r.capabilities \subseteq a.capabilities
  BY <1>3 DEF Registry
<1>. QED
  BY <1>2, <1>3, <1>4, <1>5, <1>6, <1>7

\* The ids of the catalog's services.
Listed == {y.id : y \in x4.services}

\* A service of the manifest may be acted on over the first of its routes that resolves.
LEMMA ManifestItem ==
  ASSUME Registry(x1, x2), x4 \in ServiceCatalogs, NEW p, NEW role, NEW region,
         NEW item \in Se!Manifest(p, role, region)
  PROVE  /\ item = [service |-> item.service, route |-> Se!FirstRoute(item.service)]
         /\ item.service \in x4.services /\ Se!RoutesFor(item.service) # {}
         /\ Se!RouteOf(item.route) \in x2 /\ Se!RouteOf(item.route).id = item.route
         /\ Se!AdapterOf(Se!RouteOf(item.route)).id = Se!RouteOf(item.route).adapter
         /\ \A c \in item.service.capabilities :
              Se!Access(x3, p, item.service.id, c, region, Se!RouteOf(item.route), Listed, x5)
<1>1. PICK service \in x4.services :
        /\ item = [service |-> service, route |-> Se!FirstRoute(service)] /\ Se!RoutesFor(service) # {}
        /\ \A c \in service.capabilities :
             Se!Access(x3, p, service.id, c, region, Se!RouteOf(Se!FirstRoute(service)), Listed, x5)
  BY DEF Se!Manifest, Listed
<1>2. item.service = service /\ item.route = Se!FirstRoute(service)
  BY <1>1
<1>3. DOMAIN service.routes \subseteq Nat
  BY HubAssumption
<1>. QED
  BY <1>1, <1>2, <1>3, FirstRouteResolves

\* The grant that decided an access.
LEMMA AccessGrant ==
  ASSUME NEW k \in ServiceContracts, NEW p, NEW service, NEW c, NEW region, NEW route, NEW published, NEW t,
         Se!Access(k, p, service, c, region, route, published, t)
  PROVE  LET i == Se!Min(Se!GrantsFor(k, p, service, c, region)) IN
           /\ i \in DOMAIN k.grants
           /\ k.grants[i].capability = c /\ service \in k.grants[i].services /\ region \in k.grants[i].regions
           /\ k.grants[i].roles \cap p.roles # {}
           /\ Se!Within(k.grants[i], t) /\ k.grants[i].state \in Se!GrantStateIn(k.environment)
           /\ route.id \in k.grants[i].routes
<1>. DEFINE grants == Se!GrantsFor(k, p, service, c, region)
            i == Se!Min(grants)
<1>1. /\ grants # {} /\ Se!Within(k.grants[i], t) /\ k.grants[i].state \in Se!GrantStateIn(k.environment)
      /\ route.id \in k.grants[i].routes
  BY DEF Se!Access
<1>2. grants \subseteq Nat
  BY HubAssumption DEF Se!GrantsFor
<1>3. i \in grants
  BY <1>1, <1>2, FirstIsLeast
<1>4. /\ i \in DOMAIN k.grants
      /\ k.grants[i].capability = c /\ service \in k.grants[i].services /\ region \in k.grants[i].regions
      /\ k.grants[i].roles \cap p.roles # {}
  BY <1>3 DEF Se!GrantsFor
<1>. QED
  BY <1>1, <1>4

LEMMA ResolveStep ==
  ASSUME RoutedNow, NEW p, NEW role, NEW region, NEW capability, Se!Resolve(p, role, region, capability)
  PROVE  RoutedNow'
<1>. DEFINE Resolution(item) ==
              [route |-> Se!RouteOf(item.route).id, routeVersion |-> Se!RouteOf(item.route).version,
               adapter |-> Se!AdapterOf(Se!RouteOf(item.route)).id, by |-> p, role |-> role,
               region |-> region, service |-> item.service, capability |-> capability, contract |-> x3, at |-> x5]
<1>1. PICK item \in Se!Manifest(p, role, region) :
        /\ capability \in item.service.capabilities /\ Se!Selected(item.route)
        /\ x7' = IF x6 = "PRE_SUBMIT" THEN <<Resolution(item)>> ELSE <<x7[1], Resolution(item)>>
  BY DEF Se!Resolve
<1>2. x1' = x1 /\ x2' = x2 /\ x3' = x3 /\ x4' = x4 /\ x6' = x6
  BY DEF Se!Resolve
<1>. DEFINE route == Se!RouteOf(item.route)
            r == Resolution(item)
<1>3. Registry(x1, x2) /\ x3 \in ServiceContracts /\ x4 \in ServiceCatalogs
  BY DEF RoutedNow, Routed
<1>4. /\ route \in x2 /\ route.id = item.route /\ Se!AdapterOf(route).id = route.adapter
      /\ Se!Access(x3, p, item.service.id, capability, region, route, Listed, x5)
  BY <1>1, <1>3, ManifestItem
<1>5. Pinned(r, x2) /\ r.route = item.route
  BY <1>4 DEF Pinned
<1>6. Allowed(r)
  <2>. DEFINE i == Se!Min(Se!GrantsFor(x3, p, item.service.id, capability, region))
  <2>1. /\ i \in DOMAIN x3.grants
        /\ x3.grants[i].capability = capability /\ item.service.id \in x3.grants[i].services
        /\ region \in x3.grants[i].regions /\ x3.grants[i].roles \cap p.roles # {}
        /\ Se!Within(x3.grants[i], x5) /\ x3.grants[i].state \in Se!GrantStateIn(x3.environment)
        /\ route.id \in x3.grants[i].routes
    BY <1>3, <1>4, AccessGrant
  <2>2. /\ r.contract = x3 /\ r.capability = capability /\ r.service = item.service /\ r.at = x5
        /\ r.by = p /\ r.region = region /\ r.route = route.id
    OBVIOUS
  <2>. HIDE DEF i, r, route
  <2>. QED
    BY <2>1, <2>2 DEF Allowed
<1>7. Made(r, x2)
  BY <1>5, <1>6 DEF Made
<1>. HIDE DEF r, Resolution
<1>8. CASE x6 = "PRE_SUBMIT"
  <2>1. x7' = <<r>>
    BY <1>1, <1>8 DEF r
  <2>. QED
    BY <1>2, <1>3, <1>7, <2>1 DEF RoutedNow, Routed
<1>9. CASE x6 # "PRE_SUBMIT"
  <2>1. \E q : Made(q, x2) /\ x7[1] = q /\ x7[Len(x7)].route = q.route
    BY <1>9 DEF RoutedNow, Routed
  <2>2. PICK q : Made(q, x2) /\ x7[1] = q /\ x7[Len(x7)].route = q.route
    BY <2>1
  <2>3. q.route = r.route
    BY <1>1, <1>5, <1>9, <2>2 DEF Se!Selected
  <2>4. x7' = <<q, r>>
    BY <1>1, <1>9, <2>2 DEF r
  <2>. QED
    BY <1>2, <1>3, <1>7, <1>9, <2>2, <2>3, <2>4 DEF RoutedNow, Routed
<1>. QED
  BY <1>8, <1>9

LEMMA SubmitStep ==
  ASSUME RoutedNow, Se!Submit
  PROVE  RoutedNow'
<1>1. /\ x1' = x1 /\ x2' = x2 /\ x3' = x3 /\ x4' = x4 /\ x7' = x7
      /\ x7 # <<>> /\ x6' # "PRE_SUBMIT"
  BY DEF Se!Submit
<1>. QED
  BY <1>1 DEF RoutedNow, Routed

LEMMA InitRouted == Se!Init => RoutedNow
BY InitRegistry DEF Se!Init, RoutedNow, Routed

LEMMA RoutedStep ==
  ASSUME RoutedNow, Se!Next
  PROVE  RoutedNow'
<1>1. CASE Se!ContractChanges \/ Se!CatalogChanges \/ Se!Tick
  BY <1>1 DEF Se!ContractChanges, Se!CatalogChanges, Se!Tick, RoutedNow, Routed
<1>2. CASE Se!Submit
  BY <1>2, SubmitStep
<1>3. CASE \E a \in ServiceAdapters : Se!RegisterAdapter(a)
  BY <1>3, RegisterAdapterStep
<1>4. CASE \E r \in ServiceRoutes : Se!RegisterRoute(r)
  BY <1>4, RegisterRouteStep
<1>5. ASSUME NEW p, NEW role, NEW region, NEW capability, Se!Resolve(p, role, region, capability)
      PROVE  RoutedNow'
  BY <1>5, ResolveStep
<1>. QED
  BY <1>1, <1>2, <1>3, <1>4, <1>5 DEF Se!Next

LEMMA UsableRoutesLead == RoutedNow => Se!UsableRoutesRun
BY DEF RoutedNow, Routed, Registry, Se!UsableRoutesRun, Se!AdapterIsUsable

LEMMA MadeIsGranted == RoutedNow => Se!ResolutionIsGranted
<1>1. RoutedNow => \A i \in DOMAIN x7 : Allowed(x7[i])
  BY DEF RoutedNow, Routed, Made
<1>. QED
  BY <1>1 DEF Allowed, Se!ResolutionIsGranted, Se!Holds

LEMMA MadeStaysPinned == RoutedNow => Se!RouteStaysPinned
<1>. SUFFICES ASSUME RoutedNow, Len(x7) = 2 PROVE Se!Pins(x7[1]) = Se!Pins(x7[2])
  BY DEF Se!RouteStaysPinned
<1>1. PICK q, r : x7 = <<q, r>> /\ Made(q, x2) /\ Made(r, x2) /\ q.route = r.route
  BY DEF RoutedNow, Routed
<1>2. q.routeVersion = r.routeVersion /\ q.adapter = r.adapter
  BY <1>1 DEF RoutedNow, Routed, Registry, Made, Pinned
<1>. QED
  BY <1>1, <1>2 DEF Se!Pins

RoutedInv == moving = "services" => RoutedNow

LEMMA ServicesStayRouted == HubSpec => []RoutedInv
<1>1. HubInit => RoutedInv
  BY InitRouted DEF HubInit, RoutedInv
<1>2. RoutedInv /\ [HubNext]_hubVars => RoutedInv'
  <2>. SUFFICES ASSUME RoutedInv, [HubNext]_hubVars, moving' = "services" PROVE RoutedNow'
    BY DEF RoutedInv
  <2>1. RoutedNow /\ (Se!Next \/ UNCHANGED hubVars)
    BY DEF HubNext, hubVars, RoutedInv
  <2>2. CASE UNCHANGED hubVars
    BY <2>1, <2>2 DEF hubVars, RoutedNow
  <2>. QED
    BY <2>1, <2>2, RoutedStep
<1>. QED
  BY <1>1, <1>2, PTL DEF HubSpec

\* Routing: whatever is registered, changed or resolved again, a usable route leads to
\* an adapter that runs, each resolution was allowed by a grant in force, and after its
\* submission an attempt keeps its route, the version and the adapter.
THEOREM RoutesStayPinned == HubSpec => []RouteStaysPinned
<1>1. RoutedInv => RouteStaysPinned
  BY UsableRoutesLead, MadeIsGranted, MadeStaysPinned DEF RouteStaysPinned, RoutedInv
<1>. QED
  BY <1>1, ServicesStayRouted, PTL

\* The decisions of HubServices: a service is available when none of its refusals holds.
Refusal == [code : Se!Codes \ {"AVAILABLE_SYNTHETIC"}, holds : BOOLEAN]
NoneHolds(s) == \A i \in DOMAIN s : ~s[i].holds

LEMMA NoneOfBoth ==
  ASSUME NEW s \in Seq(Refusal), NEW t \in Seq(Refusal)
  PROVE  s \o t \in Seq(Refusal) /\ (NoneHolds(s \o t) <=> NoneHolds(s) /\ NoneHolds(t))
<1>1. /\ s \o t \in Seq(Refusal) /\ Len(s \o t) = Len(s) + Len(t) /\ Len(s) \in Nat /\ Len(t) \in Nat
      /\ \A i \in 1..Len(s) : (s \o t)[i] = s[i]
      /\ \A i \in 1..Len(t) : (s \o t)[Len(s) + i] = t[i]
  OBVIOUS
<1>2. DOMAIN s = 1..Len(s) /\ DOMAIN t = 1..Len(t) /\ DOMAIN (s \o t) = 1..(Len(s) + Len(t))
  BY <1>1
<1>3. ASSUME NoneHolds(s), NoneHolds(t), NEW i \in 1..(Len(s) + Len(t)) PROVE ~(s \o t)[i].holds
  <2>1. CASE i <= Len(s)
    BY <1>1, <1>2, <1>3, <2>1 DEF NoneHolds
  <2>2. CASE i > Len(s)
    <3>1. i - Len(s) \in 1..Len(t) /\ i = Len(s) + (i - Len(s))
      BY <1>1, <1>3, <2>2
    <3>2. (s \o t)[i] = t[i - Len(s)]
      BY <1>1, <3>1
    <3>. QED
      BY <1>2, <1>3, <3>1, <3>2 DEF NoneHolds
  <2>. QED
    BY <1>1, <1>3, <2>1, <2>2
<1>4. ASSUME NoneHolds(s \o t) PROVE NoneHolds(s) /\ NoneHolds(t)
  <2>1. \A i \in 1..Len(s) : i \in 1..(Len(s) + Len(t))
    BY <1>1
  <2>2. \A i \in 1..Len(t) : Len(s) + i \in 1..(Len(s) + Len(t))
    BY <1>1
  <2>. QED
    BY <1>1, <1>2, <1>4, <2>1, <2>2 DEF NoneHolds
<1>. QED
  BY <1>1, <1>2, <1>3, <1>4 DEF NoneHolds

LEMMA HubAdmits ==
  ASSUME NEW hub, NEW service
  PROVE  /\ Se!HubRefusals(hub, service) \in Seq(Refusal)
         /\ NoneHolds(Se!HubRefusals(hub, service)) <=>
              /\ Se!Enabled(hub, service) /\ hub.active /\ x3.partner \in hub.members
              /\ Se!CatalogIsValid(x4, x3, x5)
<1>. DEFINE unbound == ~Se!Bound(hub, service)
            disabled == ~Se!Enabled(hub, service)
            closed == ~hub.active
            stranger == x3.partner \notin hub.members
            invalid == ~Se!CatalogIsValid(x4, x3, x5)
            all == << [code |-> "HUB_SERVICE_NOT_CONFIGURED", holds |-> unbound],
                      [code |-> "HUB_SERVICE_DISABLED", holds |-> disabled],
                      [code |-> "HUB_LIFECYCLE_BLOCKED", holds |-> closed],
                      [code |-> "HUB_PARTNER_MEMBERSHIP_MISSING", holds |-> stranger],
                      [code |-> "CATALOG_CONTRACT_INVALID", holds |-> invalid] >>
<1>1. Se!HubRefusals(hub, service) = all
  BY DEF Se!HubRefusals
<1>2. /\ unbound \in BOOLEAN /\ disabled \in BOOLEAN /\ closed \in BOOLEAN /\ stranger \in BOOLEAN
      /\ invalid \in BOOLEAN /\ (unbound => disabled)
  BY DEF Se!Enabled
<1>3. Se!Enabled(hub, service) /\ hub.active /\ x3.partner \in hub.members /\ Se!CatalogIsValid(x4, x3, x5)
        <=> ~disabled /\ ~closed /\ ~stranger /\ ~invalid
  OBVIOUS
<1>. HIDE DEF unbound, disabled, closed, stranger, invalid
<1>4. all \in Seq(Refusal)
  BY <1>2 DEF Refusal, Se!Codes
<1>5. NoneHolds(all) <=> ~unbound /\ ~disabled /\ ~closed /\ ~stranger /\ ~invalid
  BY <1>2 DEF NoneHolds
<1>. QED
  BY <1>1, <1>2, <1>3, <1>4, <1>5

LEMMA ScopesAdmit ==
  ASSUME NEW p, NEW role, NEW hub, NEW service
  PROVE  /\ Se!ScopeRefusals(p, role, hub, service) \in Seq(Refusal)
         /\ NoneHolds(Se!ScopeRefusals(p, role, hub, service)) <=>
              /\ p.member /\ role \in p.roles /\ role \in service.roles
              /\ hub.region \in p.regions /\ hub.region \in service.regions
              /\ service.groups = {} \/ service.groups \cap p.groups # {}
              /\ service.id \in p.services
<1>. DEFINE outsider == ~p.member
            unfit == role \notin p.roles \cap service.roles
            elsewhere == hub.region \notin p.regions \cap service.regions
            ungrouped == service.groups # {} /\ service.groups \cap p.groups = {}
            unassigned == service.id \notin p.services
            all == << [code |-> "PARTNER_SCOPE_DENIED", holds |-> outsider],
                      [code |-> "ROLE_SCOPE_DENIED", holds |-> unfit],
                      [code |-> "REGION_SCOPE_DENIED", holds |-> elsewhere],
                      [code |-> "AGENT_GROUP_SCOPE_DENIED", holds |-> ungrouped],
                      [code |-> "SERVICE_SCOPE_DENIED", holds |-> unassigned] >>
<1>1. Se!ScopeRefusals(p, role, hub, service) = all
  BY DEF Se!ScopeRefusals
<1>2. /\ outsider \in BOOLEAN /\ unfit \in BOOLEAN /\ elsewhere \in BOOLEAN /\ ungrouped \in BOOLEAN
      /\ unassigned \in BOOLEAN
  OBVIOUS
<1>3. ~outsider /\ ~unfit /\ ~elsewhere /\ ~ungrouped /\ ~unassigned <=>
        /\ p.member /\ role \in p.roles /\ role \in service.roles
        /\ hub.region \in p.regions /\ hub.region \in service.regions
        /\ service.groups = {} \/ service.groups \cap p.groups # {}
        /\ service.id \in p.services
  OBVIOUS
<1>. HIDE DEF outsider, unfit, elsewhere, ungrouped, unassigned
<1>4. all \in Seq(Refusal)
  BY <1>2 DEF Refusal, Se!Codes
<1>5. NoneHolds(all) <=> ~outsider /\ ~unfit /\ ~elsewhere /\ ~ungrouped /\ ~unassigned
  BY <1>2 DEF NoneHolds
<1>. QED
  BY <1>1, <1>3, <1>4, <1>5

LEMMA RouteAdmits ==
  ASSUME NEW service
  PROVE  /\ Se!RouteRefusals(service) \in Seq(Refusal)
         /\ NoneHolds(Se!RouteRefusals(service)) <=>
              /\ Se!RouteFor(service) # {}
              /\ \A r \in Se!RouteFor(service) :
                   /\ r.partner = x3.partner /\ service.id \in r.services /\ service.capabilities \subseteq r.capabilities
                   /\ \E a \in x1 : a.id = r.adapter
                   /\ {r.environment, x3.environment} = {Se!AdapterOf(r).environment}
<1>. DEFINE none == Se!RouteFor(service) = {}
            foreign == \E r \in Se!RouteFor(service) : r.partner # x3.partner
            barred == \E r \in Se!RouteFor(service) : service.id \notin r.services
            unable == \E r \in Se!RouteFor(service) : ~(service.capabilities \subseteq r.capabilities)
            missing == \E r \in Se!RouteFor(service) : ~\E a \in x1 : a.id = r.adapter
            mismatch == \E r \in Se!RouteFor(service) : {r.environment, x3.environment} # {Se!AdapterOf(r).environment}
            all == << [code |-> "ROUTE_UNAVAILABLE", holds |-> none],
                      [code |-> "ROUTE_PARTNER_MISMATCH", holds |-> foreign],
                      [code |-> "ROUTE_SERVICE_NOT_ALLOWED", holds |-> barred],
                      [code |-> "ROUTE_CAPABILITY_NOT_SUPPORTED", holds |-> unable],
                      [code |-> "ADAPTER_METADATA_MISSING", holds |-> missing],
                      [code |-> "ADAPTER_ROUTE_MISMATCH", holds |-> mismatch] >>
<1>1. Se!RouteRefusals(service) = all
  BY DEF Se!RouteRefusals
<1>2. /\ none \in BOOLEAN /\ foreign \in BOOLEAN /\ barred \in BOOLEAN /\ unable \in BOOLEAN
      /\ missing \in BOOLEAN /\ mismatch \in BOOLEAN
  OBVIOUS
<1>3. ~none /\ ~foreign /\ ~barred /\ ~unable /\ ~missing /\ ~mismatch <=>
        /\ Se!RouteFor(service) # {}
        /\ \A r \in Se!RouteFor(service) :
             /\ r.partner = x3.partner /\ service.id \in r.services /\ service.capabilities \subseteq r.capabilities
             /\ \E a \in x1 : a.id = r.adapter
             /\ {r.environment, x3.environment} = {Se!AdapterOf(r).environment}
  OBVIOUS
<1>. HIDE DEF none, foreign, barred, unable, missing, mismatch
<1>4. all \in Seq(Refusal)
  BY <1>2 DEF Refusal, Se!Codes
<1>5. NoneHolds(all) <=> ~none /\ ~foreign /\ ~barred /\ ~unable /\ ~missing /\ ~mismatch
  BY <1>2 DEF NoneHolds
<1>. QED
  BY <1>1, <1>3, <1>4, <1>5

\* What has to be so for a service to be available, over one route.
Admitted(p, role, hub, service) ==
  /\ Se!Enabled(hub, service) /\ hub.active /\ x3.partner \in hub.members /\ Se!CatalogIsValid(x4, x3, x5)
  /\ p.member /\ role \in p.roles /\ role \in service.roles
  /\ hub.region \in p.regions /\ hub.region \in service.regions
  /\ service.groups = {} \/ service.groups \cap p.groups # {}
  /\ service.id \in p.services
Carried(p, hub, service, r) ==
  /\ r.partner = x3.partner /\ service.id \in r.services /\ service.capabilities \subseteq r.capabilities
  /\ \E a \in x1 : a.id = r.adapter
  /\ {r.environment, x3.environment} = {Se!AdapterOf(r).environment}
  /\ \A c \in service.capabilities : Se!Access(x3, p, service.id, c, hub.region, r, Listed, x5)

LEMMA DecisionsOfRoute ==
  ASSUME NEW p, NEW hub, NEW service, Se!RoutesFor(service) # {}
  PROVE  LET r == Se!RouteOf(Se!FirstRoute(service)) IN
           /\ Se!RouteFor(service) = {r}
           /\ Se!CapabilityDecisions(p, hub, service) =
                {[capability |-> c, route |-> r.id, adapter |-> r.adapter,
                  allowed |-> Se!Access(x3, p, service.id, c, hub.region, r, Listed, x5)] : c \in service.capabilities}
<1>. DEFINE r == Se!RouteOf(Se!FirstRoute(service))
            Decided(q) == {Se!CapabilityDecision(p, hub, service, c, q) : c \in service.capabilities}
<1>1. Se!RouteFor(service) = {r}
  BY DEF Se!RouteFor
<1>2. Se!CapabilityDecisions(p, hub, service) = UNION {Decided(q) : q \in Se!RouteFor(service)}
  BY DEF Se!CapabilityDecisions
<1>3. Decided(r) = {[capability |-> c, route |-> r.id, adapter |-> r.adapter,
                     allowed |-> Se!Access(x3, p, service.id, c, hub.region, r, Listed, x5)] : c \in service.capabilities}
  BY DEF Se!CapabilityDecision, Listed
<1>. HIDE DEF r, Decided
<1>4. (UNION {Decided(q) : q \in {r}}) = Decided(r)
  OBVIOUS
<1>. QED
  BY <1>1, <1>2, <1>3, <1>4 DEF r

\* The first refusal is the answer, and there is none for an available service only.
LEMMA FirstRefusalDecides ==
  ASSUME NEW p, NEW role, NEW hub, NEW service, Se!Refusals(p, role, hub, service) \in Seq(Refusal)
  PROVE  Se!Decision(p, role, hub, service) = "AVAILABLE_SYNTHETIC" <=> NoneHolds(Se!Refusals(p, role, hub, service))
<1>. DEFINE refusals == Se!Refusals(p, role, hub, service)
            refused == {i \in DOMAIN refusals : refusals[i].holds}
<1>1. Se!Decision(p, role, hub, service) = IF refused = {} THEN "AVAILABLE_SYNTHETIC" ELSE refusals[Se!Min(refused)].code
  BY DEF Se!Decision
<1>2. refused = {} <=> NoneHolds(refusals)
  BY DEF NoneHolds
<1>3. /\ refused \subseteq Nat
      /\ \A i \in refused : refusals[i].code # "AVAILABLE_SYNTHETIC"
  <2>1. DOMAIN refusals \subseteq Nat /\ \A i \in DOMAIN refusals : refusals[i] \in Refusal
    <3>. HIDE DEF refusals
    <3>. QED
      BY DEF refusals
  <2>2. \A r \in Refusal : r.code # "AVAILABLE_SYNTHETIC"
    BY DEF Refusal
  <2>. HIDE DEF refusals
  <2>. QED
    BY <2>1, <2>2
<1>. HIDE DEF refused
<1>4. refused # {} => refusals[Se!Min(refused)].code # "AVAILABLE_SYNTHETIC"
  BY <1>3, FirstIsLeast
<1>. QED
  BY <1>1, <1>2, <1>4

LEMMA CapabilitiesAdmit ==
  ASSUME NEW p, NEW hub, NEW service, Se!RoutesFor(service) # {}
  PROVE  (\A d \in Se!CapabilityDecisions(p, hub, service) : d.allowed) <=>
           \A c \in service.capabilities :
             Se!Access(x3, p, service.id, c, hub.region, Se!RouteOf(Se!FirstRoute(service)), Listed, x5)
<1>. DEFINE r == Se!RouteOf(Se!FirstRoute(service))
            Allows(c) == Se!Access(x3, p, service.id, c, hub.region, r, Listed, x5)
            Decided(c) == [capability |-> c, route |-> r.id, adapter |-> r.adapter, allowed |-> Allows(c)]
<1>1. Se!CapabilityDecisions(p, hub, service) = {Decided(c) : c \in service.capabilities}
  BY DecisionsOfRoute
<1>2. \A c : Allows(c) \in BOOLEAN
  BY DEF Se!Access
<1>3. \A c : Decided(c).allowed <=> Allows(c)
  <2>. HIDE DEF Allows
  <2>. QED
    BY <1>2
<1>. HIDE DEF Decided, Allows
<1>4. (\A d \in Se!CapabilityDecisions(p, hub, service) : d.allowed) <=> \A c \in service.capabilities : Allows(c)
  BY <1>1, <1>3
<1>. QED
  BY <1>4 DEF Allows

LEMMA DecisionAdmits ==
  ASSUME NEW p, NEW role, NEW hub, NEW service
  PROVE  Se!Decision(p, role, hub, service) = "AVAILABLE_SYNTHETIC" <=>
           /\ Admitted(p, role, hub, service) /\ Se!RoutesFor(service) # {}
           /\ Carried(p, hub, service, Se!RouteOf(Se!FirstRoute(service)))
<1>. DEFINE r == Se!RouteOf(Se!FirstRoute(service))
            denied == \E d \in Se!CapabilityDecisions(p, hub, service) : ~d.allowed
            denial == << [code |-> "CAPABILITY_DENIED", holds |-> denied] >>
<1>1. denial \in Seq(Refusal) /\ (NoneHolds(denial) <=> ~denied)
  <2>1. denied \in BOOLEAN
    OBVIOUS
  <2>. HIDE DEF denied
  <2>. QED
    BY <2>1 DEF Refusal, Se!Codes, NoneHolds
<1>2. Se!Refusals(p, role, hub, service) =
        Se!HubRefusals(hub, service) \o Se!ScopeRefusals(p, role, hub, service) \o Se!RouteRefusals(service) \o denial
  BY DEF Se!Refusals
<1>3. ~denied <=> \A d \in Se!CapabilityDecisions(p, hub, service) : d.allowed
  OBVIOUS
<1>. HIDE DEF denied, denial
<1>4. /\ Se!HubRefusals(hub, service) \in Seq(Refusal) /\ Se!ScopeRefusals(p, role, hub, service) \in Seq(Refusal)
      /\ Se!RouteRefusals(service) \in Seq(Refusal)
  BY HubAdmits, ScopesAdmit, RouteAdmits
<1>5. /\ Se!HubRefusals(hub, service) \o Se!ScopeRefusals(p, role, hub, service) \in Seq(Refusal)
      /\ NoneHolds(Se!HubRefusals(hub, service) \o Se!ScopeRefusals(p, role, hub, service)) <=>
           NoneHolds(Se!HubRefusals(hub, service)) /\ NoneHolds(Se!ScopeRefusals(p, role, hub, service))
  BY <1>4, NoneOfBoth
<1>6. /\ Se!HubRefusals(hub, service) \o Se!ScopeRefusals(p, role, hub, service) \o Se!RouteRefusals(service) \in Seq(Refusal)
      /\ NoneHolds(Se!HubRefusals(hub, service) \o Se!ScopeRefusals(p, role, hub, service) \o Se!RouteRefusals(service)) <=>
           /\ NoneHolds(Se!HubRefusals(hub, service)) /\ NoneHolds(Se!ScopeRefusals(p, role, hub, service))
           /\ NoneHolds(Se!RouteRefusals(service))
  BY <1>4, <1>5, NoneOfBoth
<1>7. /\ Se!Refusals(p, role, hub, service) \in Seq(Refusal)
      /\ NoneHolds(Se!Refusals(p, role, hub, service)) <=>
           /\ NoneHolds(Se!HubRefusals(hub, service)) /\ NoneHolds(Se!ScopeRefusals(p, role, hub, service))
           /\ NoneHolds(Se!RouteRefusals(service)) /\ ~denied
  <2>. DEFINE before == Se!HubRefusals(hub, service) \o Se!ScopeRefusals(p, role, hub, service) \o Se!RouteRefusals(service)
  <2>1. before \in Seq(Refusal) /\ Se!Refusals(p, role, hub, service) = before \o denial
    BY <1>2, <1>6
  <2>2. before \o denial \in Seq(Refusal) /\ (NoneHolds(before \o denial) <=> NoneHolds(before) /\ NoneHolds(denial))
    <3>. HIDE DEF before
    <3>. QED
      BY <1>1, <2>1, NoneOfBoth
  <2>. QED
    BY <1>1, <1>6, <2>1, <2>2
<1>8. NoneHolds(Se!HubRefusals(hub, service)) /\ NoneHolds(Se!ScopeRefusals(p, role, hub, service))
        <=> Admitted(p, role, hub, service)
  BY HubAdmits, ScopesAdmit DEF Admitted
<1>9. Se!RoutesFor(service) = {} => ~NoneHolds(Se!RouteRefusals(service))
  BY RouteAdmits DEF Se!RouteFor
<1>10. ASSUME Se!RoutesFor(service) # {}
       PROVE  NoneHolds(Se!RouteRefusals(service)) /\ ~denied <=> Carried(p, hub, service, r)
  <2>1. Se!RouteFor(service) = {r}
    BY <1>10 DEF Se!RouteFor
  <2>2. NoneHolds(Se!RouteRefusals(service)) <=>
          /\ r.partner = x3.partner /\ service.id \in r.services /\ service.capabilities \subseteq r.capabilities
          /\ \E a \in x1 : a.id = r.adapter
          /\ {r.environment, x3.environment} = {Se!AdapterOf(r).environment}
    <3>. HIDE DEF r
    <3>. QED
      BY <2>1, RouteAdmits
  <2>3. ~denied <=> \A c \in service.capabilities : Se!Access(x3, p, service.id, c, hub.region, r, Listed, x5)
    BY <1>3, <1>10, CapabilitiesAdmit
  <2>. QED
    BY <2>2, <2>3 DEF Carried
<1>. QED
  BY <1>7, <1>8, <1>9, <1>10, FirstRefusalDecides

\* What a service offers: its capabilities over the first route that resolves, each with
\* the grant that decided it.
Available(p, role, hub) ==
  {s \in x4.services : Se!Served /\ Se!Decision(p, role, hub, s) = "AVAILABLE_SYNTHETIC"}

LEMMA OfferingsAreAvailable ==
  ASSUME NEW p, NEW role, NEW hub
  PROVE  Se!Offerings(p, role, hub) = {Se!Offering(p, hub, s) : s \in Available(p, role, hub)}
<1>. DEFINE Entry(s) == [service |-> s, configured |-> Se!Bound(hub, s), code |-> Se!Decision(p, role, hub, s)]
<1>1. Se!Matrix(p, role, hub) = {Entry(s) : s \in {x \in x4.services : Se!Served}}
  BY DEF Se!Matrix
<1>2. \A s : Entry(s).service = s /\ Entry(s).code = Se!Decision(p, role, hub, s)
  OBVIOUS
<1>. HIDE DEF Entry
<1>3. Se!Offerings(p, role, hub)
        = {Se!Offering(p, hub, d.service) : d \in {x \in Se!Matrix(p, role, hub) : x.code = "AVAILABLE_SYNTHETIC"}}
  BY DEF Se!Offerings
<1>4. ASSUME NEW o \in Se!Offerings(p, role, hub)
      PROVE  \E s \in Available(p, role, hub) : o = Se!Offering(p, hub, s)
  BY <1>1, <1>2, <1>3 DEF Available
<1>5. ASSUME NEW s \in Available(p, role, hub)
      PROVE  Se!Offering(p, hub, s) \in Se!Offerings(p, role, hub)
  <2>1. Entry(s) \in {x \in Se!Matrix(p, role, hub) : x.code = "AVAILABLE_SYNTHETIC"}
    BY <1>1, <1>2 DEF Available
  <2>. QED
    BY <1>2, <1>3, <2>1
<1>. QED
  BY <1>4, <1>5

LEMMA OfferingBinds ==
  ASSUME RoutedNow, NEW p, NEW role, NEW hub, NEW s \in Available(p, role, hub)
  PROVE  LET bindings == Se!Offering(p, hub, s).bindings IN
           /\ Se!Offering(p, hub, s).service = s
           /\ bindings # {} /\ {b.capability : b \in bindings} = s.capabilities
           /\ \A b \in bindings :
                /\ b.route = Se!FirstRoute(s) /\ b.routeVersion = Se!RouteOf(b.route).version
                /\ b.adapter = Se!AdapterOf(Se!RouteOf(b.route)).id
                /\ Se!Within(b.grant, x5) /\ b.route \in b.grant.routes
<1>. DEFINE r == Se!RouteOf(Se!FirstRoute(s))
            GrantOf(c) == x3.grants[Se!Min(Se!GrantsFor(x3, p, s.id, c, hub.region))]
            Decided(c) == [capability |-> c, route |-> r.id, adapter |-> r.adapter,
                           allowed |-> Se!Access(x3, p, s.id, c, hub.region, r, Listed, x5)]
            Binding(c) == [capability |-> c, grant |-> GrantOf(c), route |-> r.id,
                           routeVersion |-> Se!RouteOf(r.id).version, adapter |-> r.adapter]
            bindings == Se!Offering(p, hub, s).bindings
<1>1. Registry(x1, x2) /\ x3 \in ServiceContracts /\ x4 \in ServiceCatalogs /\ s \in x4.services
  BY DEF RoutedNow, Routed, Available
<1>2. Se!RoutesFor(s) # {} /\ Carried(p, hub, s, r)
  BY DecisionAdmits DEF Available
<1>3. DOMAIN s.routes \subseteq Nat /\ s.capabilities # {}
  BY <1>1, HubAssumption
<1>4. r \in x2 /\ r.id = Se!FirstRoute(s) /\ Se!AdapterOf(r).id = r.adapter
  BY <1>1, <1>2, <1>3, FirstRouteResolves
<1>5. Se!CapabilityDecisions(p, hub, s) = {Decided(c) : c \in s.capabilities}
  BY <1>2, DecisionsOfRoute
<1>6. \A c : Se!CapabilityBinding(p, hub, s, Decided(c)) = Binding(c)
  BY DEF Se!CapabilityBinding
<1>7. /\ Se!Offering(p, hub, s).service = s
      /\ bindings = {Se!CapabilityBinding(p, hub, s, d) : d \in Se!CapabilityDecisions(p, hub, s)}
  BY DEF Se!Offering
<1>8. \A c \in s.capabilities : Se!Within(GrantOf(c), x5) /\ r.id \in GrantOf(c).routes
  <2>. SUFFICES ASSUME NEW c \in s.capabilities PROVE Se!Within(GrantOf(c), x5) /\ r.id \in GrantOf(c).routes
    OBVIOUS
  <2>1. Se!Access(x3, p, s.id, c, hub.region, r, Listed, x5)
    BY <1>2 DEF Carried
  <2>. QED
    BY <1>1, <2>1, AccessGrant
<1>9. \A c : /\ Binding(c).capability = c /\ Binding(c).grant = GrantOf(c) /\ Binding(c).route = r.id
             /\ Binding(c).routeVersion = Se!RouteOf(r.id).version /\ Binding(c).adapter = r.adapter
  OBVIOUS
<1>10. Se!RouteOf(r.id) = r
  BY <1>4
<1>. HIDE DEF Decided, Binding, bindings, r, GrantOf
<1>11. bindings = {Binding(c) : c \in s.capabilities}
  BY <1>5, <1>6, <1>7
<1>12. \A b \in bindings :
         /\ b.route = Se!FirstRoute(s) /\ b.routeVersion = Se!RouteOf(b.route).version
         /\ b.adapter = Se!AdapterOf(Se!RouteOf(b.route)).id
         /\ Se!Within(b.grant, x5) /\ b.route \in b.grant.routes
  BY <1>4, <1>8, <1>9, <1>10, <1>11
<1>13. bindings # {} /\ {b.capability : b \in bindings} = s.capabilities
  BY <1>3, <1>9, <1>11
<1>. QED
  BY <1>7, <1>12, <1>13 DEF bindings

LEMMA WorkspaceShows ==
  ASSUME RoutedNow, NEW p, NEW role, NEW hub
  PROVE  Se!WorkspaceServices(p, role, hub)
           = {[service |-> s, route |-> Se!FirstRoute(s)] : s \in Available(p, role, hub)}
<1>. DEFINE Shown(o) == [service |-> o.service, route |-> (CHOOSE b \in o.bindings : TRUE).route]
            Item(s) == [service |-> s, route |-> Se!FirstRoute(s)]
<1>1. Se!WorkspaceServices(p, role, hub) = {Shown(o) : o \in Se!Offerings(p, role, hub)}
  BY DEF Se!WorkspaceServices
<1>2. ASSUME NEW s \in Available(p, role, hub) PROVE Shown(Se!Offering(p, hub, s)) = Item(s)
  <2>. DEFINE bindings == Se!Offering(p, hub, s).bindings
  <2>1. /\ Se!Offering(p, hub, s).service = s /\ bindings # {}
        /\ \A b \in bindings : b.route = Se!FirstRoute(s)
    BY OfferingBinds
  <2>2. (CHOOSE b \in bindings : TRUE) \in bindings
    <3>. HIDE DEF bindings
    <3>. QED
      BY <2>1
  <2>. QED
    BY <2>1, <2>2
<1>3. Se!Offerings(p, role, hub) = {Se!Offering(p, hub, s) : s \in Available(p, role, hub)}
  BY OfferingsAreAvailable
<1>. HIDE DEF Shown, Item
<1>4. Se!WorkspaceServices(p, role, hub) = {Item(s) : s \in Available(p, role, hub)}
  BY <1>1, <1>2, <1>3
<1>. QED
  BY <1>4 DEF Item

\* What the manifest of the hub's region has besides the hub's own conditions.
Resolvable(p, role, hub) ==
  {item \in Se!Manifest(p, role, hub.region) :
     /\ hub.active /\ x3.partner \in hub.members /\ x3.partner = x4.partner /\ Se!Enabled(hub, item.service)
     /\ \A c \in item.service.capabilities :
          Se!Resolves(Se!RouteOf(item.route), x4.partner, x4.environment, item.service.id, c)}

LEMMA AvailableResolves ==
  ASSUME RoutedNow, NEW p, NEW role, NEW hub, NEW s \in Available(p, role, hub)
  PROVE  [service |-> s, route |-> Se!FirstRoute(s)] \in Resolvable(p, role, hub)
<1>. DEFINE r == Se!RouteOf(Se!FirstRoute(s))
            item == [service |-> s, route |-> Se!FirstRoute(s)]
<1>1. Registry(x1, x2) /\ x4 \in ServiceCatalogs /\ s \in x4.services
  BY DEF RoutedNow, Routed, Available
<1>2. Admitted(p, role, hub, s) /\ Se!RoutesFor(s) # {} /\ Carried(p, hub, s, r)
  BY DecisionAdmits DEF Available
<1>3. x3.partner = x4.partner /\ x3.environment = x4.environment
  BY DEF Available, Se!Served
<1>4. /\ Se!RouteIsUsable(r) /\ Se!AdapterIsUsable(Se!AdapterOf(r))
      /\ Se!AdapterOf(r).environment = r.environment /\ r.capabilities \subseteq Se!AdapterOf(r).capabilities
  BY <1>1, <1>2, FirstRouteResolves, HubAssumption
<1>5. r.environment = x3.environment
  BY <1>2 DEF Carried
<1>6. \A c \in s.capabilities : Se!Resolves(r, x4.partner, x4.environment, s.id, c)
  <2>. HIDE DEF r
  <2>. QED
    BY <1>2, <1>3, <1>4, <1>5 DEF Carried, Se!Resolves
<1>7. item \in Se!Manifest(p, role, hub.region)
  BY <1>1, <1>2 DEF Se!Manifest, Admitted, Carried, Listed
<1>8. item.service = s /\ item.route = Se!FirstRoute(s)
  OBVIOUS
<1>. HIDE DEF r, item
<1>9. /\ hub.active /\ x3.partner \in hub.members /\ Se!Enabled(hub, item.service)
  BY <1>2, <1>8 DEF Admitted
<1>10. item \in Resolvable(p, role, hub)
  BY <1>3, <1>6, <1>7, <1>8, <1>9 DEF Resolvable, r
<1>. QED
  BY <1>10 DEF item

LEMMA ResolvableAvailable ==
  ASSUME RoutedNow, NEW p, NEW role, NEW hub, NEW item \in Resolvable(p, role, hub)
  PROVE  \E s \in Available(p, role, hub) : item = [service |-> s, route |-> Se!FirstRoute(s)]
<1>1. Registry(x1, x2) /\ x4 \in ServiceCatalogs
  BY DEF RoutedNow, Routed
<1>2. PICK s \in x4.services :
        /\ item = [service |-> s, route |-> Se!FirstRoute(s)] /\ Se!RoutesFor(s) # {}
        /\ role \in s.roles /\ hub.region \in s.regions /\ (s.groups = {} \/ s.groups \cap p.groups # {})
        /\ s.id \in p.services
        /\ \A c \in s.capabilities :
             Se!Access(x3, p, s.id, c, hub.region, Se!RouteOf(Se!FirstRoute(s)), Listed, x5)
  BY DEF Resolvable, Se!Manifest, Listed
<1>. DEFINE r == Se!RouteOf(Se!FirstRoute(s))
<1>3. item.service = s /\ item.route = Se!FirstRoute(s)
  BY <1>2
<1>4. /\ Se!CatalogIsValid(x4, x3, x5) /\ p.member /\ role \in p.roles /\ hub.region \in p.regions
  BY DEF Resolvable, Se!Manifest
<1>5. /\ hub.active /\ x3.partner \in hub.members /\ x3.partner = x4.partner /\ Se!Enabled(hub, s)
      /\ \A c \in s.capabilities : Se!Resolves(r, x4.partner, x4.environment, s.id, c)
  BY <1>3 DEF Resolvable
<1>6. x3.environment = x4.environment
  BY <1>4 DEF Se!CatalogIsValid
<1>7. /\ DOMAIN s.routes \subseteq Nat /\ s.capabilities # {}
  BY <1>1, HubAssumption
<1>8. /\ Se!AdapterOf(r) \in x1 /\ Se!AdapterOf(r).id = r.adapter /\ Se!AdapterOf(r).environment = r.environment
  BY <1>1, <1>2, <1>7, FirstRouteResolves
<1>9. /\ r.partner = x4.partner /\ r.environment = x4.environment /\ s.id \in r.services
      /\ s.capabilities \subseteq r.capabilities
  <2>. HIDE DEF r
  <2>. QED
    BY <1>5, <1>7 DEF Se!Resolves
<1>10. Carried(p, hub, s, r)
  <2>1. \A c \in s.capabilities : Se!Access(x3, p, s.id, c, hub.region, r, Listed, x5)
    BY <1>2
  <2>. HIDE DEF r
  <2>. QED
    BY <1>5, <1>6, <1>8, <1>9, <2>1 DEF Carried
<1>11. Admitted(p, role, hub, s)
  BY <1>2, <1>4, <1>5 DEF Admitted
<1>12. s \in Available(p, role, hub)
  BY <1>2, <1>5, <1>6, <1>10, <1>11, DecisionAdmits DEF Available, Se!Served
<1>. QED
  BY <1>2, <1>12

LEMMA OffersResolve == RoutedNow => Se!OfferedResolves
<1>. SUFFICES ASSUME RoutedNow, NEW p \in ServicePrincipals, NEW role \in Se!ActingRoles, NEW hub \in ServiceHubs
     PROVE  /\ Se!WorkspaceServices(p, role, hub) = Resolvable(p, role, hub)
            /\ \A o \in Se!Offerings(p, role, hub) :
                 /\ {b.capability : b \in o.bindings} = o.service.capabilities
                 /\ \A b \in o.bindings :
                      /\ b.adapter = Se!AdapterOf(Se!RouteOf(b.route)).id
                      /\ b.routeVersion = Se!RouteOf(b.route).version
                      /\ Se!Within(b.grant, x5) /\ b.route \in b.grant.routes
  BY DEF Se!OfferedResolves, Resolvable
<1>1. Se!WorkspaceServices(p, role, hub) = Resolvable(p, role, hub)
  BY WorkspaceShows, AvailableResolves, ResolvableAvailable
<1>2. ASSUME NEW o \in Se!Offerings(p, role, hub)
      PROVE  /\ {b.capability : b \in o.bindings} = o.service.capabilities
             /\ \A b \in o.bindings :
                  /\ b.adapter = Se!AdapterOf(Se!RouteOf(b.route)).id
                  /\ b.routeVersion = Se!RouteOf(b.route).version
                  /\ Se!Within(b.grant, x5) /\ b.route \in b.grant.routes
  <2>1. PICK s \in Available(p, role, hub) : o = Se!Offering(p, hub, s)
    BY OfferingsAreAvailable
  <2>. QED
    BY <2>1, OfferingBinds
<1>. QED
  BY <1>1, <1>2

\* Service composition: the two ways a service is decided never part, whatever was
\* registered, changed or passed: a hub's agent sees exactly the services bound to the
\* hub that a manifest of its region gives and whose every capability resolves, and what
\* is offered names the grant, the route and the adapter of that resolution.
THEOREM OfferingsResolve == HubSpec => []OfferedResolves
<1>1. RoutedInv => OfferedResolves
  BY OffersResolve DEF OfferedResolves, RoutedInv
<1>. QED
  BY <1>1, ServicesStayRouted, PTL

-----------------------------------------------------------------------------
\* EvidenceLineage.  What is appended is finite, and the passes and walks of a finite
\* log are functions that exist.
LEMMA LineageCounts == \A S : Ln!Cardinality(S) = Cardinality(S)
BY DEF Ln!Cardinality, Cardinality

LEMMA ImageFinite ==
  ASSUME NEW S, IsFiniteSet(S), NEW f, DOMAIN f = S, NEW T, T = {f[x] : x \in S}
  PROVE  IsFiniteSet(T) /\ Cardinality(T) <= Cardinality(S)
<1>1. [x \in S |-> f[x]] \in Surjection(S, T)
  BY DEF Surjection
<1>. QED
  BY <1>1, FS_Surjection

\* What holds at first, and after every step, holds all along.
LEMMA AllAlong ==
  ASSUME NEW N \in Nat, NEW S, 0 \in S, \A n \in 1..N : n - 1 \in S => n \in S
  PROVE  0..N \subseteq S
<1>. DEFINE T == {n \in 0..N : n \notin S}
<1>1. SUFFICES ASSUME T # {} PROVE FALSE
  OBVIOUS
<1>2. T \subseteq Nat
  OBVIOUS
<1>3. PICK n \in T : \A m \in T : n <= m
  <2>. HIDE DEF T
  <2>. QED
    BY <1>1, <1>2, Tr!LeastElement
<1>4. n \in 1..N /\ n - 1 \in 0..N /\ n - 1 \notin T
  BY <1>3
<1>. QED
  BY <1>3, <1>4

\* N steps of G from A, over subsets of U.
Steps(U, G, A, N, f) ==
  f \in [0..N -> SUBSET U] /\ f[0] = A /\ \A n \in 1..N : f[n] = G[f[n - 1]]

LEMMA StepsExist ==
  ASSUME NEW U, NEW G \in [SUBSET U -> SUBSET U], NEW A \in SUBSET U, NEW N \in Nat
  PROVE  \E f : Steps(U, G, A, N, f)
<1>. DEFINE S == {n \in Nat : \E f : Steps(U, G, A, n, f)}
<1>1. 0 \in S
  <2>. DEFINE f == [n \in 0..0 |-> A]
  <2>1. Steps(U, G, A, 0, f)
    BY DEF Steps
  <2>. QED
    BY <2>1
<1>2. ASSUME NEW n \in 1..N, n - 1 \in S PROVE n \in S
  <2>1. PICK g : Steps(U, G, A, n - 1, g)
    BY <1>2
  <2>. DEFINE f == [i \in 0..n |-> IF i = n THEN G[g[n - 1]] ELSE g[i]]
  <2>2. n \in Nat \ {0} /\ g \in [0..n - 1 -> SUBSET U] /\ g[0] = A /\ \A i \in 1..n - 1 : g[i] = G[g[i - 1]]
    BY <2>1 DEF Steps
  <2>3. f \in [0..n -> SUBSET U]
    <3>1. G[g[n - 1]] \in SUBSET U
      BY <2>2
    <3>2. \A i \in 0..n : i # n => g[i] \in SUBSET U
      BY <2>2
    <3>. QED
      BY <3>1, <3>2
  <2>4. f[0] = A
    BY <2>2
  <2>5. ASSUME NEW i \in 1..n PROVE f[i] = G[f[i - 1]]
    <3>1. i - 1 \in 0..n /\ i - 1 # n /\ f[i - 1] = g[i - 1]
      BY <2>2
    <3>. QED
      BY <2>2, <3>1
  <2>6. Steps(U, G, A, n, f)
    <3>. HIDE DEF f
    <3>. QED
      BY <2>3, <2>4, <2>5 DEF Steps
  <2>. QED
    BY <2>2, <2>6
<1>3. N \in 0..N /\ 0..N \subseteq S
  <2>. HIDE DEF S
  <2>. QED
    BY <1>1, <1>2, AllAlong
<1>. QED
  BY <1>3


\* A log that one can ask for: finite, and what its schemas admit.
Logged == IsFiniteSet(x1) /\ IsFiniteSet(x2) /\ IsFiniteSet(x3) /\ x1 \subseteq LineageRecords

Size(scope) == Ln!Cardinality(Ln!Ids(scope))

LEMMA LogFacts ==
  ASSUME Logged, NEW scope
  PROVE  /\ IsFiniteSet(Ln!Ids(scope)) /\ Size(scope) \in Nat
         /\ IsFiniteSet(Ln!In(scope, x3))
<1>1. IsFiniteSet(Ln!In(scope, x1)) /\ IsFiniteSet(Ln!In(scope, x3))
  BY FS_Subset DEF Logged, Ln!In
<1>2. IsFiniteSet(Ln!Ids(scope))
  <2>. DEFINE S == Ln!In(scope, x1)
              f == [r \in S |-> r.id]
  <2>1. Ln!Ids(scope) = {f[r] : r \in S} /\ DOMAIN f = S
    BY DEF Ln!Ids
  <2>. HIDE DEF f, S
  <2>. QED
    BY <1>1, <2>1, ImageFinite DEF S
<1>. QED
  BY <1>1, <1>2, LineageCounts, FS_CardinalityType DEF Size

\* What a valid log promises of its corrections and dependencies.
LEMMA ValidFacts ==
  ASSUME NEW scope, Ln!Valid(scope)
  PROVE  /\ \A x : Ln!Next1(scope, x) \subseteq Ln!Ids(scope) /\ Ln!Predecessors(scope, x) \subseteq Ln!Ids(scope)
         /\ \A x : \A y, z \in Ln!Next1(scope, x) : y = z
         /\ \A x : \A y \in Ln!Predecessors(scope, x) : x \in Ln!Next1(scope, y)
         /\ \A d \in Ln!In(scope, x3) : d.derived \in Ln!Ids(scope)
<1>1. \A c \in Ln!In(scope, x2) : {c.old, c.new} \subseteq Ln!Ids(scope)
  BY DEF Ln!Valid
<1>2. \A c, d \in x2 : c.old = d.old => c = d
  BY DEF Ln!Valid, Ln!UniqueBy
<1>3. \A d \in Ln!In(scope, x3) : {d.derived} \cup d.sources \subseteq Ln!Ids(scope)
  BY DEF Ln!Valid
<1>4. \A x : \A y, z \in Ln!Next1(scope, x) : y = z
  BY <1>2 DEF Ln!Next1, Ln!In
<1>. QED
  BY <1>1, <1>3, <1>4 DEF Ln!Next1, Ln!Predecessors

LEMMA FollowSteps ==
  ASSUME Logged, NEW scope, Ln!Valid(scope), NEW id \in Ln!Ids(scope)
  PROVE  /\ Ln!Follow(scope, id)[0] = {id}
         /\ \A n \in 1..Size(scope) :
              Ln!Follow(scope, id)[n] = UNION {Ln!Next1(scope, x) : x \in Ln!Follow(scope, id)[n - 1]}
         /\ \A n \in 0..Size(scope) : Ln!Follow(scope, id)[n] \subseteq Ln!Ids(scope)
<1>. DEFINE N == Size(scope)
            U == Ln!Ids(scope)
            Then(S) == UNION {Ln!Next1(scope, x) : x \in S}
            G == [S \in SUBSET U |-> Then(S)]
            Body(g) == [n \in 0..N |-> IF n = 0 THEN {id} ELSE Then(g[n - 1])]
            t == CHOOSE g : g = Body(g)
<1>1. N \in Nat
  BY LogFacts
<1>2. \A S : Then(S) \subseteq U
  BY ValidFacts
<1>3. Ln!Follow(scope, id) = t
  BY DEF Ln!Follow, Size
<1>. HIDE DEF N, U, Then
<1>4. G \in [SUBSET U -> SUBSET U] /\ {id} \in SUBSET U
  BY <1>2 DEF U
<1>5. \E g : g = Body(g)
  <2>1. PICK g : Steps(U, G, {id}, N, g)
    <3>. HIDE DEF G
    <3>. QED
      BY <1>1, <1>4, StepsExist
  <2>2. g \in [0..N -> SUBSET U] /\ g[0] = {id} /\ \A n \in 1..N : g[n] = G[g[n - 1]]
    BY <2>1 DEF Steps
  <2>3. \A n \in 1..N : n # 0 /\ n - 1 \in 0..N
    BY <1>1
  <2>4. \A n \in 1..N : g[n] = Then(g[n - 1])
    BY <2>2, <2>3
  <2>5. \A n \in 0..N : n # 0 => n \in 1..N
    BY <1>1
  <2>6. g = Body(g)
    BY <2>2, <2>4, <2>5
  <2>. QED
    BY <2>6
<1>6. t = Body(t)
  BY <1>5
<1>. HIDE DEF t
<1>7. 0 \in 0..N /\ \A n \in 1..N : n \in 0..N /\ n # 0
  BY <1>1
<1>8. t[0] = {id} /\ \A n \in 1..N : t[n] = Then(t[n - 1])
  BY <1>6, <1>7
<1>9. \A n \in 0..N : t[n] \subseteq U
  <2>1. \A n \in 0..N : n # 0 => n \in 1..N
    BY <1>1
  <2>. QED
    BY <1>2, <1>8, <2>1 DEF U
<1>. QED
  BY <1>3, <1>8, <1>9 DEF N, U, Then

\* A step earlier in the walk of what one evidence leads to.
LEMMA FollowOn ==
  ASSUME Logged, NEW scope, Ln!Valid(scope), NEW id \in Ln!Ids(scope), NEW next \in Ln!Next1(scope, id)
  PROVE  \A n \in 0..Size(scope) : n < Size(scope) => Ln!Follow(scope, next)[n] \subseteq Ln!Follow(scope, id)[n + 1]
<1>. DEFINE N == Size(scope)
            f == Ln!Follow(scope, id)
            g == Ln!Follow(scope, next)
            S == {n \in 0..N : n < N => g[n] \subseteq f[n + 1]}
<1>1. N \in Nat /\ next \in Ln!Ids(scope)
  BY LogFacts, ValidFacts
<1>2. f[0] = {id} /\ \A n \in 1..N : f[n] = UNION {Ln!Next1(scope, x) : x \in f[n - 1]}
  BY FollowSteps
<1>3. g[0] = {next} /\ \A n \in 1..N : g[n] = UNION {Ln!Next1(scope, x) : x \in g[n - 1]}
  BY <1>1, FollowSteps
<1>. HIDE DEF N, f, g
<1>4. 0 \in S
  <2>1. ASSUME 0 < N PROVE g[0] \subseteq f[0 + 1]
    <3>1. 1 \in 1..N /\ 1 - 1 = 0 /\ 0 + 1 = 1
      BY <1>1, <2>1
    <3>2. f[1] = UNION {Ln!Next1(scope, x) : x \in {id}}
      BY <1>2, <3>1
    <3>. QED
      BY <1>3, <3>1, <3>2
  <2>. QED
    BY <1>1, <2>1
<1>5. ASSUME NEW n \in 1..N, n - 1 \in S PROVE n \in S
  <2>1. ASSUME n < N PROVE g[n] \subseteq f[n + 1]
    <3>1. n + 1 \in 1..N /\ (n + 1) - 1 = n /\ n - 1 < N /\ (n - 1) + 1 = n
      BY <1>1, <2>1
    <3>2. g[n - 1] \subseteq f[n]
      BY <1>5, <3>1
    <3>3. f[n + 1] = UNION {Ln!Next1(scope, x) : x \in f[n]}
      BY <1>2, <3>1
    <3>4. g[n] = UNION {Ln!Next1(scope, x) : x \in g[n - 1]}
      BY <1>3
    <3>. QED
      BY <3>2, <3>3, <3>4
  <2>. QED
    BY <1>1, <2>1
<1>6. 0..N \subseteq S
  <2>. HIDE DEF S
  <2>. QED
    BY <1>1, <1>4, <1>5, AllAlong
<1>. QED
  BY <1>6 DEF N, f, g

\* A root leads to the evidence that is asked about.
LEMMA RootsLead ==
  ASSUME Logged, NEW scope, Ln!Valid(scope), NEW id \in Ln!Ids(scope), NEW root \in Ln!Roots(scope, id)
  PROVE  root \in Ln!Ids(scope) /\ \E n \in 0..Size(scope) : id \in Ln!Follow(scope, root)[n]
<1>. DEFINE N == Size(scope)
            U == Ln!Ids(scope)
            Back(x) == IF Ln!Predecessors(scope, x) = {} THEN {x} ELSE Ln!Predecessors(scope, x)
            Before(S) == UNION {Back(x) : x \in S}
            G == [S \in SUBSET U |-> Before(S)]
            Body(g) == [n \in 0..N |-> IF n = 0 THEN {id} ELSE Before(g[n - 1])]
            t == CHOOSE g : g = Body(g)
            Leads(x, n) == x \in U /\ \E m \in 0..n : id \in Ln!Follow(scope, x)[m]
            S == {n \in 0..N : \A x \in t[n] : Leads(x, n)}
<1>1. N \in Nat
  BY LogFacts
<1>2. \A x \in U : Back(x) \subseteq U
  BY ValidFacts
<1>3. Ln!Roots(scope, id) = t[N]
  BY DEF Ln!Roots, Size
<1>4. ASSUME NEW y \in U, NEW x \in Back(y) PROVE x = y \/ y \in Ln!Next1(scope, x)
  BY ValidFacts
<1>. HIDE DEF N, U, Back
<1>5. G \in [SUBSET U -> SUBSET U] /\ {id} \in SUBSET U
  <2>1. \A T \in SUBSET U : Before(T) \subseteq U
    BY <1>2
  <2>. QED
    BY <2>1 DEF U
<1>6. \E g : g = Body(g)
  <2>1. PICK g : Steps(U, G, {id}, N, g)
    <3>. HIDE DEF G
    <3>. QED
      BY <1>1, <1>5, StepsExist
  <2>2. g \in [0..N -> SUBSET U] /\ g[0] = {id} /\ \A n \in 1..N : g[n] = G[g[n - 1]]
    BY <2>1 DEF Steps
  <2>3. \A n \in 1..N : n # 0 /\ n - 1 \in 0..N
    BY <1>1
  <2>4. \A n \in 1..N : g[n] = Before(g[n - 1])
    BY <2>2, <2>3
  <2>5. \A n \in 0..N : n # 0 => n \in 1..N
    BY <1>1
  <2>6. g = Body(g)
    <3>. HIDE DEF Before
    <3>. QED
      BY <2>2, <2>4, <2>5
  <2>. QED
    BY <2>6
<1>7. t = Body(t)
  BY <1>6
<1>. HIDE DEF t
<1>8. 0 \in 0..N /\ \A n \in 1..N : n \in 0..N /\ n # 0
  BY <1>1
<1>9. t[0] = {id} /\ \A n \in 1..N : t[n] = Before(t[n - 1])
  <2>. HIDE DEF Before
  <2>. QED
    BY <1>7, <1>8
<1>10. 0 \in S
  <2>1. Leads(id, 0)
    <3>1. id \in Ln!Follow(scope, id)[0]
      BY FollowSteps
    <3>. QED
      BY <3>1 DEF U
  <2>. QED
    BY <1>8, <1>9, <2>1
<1>11. ASSUME NEW n \in 1..N, n - 1 \in S PROVE n \in S
  <2>1. SUFFICES ASSUME NEW x \in t[n] PROVE Leads(x, n)
    BY <1>8
  <2>2. PICK y \in t[n - 1] : x \in Back(y)
    BY <1>9
  <2>3. Leads(y, n - 1)
    <3>. HIDE DEF Leads
    <3>. QED
      BY <1>11, <2>2
  <2>4. PICK m \in 0..n - 1 : id \in Ln!Follow(scope, y)[m]
    BY <2>3
  <2>5. x \in U /\ (x = y \/ y \in Ln!Next1(scope, x))
    BY <1>2, <1>4, <2>2, <2>3
  <2>6. m \in 0..n /\ m + 1 \in 0..n /\ m \in 0..N /\ m < N
    BY <1>1
  <2>7. CASE x = y
    BY <2>4, <2>5, <2>6, <2>7
  <2>8. CASE y \in Ln!Next1(scope, x)
    <3>1. Ln!Follow(scope, y)[m] \subseteq Ln!Follow(scope, x)[m + 1]
      BY <2>5, <2>6, <2>8, FollowOn DEF N, U
    <3>. QED
      BY <2>4, <2>5, <2>6, <3>1
  <2>. QED
    BY <2>5, <2>7, <2>8
<1>12. 0..N \subseteq S
  <2>. HIDE DEF S
  <2>. QED
    BY <1>1, <1>10, <1>11, AllAlong
<1>13. N \in 0..N
  BY <1>1
<1>14. Leads(root, N)
  <2>. HIDE DEF Leads
  <2>. QED
    BY <1>3, <1>12, <1>13
<1>. QED
  BY <1>14 DEF N, U

\* Corrections lead to one end: the only link that nothing supersedes.
LEMMA ChainEnds ==
  ASSUME Logged, NEW scope, Ln!Valid(scope), NEW root \in Ln!Ids(scope)
  PROVE  Cardinality(Ln!Chain(scope, root) \ Ln!Corrected(scope, root)) = 1
<1>. DEFINE N == Size(scope)
            f == Ln!Follow(scope, root)
            Next(x) == Ln!Next1(scope, x)
            Ends == {n \in 0..N : f[n] = {}}
<1>1. N \in Nat
  BY LogFacts
<1>2. f[0] = {root} /\ \A n \in 1..N : f[n] = UNION {Next(x) : x \in f[n - 1]}
  BY FollowSteps
<1>3. f[N] = {}
  BY DEF Ln!Valid, Ln!Acyclic, Size
<1>4. Ln!Chain(scope, root) = UNION {f[n] : n \in 0..N}
  BY DEF Ln!Chain, Size
<1>5. \A x : \A y, z \in Next(x) : y = z
  BY ValidFacts
<1>6. Ln!Chain(scope, root) \ Ln!Corrected(scope, root) = {x \in UNION {f[n] : n \in 0..N} : Next(x) = {}}
  BY <1>4 DEF Ln!Corrected
<1>. HIDE DEF N, f, Next
<1>7. \A n \in 0..N : \A x, y \in f[n] : x = y
  <2>. DEFINE S == {n \in 0..N : \A x, y \in f[n] : x = y}
  <2>1. 0 \in S
    BY <1>1, <1>2
  <2>2. ASSUME NEW n \in 1..N, n - 1 \in S PROVE n \in S
    BY <1>2, <1>5, <2>2
  <2>3. 0..N \subseteq S
    <3>. HIDE DEF S
    <3>. QED
      BY <1>1, <2>1, <2>2, AllAlong
  <2>. QED
    BY <2>3
<1>8. PICK k \in Ends : \A n \in Ends : k <= n
  <2>1. N \in Ends /\ Ends \subseteq Nat
    BY <1>1, <1>3
  <2>. HIDE DEF Ends
  <2>. QED
    BY <2>1, Tr!LeastElement
<1>9. k \in 1..N /\ k - 1 \in 0..N /\ f[k] = {} /\ f[k - 1] # {}
  <2>1. k \in 0..N /\ f[k] = {} /\ k # 0
    BY <1>2, <1>8
  <2>2. k - 1 \in 0..N /\ k - 1 \notin Ends
    BY <1>1, <1>8, <2>1
  <2>. QED
    BY <2>1, <2>2
<1>10. \A n \in 0..N : k <= n => f[n] = {}
  <2>. DEFINE S == {n \in 0..N : k <= n => f[n] = {}}
  <2>1. 0 \in S
    BY <1>1, <1>9
  <2>2. ASSUME NEW n \in 1..N, n - 1 \in S PROVE n \in S
    <3>1. CASE k = n
      BY <1>9, <3>1
    <3>2. CASE k <= n - 1
      BY <1>2, <2>2, <3>2
    <3>3. k = n \/ k <= n - 1 \/ ~(k <= n)
      BY <1>1, <1>9
    <3>. QED
      BY <1>1, <3>1, <3>2, <3>3
  <2>3. 0..N \subseteq S
    <3>. HIDE DEF S
    <3>. QED
      BY <1>1, <2>1, <2>2, AllAlong
  <2>. QED
    BY <2>3
<1>11. PICK e : f[k - 1] = {e}
  <2>1. PICK e : e \in f[k - 1]
    BY <1>9
  <2>2. \A x \in f[k - 1] : x = e
    BY <1>7, <1>9, <2>1
  <2>. QED
    BY <2>1, <2>2
<1>12. Next(e) = {}
  <2>1. f[k] = UNION {Next(x) : x \in {e}}
    BY <1>2, <1>9, <1>11
  <2>. QED
    BY <1>9, <2>1
<1>13. ASSUME NEW n \in 0..N, NEW x \in f[n], Next(x) = {} PROVE x = e
  <2>1. n < k
    BY <1>1, <1>9, <1>10, <1>13
  <2>2. CASE n = k - 1
    BY <1>11, <1>13, <2>2
  <2>3. CASE n # k - 1
    <3>1. n + 1 \in 1..N /\ n + 1 < k /\ (n + 1) - 1 = n
      BY <1>1, <1>9, <2>1, <2>3
    <3>2. f[n] = {x}
      BY <1>7, <1>13
    <3>3. f[n + 1] = UNION {Next(y) : y \in {x}}
      BY <1>2, <3>1, <3>2
    <3>4. f[n + 1] = {}
      BY <1>13, <3>3
    <3>5. n + 1 \in Ends /\ ~(k <= n + 1)
      BY <1>1, <1>9, <3>1, <3>4
    <3>. QED
      BY <1>8, <3>5
  <2>. QED
    BY <2>2, <2>3
<1>14. {x \in UNION {f[n] : n \in 0..N} : Next(x) = {}} = {e}
  <2>1. e \in UNION {f[n] : n \in 0..N}
    BY <1>9, <1>11
  <2>. QED
    BY <1>12, <1>13, <2>1
<1>. QED
  BY <1>6, <1>14, FS_Singleton

\* The passes over some dependencies.
Passes(D, C, f) ==
  /\ f[0] = {} /\ f[Cardinality(D)] = Ln!Marked(D, C)
  /\ \A n \in 1..Cardinality(D) : f[n] = Ln!Pass(D, C, f[n - 1])
  /\ \A n \in 0..Cardinality(D) : f[n] \subseteq {d.derived : d \in D}

LEMMA PassSteps ==
  ASSUME NEW D, IsFiniteSet(D), NEW C
  PROVE  \E f : Passes(D, C, f)
<1>. DEFINE N == Cardinality(D)
            U == {d.derived : d \in D}
            Then(S) == Ln!Pass(D, C, S)
            G == [S \in SUBSET U |-> Then(S)]
            Body(g) == [n \in 0..N |-> IF n = 0 THEN {} ELSE Then(g[n - 1])]
            t == CHOOSE g : g = Body(g)
<1>1. N \in Nat
  BY FS_CardinalityType
<1>2. \A S \in SUBSET U : Then(S) \subseteq U
  BY DEF Ln!Pass
<1>3. Ln!Marked(D, C) = t[N]
  BY LineageCounts DEF Ln!Marked
<1>. HIDE DEF N, U, Then
<1>4. G \in [SUBSET U -> SUBSET U] /\ {} \in SUBSET U
  BY <1>2
<1>5. \E g : g = Body(g)
  <2>1. PICK g : Steps(U, G, {}, N, g)
    <3>. HIDE DEF G
    <3>. QED
      BY <1>1, <1>4, StepsExist
  <2>2. g \in [0..N -> SUBSET U] /\ g[0] = {} /\ \A n \in 1..N : g[n] = G[g[n - 1]]
    BY <2>1 DEF Steps
  <2>3. \A n \in 1..N : n # 0 /\ n - 1 \in 0..N
    BY <1>1
  <2>4. \A n \in 1..N : g[n] = Then(g[n - 1])
    BY <2>2, <2>3
  <2>5. \A n \in 0..N : n # 0 => n \in 1..N
    BY <1>1
  <2>6. g = Body(g)
    BY <2>2, <2>4, <2>5
  <2>. QED
    BY <2>6
<1>6. t = Body(t)
  BY <1>5
<1>. HIDE DEF t
<1>7. 0 \in 0..N /\ \A n \in 1..N : n \in 0..N /\ n # 0
  BY <1>1
<1>8. t[0] = {} /\ \A n \in 1..N : t[n] = Then(t[n - 1])
  BY <1>6, <1>7
<1>9. \A n \in 0..N : t[n] \in SUBSET U
  <2>. DEFINE S == {n \in 0..N : t[n] \in SUBSET U}
  <2>1. 0 \in S
    BY <1>7, <1>8
  <2>2. ASSUME NEW n \in 1..N, n - 1 \in S PROVE n \in S
    BY <1>2, <1>7, <1>8, <2>2
  <2>3. 0..N \subseteq S
    <3>. HIDE DEF S
    <3>. QED
      BY <1>1, <2>1, <2>2, AllAlong
  <2>. QED
    BY <2>3
<1>10. Passes(D, C, t)
  BY <1>3, <1>8, <1>9 DEF N, U, Then, Passes
<1>. QED
  BY <1>10

\* As many passes as there are dependencies are enough: a pass that is not the last
\* marks something, and there is no more to mark than they derive.
LEMMA MarkedIsClosed ==
  ASSUME NEW D, IsFiniteSet(D), NEW C
  PROVE  Ln!Pass(D, C, Ln!Marked(D, C)) = Ln!Marked(D, C)
<1>. DEFINE N == Cardinality(D)
            U == {d.derived : d \in D}
            Then(T) == Ln!Pass(D, C, T)
<1>0. PICK f : Passes(D, C, f)
  BY PassSteps
<1>1. /\ f[0] = {} /\ f[N] = Ln!Marked(D, C)
      /\ \A n \in 1..N : f[n] = Then(f[n - 1])
      /\ \A n \in 0..N : f[n] \subseteq U
  BY <1>0 DEF Passes
<1>2. N \in Nat /\ IsFiniteSet(U) /\ Cardinality(U) <= N /\ Cardinality(U) \in Nat
  <2>. DEFINE g == [d \in D |-> d.derived]
  <2>1. U = {g[d] : d \in D} /\ DOMAIN g = D
    OBVIOUS
  <2>. HIDE DEF g, U
  <2>2. IsFiniteSet(U) /\ Cardinality(U) <= Cardinality(D)
    BY <2>1, ImageFinite
  <2>. QED
    BY <2>2, FS_CardinalityType
<1>3. \A T : T \subseteq Then(T)
  BY DEF Ln!Pass
<1>4. \A T \in SUBSET U : Then(T) \subseteq U
  BY DEF Ln!Pass
<1>. HIDE DEF N, U, Then
<1>. DEFINE Full(n) == Then(f[n]) = f[n] \/ Cardinality(f[n]) >= n
            S == {n \in 0..N : Full(n)}
<1>5. \A n \in 0..N : IsFiniteSet(f[n]) /\ Cardinality(f[n]) \in Nat /\ Cardinality(f[n]) <= Cardinality(U)
  BY <1>1, <1>2, FS_Subset, FS_CardinalityType
<1>6. 0 \in S
  BY <1>2, <1>5
<1>7. ASSUME NEW n \in 1..N, n - 1 \in S PROVE n \in S
  <2>1. n - 1 \in 0..N /\ n \in 0..N /\ Full(n - 1) /\ f[n] = Then(f[n - 1])
    BY <1>1, <1>2, <1>7
  <2>2. CASE Then(f[n - 1]) = f[n - 1]
    BY <2>1, <2>2
  <2>3. CASE Then(f[n - 1]) # f[n - 1] /\ Cardinality(f[n - 1]) >= n - 1
    <3>1. f[n - 1] \subseteq f[n] /\ f[n - 1] # f[n]
      BY <1>3, <2>1, <2>3
    <3>2. Cardinality(f[n - 1]) <= Cardinality(f[n]) /\ Cardinality(f[n - 1]) # Cardinality(f[n])
      BY <1>5, <2>1, <3>1, FS_Subset
    <3>3. Cardinality(f[n]) >= n
      <4>. DEFINE p == Cardinality(f[n - 1])
                  q == Cardinality(f[n])
      <4>1. p \in Nat /\ q \in Nat /\ p <= q /\ p # q /\ p >= n - 1
        BY <1>5, <2>1, <2>3, <3>2
      <4>. HIDE DEF p, q
      <4>2. q >= n
        BY <4>1
      <4>. QED
        BY <4>2 DEF q
    <3>. QED
      BY <2>1, <3>3
  <2>. QED
    BY <2>1, <2>2, <2>3
<1>8. 0..N \subseteq S
  <2>. HIDE DEF S
  <2>. QED
    BY <1>2, <1>6, <1>7, AllAlong
<1>9. N \in 0..N /\ Full(N)
  <2>1. N \in 0..N
    BY <1>2
  <2>2. N \in S
    BY <1>8, <2>1
  <2>. QED
    BY <2>1, <2>2
<1>10. CASE Then(f[N]) = f[N]
  BY <1>1, <1>10 DEF Then
<1>11. CASE Cardinality(f[N]) >= N
  <2>1. Cardinality(f[N]) = Cardinality(U)
    <3>. DEFINE p == Cardinality(f[N])
                q == Cardinality(U)
    <3>1. p \in Nat /\ q \in Nat /\ p <= q /\ q <= N /\ p >= N
      BY <1>2, <1>5, <1>9, <1>11
    <3>. HIDE DEF p, q
    <3>2. p = q
      BY <1>2, <3>1
    <3>. QED
      BY <3>2 DEF p, q
  <2>2. f[N] \subseteq U
    BY <1>1, <1>9
  <2>3. f[N] = U
    BY <1>2, <2>1, <2>2, FS_Subset
  <2>4. Then(f[N]) = f[N]
    BY <1>3, <1>4, <2>3
  <2>. QED
    BY <1>1, <2>4 DEF Then
<1>. QED
  BY <1>9, <1>10, <1>11

\* A path over dependencies, from what an evidence is derived from to that evidence.
Path(D, n, path, old, x) ==
  /\ path \in [1..n -> D] /\ old \in path[1].sources /\ path[n].derived = x
  /\ \A i \in 1..n - 1 : path[i].derived \in path[i + 1].sources

LEMMA PathDerives ==
  ASSUME NEW scope, NEW old, NEW x
  PROVE  Ln!DerivedFrom(scope, old, x) <=>
           \E n \in 1..Cardinality(x3) : \E path : Path(Ln!In(scope, x3), n, path, old, x)
<1>1. Ln!DerivedFrom(scope, old, x) <=>
        \E n \in 1..Cardinality(x3) : \E path \in [1..n -> Ln!In(scope, x3)] : Path(Ln!In(scope, x3), n, path, old, x)
  BY LineageCounts DEF Ln!DerivedFrom, Path
<1>2. \A n : \A path : Path(Ln!In(scope, x3), n, path, old, x) => path \in [1..n -> Ln!In(scope, x3)]
  BY DEF Path
<1>. QED
  BY <1>1, <1>2

LEMMA PathStarts ==
  ASSUME NEW D, NEW d \in D, NEW old \in d.sources
  PROVE  \E path : Path(D, 1, path, old, d.derived)
<1>. DEFINE path == [i \in 1..1 |-> d]
<1>1. path \in [1..1 -> D] /\ path[1] = d /\ 1..1 - 1 = {}
  OBVIOUS
<1>. HIDE DEF path
<1>2. Path(D, 1, path, old, d.derived)
  BY <1>1 DEF Path
<1>. QED
  BY <1>2

LEMMA PathGrows ==
  ASSUME NEW D, NEW n \in Nat \ {0}, NEW p, NEW old, NEW y, Path(D, n, p, old, y), NEW d \in D, y \in d.sources
  PROVE  \E path : Path(D, n + 1, path, old, d.derived)
<1>. DEFINE path == [i \in 1..n + 1 |-> IF i = n + 1 THEN d ELSE p[i]]
<1>1. /\ p \in [1..n -> D] /\ old \in p[1].sources /\ p[n].derived = y
      /\ \A i \in 1..n - 1 : p[i].derived \in p[i + 1].sources
  BY DEF Path
<1>2. path \in [1..n + 1 -> D]
  BY <1>1
<1>3. path[n + 1] = d /\ \A i \in 1..n : path[i] = p[i]
  OBVIOUS
<1>. HIDE DEF path
<1>4. ASSUME NEW i \in 1..n PROVE path[i].derived \in path[i + 1].sources
  <2>1. CASE i = n
    BY <1>1, <1>3, <2>1
  <2>2. CASE i # n
    <3>1. i \in 1..n - 1 /\ i + 1 \in 1..n
      BY <2>2
    <3>. QED
      BY <1>1, <1>3, <3>1
  <2>. QED
    BY <2>1, <2>2
<1>5. path[1] = p[1] /\ (n + 1) - 1 = n
  BY <1>3
<1>6. Path(D, n + 1, path, old, d.derived)
  BY <1>1, <1>2, <1>3, <1>4, <1>5 DEF Path
<1>. QED
  BY <1>6

\* What the passes mark is what paths lead to.
LEMMA MarkedIsDerived ==
  ASSUME Logged, NEW scope, Ln!Valid(scope), NEW C
  PROVE  Ln!Marked(Ln!In(scope, x3), C) = {d \in Ln!Ids(scope) : \E old \in C : Ln!DerivedFrom(scope, old, d)}
<1>. DEFINE D == Ln!In(scope, x3)
            M == Ln!Marked(D, C)
            N == Cardinality(D)
            Rests(n, x) == \E m \in 1..n : \E old \in C : \E path : Path(D, m, path, old, x)
<1>1. IsFiniteSet(D) /\ N \in Nat /\ Cardinality(x3) \in Nat /\ N <= Cardinality(x3)
  <2>1. D \subseteq x3 /\ IsFiniteSet(x3)
    BY DEF Logged, Ln!In
  <2>. QED
    BY <2>1, FS_Subset, FS_CardinalityType
<1>2. \A x \in M : x \in Ln!Ids(scope)
  <2>1. PICK f : Passes(D, C, f)
    BY <1>1, PassSteps
  <2>2. N \in 0..N
    BY <1>1
  <2>3. M \subseteq {d.derived : d \in D}
    BY <2>1, <2>2 DEF Passes
  <2>. QED
    BY <2>3, ValidFacts
<1>3. \A x : (\E old \in C : Ln!DerivedFrom(scope, old, x)) <=> Rests(Cardinality(x3), x)
  BY PathDerives
<1>4. ASSUME NEW x \in M PROVE Rests(N, x)
  <2>1. PICK f : Passes(D, C, f)
    BY <1>1, PassSteps
  <2>2. f[0] = {} /\ f[N] = M /\ \A n \in 1..N : f[n] = Ln!Pass(D, C, f[n - 1])
    BY <2>1 DEF Passes
  <2>. DEFINE S == {n \in 0..N : \A y \in f[n] : Rests(n, y)}
  <2>. HIDE DEF N, M, D
  <2>3. 0 \in S
    BY <1>1, <2>2
  <2>4. ASSUME NEW n \in 1..N, n - 1 \in S PROVE n \in S
    <3>1. SUFFICES ASSUME NEW y \in f[n] PROVE Rests(n, y)
      BY <1>1
    <3>2. \A z \in f[n - 1] : Rests(n - 1, z)
      BY <2>4
    <3>3. y \in f[n - 1] \/ \E d \in D : d.derived = y /\ d.sources \cap (C \cup f[n - 1]) # {}
      BY <2>2 DEF Ln!Pass
    <3>4. 1..n - 1 \subseteq 1..n /\ 1 \in 1..n /\ \A m \in 1..n - 1 : m + 1 \in 1..n /\ m \in Nat \ {0}
      BY <1>1
    <3>5. CASE y \in f[n - 1]
      <4>1. Rests(n - 1, y)
        <5>. HIDE DEF Rests
        <5>. QED
          BY <3>2, <3>5
      <4>. QED
        BY <3>4, <4>1
    <3>6. CASE \E d \in D : d.derived = y /\ d.sources \cap (C \cup f[n - 1]) # {}
      <4>1. PICK d \in D : d.derived = y /\ d.sources \cap (C \cup f[n - 1]) # {}
        BY <3>6
      <4>2. PICK z \in d.sources : z \in C \/ z \in f[n - 1]
        BY <4>1
      <4>3. CASE z \in C
        <5>1. \E path : Path(D, 1, path, z, y)
          BY <4>1, PathStarts
        <5>. QED
          BY <3>4, <4>3, <5>1
      <4>4. CASE z \in f[n - 1]
        <5>1. Rests(n - 1, z)
          <6>. HIDE DEF Rests
          <6>. QED
            BY <3>2, <4>4
        <5>2. PICK m \in 1..n - 1 : \E old \in C : \E path : Path(D, m, path, old, z)
          BY <5>1
        <5>3. PICK old \in C : \E path : Path(D, m, path, old, z)
          BY <5>2
        <5>4. PICK path : Path(D, m, path, old, z)
          BY <5>3
        <5>5. m \in Nat \ {0} /\ m + 1 \in 1..n
          BY <3>4
        <5>6. \E p : Path(D, m + 1, p, old, y)
          BY <4>1, <5>4, <5>5, PathGrows
        <5>. QED
          BY <5>5, <5>6
      <4>. QED
        BY <4>2, <4>3, <4>4
    <3>. QED
      BY <3>3, <3>5, <3>6
  <2>5. 0..N \subseteq S
    <3>. HIDE DEF S
    <3>. QED
      BY <1>1, <2>3, <2>4, AllAlong
  <2>6. N \in 0..N
    BY <1>1
  <2>7. N \in S /\ x \in f[N]
    BY <2>2, <2>5, <2>6
  <2>. QED
    BY <2>7
<1>5. ASSUME NEW x, Rests(Cardinality(x3), x) PROVE x \in M
  <2>1. PICK n \in 1..Cardinality(x3) : \E old \in C : \E path : Path(D, n, path, old, x)
    BY <1>5
  <2>2. PICK old \in C : \E path : Path(D, n, path, old, x)
    BY <2>1
  <2>3. PICK path : Path(D, n, path, old, x)
    BY <2>2
  <2>4. /\ path \in [1..n -> D] /\ old \in path[1].sources /\ path[n].derived = x
        /\ \A i \in 1..n - 1 : path[i].derived \in path[i + 1].sources
    BY <2>3 DEF Path
  <2>5. \A d \in D : d.sources \cap (C \cup M) # {} => d.derived \in M
    <3>1. Ln!Pass(D, C, M) = M
      BY <1>1, MarkedIsClosed
    <3>. QED
      BY <3>1 DEF Ln!Pass
  <2>. HIDE DEF D, M
  <2>6. n \in Nat \ {0} /\ n - 1 \in Nat
    BY <1>1
  <2>. DEFINE S == {i \in 0..n - 1 : path[i + 1].derived \in M}
  <2>7. 0 \in S
    <3>1. 0 + 1 = 1 /\ 1 \in 1..n /\ 0 \in 0..n - 1
      BY <2>6
    <3>2. path[1] \in D /\ old \in path[1].sources /\ old \in C
      BY <2>2, <2>4, <3>1
    <3>. QED
      BY <2>5, <3>1, <3>2
  <2>8. ASSUME NEW i \in 1..n - 1, i - 1 \in S PROVE i \in S
    <3>1. i \in 0..n - 1 /\ i + 1 \in 1..n /\ (i - 1) + 1 = i
      BY <2>6
    <3>2. path[i].derived \in M /\ path[i].derived \in path[i + 1].sources /\ path[i + 1] \in D
      BY <2>4, <2>8, <3>1
    <3>. QED
      BY <2>5, <3>1, <3>2
  <2>9. 0..n - 1 \subseteq S
    <3>. HIDE DEF S
    <3>. QED
      BY <2>6, <2>7, <2>8, AllAlong
  <2>10. n - 1 \in S /\ (n - 1) + 1 = n
    <3>1. n - 1 \in 0..n - 1 /\ (n - 1) + 1 = n
      BY <2>6
    <3>. QED
      BY <2>9, <3>1
  <2>. QED
    BY <2>4, <2>10
<1>6. \A x : Rests(N, x) => Rests(Cardinality(x3), x)
  <2>1. 1..N \subseteq 1..Cardinality(x3)
    BY <1>1
  <2>. QED
    BY <2>1
<1>. QED
  <2>. HIDE DEF M, Rests
  <2>1. \A x : x \in M <=> (x \in Ln!Ids(scope) /\ \E old \in C : Ln!DerivedFrom(scope, old, x))
    BY <1>2, <1>3, <1>4, <1>5, <1>6
  <2>2. M = {d \in Ln!Ids(scope) : \E old \in C : Ln!DerivedFrom(scope, old, d)}
    BY <2>1
  <2>. QED
    BY <2>2 DEF M

\* What a lineage shows a role, the explorer shows it too.
LEMMA SearchShows ==
  ASSUME Logged, NEW scope, NEW role, Ln!Valid(scope), NEW ids, NEW p \in Ln!Shown(scope, role, ids),
         NEW to \in {r.at : r \in x1}, p.shown.at <= to
  PROVE  p \in Ln!Search(scope, role, [from |-> p.shown.at, to |-> to, classes |-> Ln!Classes])
<1>. DEFINE q == [from |-> p.shown.at, to |-> to, classes |-> Ln!Classes]
<1>1. PICK r \in Ln!In(scope, x1) : p = Ln!Projected(r, role)
  BY DEF Ln!Shown
<1>2. p.shown.at = r.at
  BY <1>1 DEF Ln!Projected
<1>3. r \in x1 /\ r.at \in Nat /\ to \in Nat
  BY <1>1, HubAssumption DEF Logged, Ln!In
<1>4. Ln!RecordsParse /\ r.class \in Ln!Classes
  BY <1>3 DEF Ln!Valid, Ln!RecordsParse, Ln!RecordParses
<1>5. q.from = r.at /\ q.to = to /\ q.classes = Ln!Classes
  BY <1>2
<1>. HIDE DEF q
<1>6. Ln!QueryParses(q) /\ r.at \in q.from..q.to
  BY <1>2, <1>3, <1>5 DEF Ln!QueryParses
<1>7. p \in Ln!Search(scope, role, q)
  BY <1>1, <1>4, <1>5, <1>6 DEF Ln!Search
<1>. QED
  BY <1>7 DEF q

LEMMA LineageIsMarked == Logged => Ln!DerivedIsMarked
<1>1. SUFFICES ASSUME Logged, NEW scope \in Ln!Scopes, NEW role \in Ln!Roles, NEW id \in Ln!Ids(scope),
                      NEW l \in Ln!Lineages(scope, role, id)
               PROVE  /\ id \in l.chain /\ Ln!Next1(scope, id) \subseteq l.chain
                      /\ Ln!Next1(scope, id) # {} => id \in l.superseded
                      /\ l.marked = {d \in Ln!Ids(scope) : \E old \in l.superseded : Ln!DerivedFrom(scope, old, d)}
                      /\ \A x \in l.marked : \E d \in Ln!In(scope, x3) : d.derived = x /\ d.targets \subseteq l.recompute
                      /\ Ln!Cardinality(l.chain \ l.superseded) = 1
                      /\ \A p \in l.shown : \A to \in {r.at : r \in x1} :
                           p.shown.at <= to =>
                             p \in Ln!Search(scope, role, [from |-> p.shown.at, to |-> to, classes |-> Ln!Classes])
  BY DEF Ln!DerivedIsMarked
<1>2. Ln!Valid(scope)
  BY <1>1 DEF Ln!Lineages
<1>3. PICK root \in Ln!Roots(scope, id) : \E deps \in Ln!Marking(scope, Ln!Corrected(scope, root)) :
        l = [chain |-> Ln!Chain(scope, root), shown |-> Ln!Shown(scope, role, Ln!Chain(scope, root)),
             superseded |-> Ln!Corrected(scope, root), marked |-> {d.derived : d \in deps},
             recompute |-> Ln!ToRecompute(deps)]
  BY <1>1, <1>2 DEF Ln!Lineages
<1>. DEFINE C == Ln!Corrected(scope, root)
            D == Ln!In(scope, x3)
<1>4. PICK deps \in Ln!Marking(scope, C) :
        l = [chain |-> Ln!Chain(scope, root), shown |-> Ln!Shown(scope, role, Ln!Chain(scope, root)),
             superseded |-> C, marked |-> {d.derived : d \in deps},
             recompute |-> Ln!ToRecompute(deps)]
  BY <1>3
<1>5. /\ l.chain = Ln!Chain(scope, root) /\ l.shown = Ln!Shown(scope, role, Ln!Chain(scope, root))
      /\ l.superseded = C /\ l.marked = {d.derived : d \in deps} /\ l.recompute = Ln!ToRecompute(deps)
  BY <1>4
<1>6. deps \subseteq D /\ {d.derived : d \in deps} = Ln!Marked(D, C)
  BY <1>4 DEF Ln!Marking
<1>. HIDE DEF C
<1>7. root \in Ln!Ids(scope) /\ \E n \in 0..Size(scope) : id \in Ln!Follow(scope, root)[n]
  BY <1>1, <1>2, RootsLead
<1>8. id \in l.chain /\ Ln!Next1(scope, id) \subseteq l.chain
  <2>. DEFINE f == Ln!Follow(scope, root)
              N == Size(scope)
  <2>1. PICK n \in 0..N : id \in f[n]
    BY <1>7
  <2>2. N \in Nat /\ f[N] = {}
    BY <1>1, <1>2, <1>7, LogFacts DEF Ln!Valid, Ln!Acyclic, Size
  <2>3. \A m \in 1..N : f[m] = UNION {Ln!Next1(scope, x) : x \in f[m - 1]}
    BY <1>1, <1>2, <1>7, FollowSteps
  <2>4. Ln!Chain(scope, root) = UNION {f[m] : m \in 0..N}
    BY DEF Ln!Chain, Size
  <2>. HIDE DEF f, N
  <2>5. n + 1 \in 1..N /\ n + 1 \in 0..N /\ (n + 1) - 1 = n
    BY <2>1, <2>2
  <2>6. f[n + 1] = UNION {Ln!Next1(scope, x) : x \in f[n]}
    BY <2>3, <2>5
  <2>7. Ln!Next1(scope, id) \subseteq f[n + 1]
    BY <2>1, <2>6
  <2>. QED
    BY <1>5, <2>1, <2>4, <2>5, <2>7
<1>9. Ln!Next1(scope, id) # {} => id \in l.superseded
  BY <1>5, <1>8 DEF C, Ln!Corrected
<1>10. l.marked = {d \in Ln!Ids(scope) : \E old \in l.superseded : Ln!DerivedFrom(scope, old, d)}
  BY <1>1, <1>2, <1>5, <1>6, MarkedIsDerived
<1>11. \A x \in l.marked : \E d \in D : d.derived = x /\ d.targets \subseteq l.recompute
  BY <1>5, <1>6 DEF Ln!ToRecompute
<1>12. Ln!Cardinality(l.chain \ l.superseded) = 1
  BY <1>1, <1>2, <1>5, <1>7, ChainEnds, LineageCounts DEF C
<1>13. \A p \in l.shown : \A to \in {r.at : r \in x1} :
         p.shown.at <= to =>
           p \in Ln!Search(scope, role, [from |-> p.shown.at, to |-> to, classes |-> Ln!Classes])
  BY <1>1, <1>2, <1>5, SearchShows
<1>. QED
  BY <1>8, <1>9, <1>10, <1>11, <1>12, <1>13

LEMMA LoggedStep ==
  ASSUME Logged, Ln!Next \/ UNCHANGED <<x1, x2, x3>>
  PROVE  Logged'
<1>1. ASSUME NEW r \in LineageRecords, Ln!Record(r) PROVE Logged'
  BY <1>1, FS_AddElement DEF Ln!Record, Logged
<1>2. ASSUME NEW c \in LineageCorrections, Ln!Correct(c) PROVE Logged'
  BY <1>2, FS_AddElement DEF Ln!Correct, Logged
<1>3. ASSUME NEW d \in LineageDependencies, Ln!Depend(d) PROVE Logged'
  BY <1>3, FS_AddElement DEF Ln!Depend, Logged
<1>4. CASE UNCHANGED <<x1, x2, x3>>
  BY <1>4 DEF Logged
<1>. QED
  BY <1>1, <1>2, <1>3, <1>4 DEF Ln!Next

\* Evidence lineage: of every log that is finite and valid, and however it was appended,
\* each lineage leads from a root over the evidence asked for to one end; it marks what
\* rests on superseded evidence over a path of dependencies, of any length, and nothing
\* else; and the explorer shows the same records.
THEOREM LineagesStayMarked == HubSpec => []DerivedIsMarked
<1>. DEFINE Inv == moving = "lineage" => Logged
<1>1. HubInit => Inv
  BY FS_EmptySet DEF HubInit, Ln!Init, Logged
<1>2. Inv /\ [HubNext]_hubVars => Inv'
  <2>1. SUFFICES ASSUME moving = "lineage" => Logged, moving = "lineage", moving' = "lineage",
                        Ln!Next \/ UNCHANGED <<x1, x2, x3>>
                 PROVE  Logged'
    BY DEF HubNext, hubVars
  <2>. QED
    BY <2>1, LoggedStep
<1>3. Inv => DerivedIsMarked
  BY LineageIsMarked DEF DerivedIsMarked
<1>. HIDE DEF Inv
<1>. QED
  BY <1>1, <1>2, <1>3, PTL DEF HubSpec

-----------------------------------------------------------------------------
\* The types of these parts.  PilotEvidence: what a gate is published as is a state of
\* its schema, whatever was observed of it.
PilotTyped == Pi!TypeOK /\ IsFiniteSet(x1)

LEMMA GateParses ==
  ASSUME Pi!StageAllows, NEW gate \in PilotGates
  PROVE  Pi!AssessmentParses(Pi!Assessment(gate))
<1>1. \E status \in Pi!Statuses, basis \in Pi!Bases : Pi!FromEvidence(gate) = Pi!Assessed(status, basis)
  <2>1. CASE Pi!Seen(gate) = {} /\ ~Pi!Collected(gate)
    BY <2>1 DEF Pi!FromEvidence, Pi!Statuses, Pi!Bases
  <2>2. CASE Pi!Seen(gate) = {} /\ Pi!Collected(gate)
    BY <2>2 DEF Pi!FromEvidence, Pi!Statuses, Pi!Bases
  <2>3. CASE Pi!Seen(gate) \notin {{}, PilotTargets[gate]}
    BY <2>3 DEF Pi!FromEvidence, Pi!Statuses, Pi!Bases
  <2>4. CASE Pi!Seen(gate) # {} /\ Pi!Seen(gate) = PilotTargets[gate]
    BY <2>4 DEF Pi!FromEvidence, Pi!Statuses, Pi!Bases
  <2>. QED
    BY <2>1, <2>2, <2>3, <2>4
<1>. QED
  BY <1>1, Undecided DEF Pi!AssessmentParses, Pi!Assessed

LEMMA PilotTypes ==
  ASSUME PilotTyped, Pi!Next \/ UNCHANGED <<x1, x2, x3, x4, x5, x6, x7>>
  PROVE  PilotTyped'
<1>1. /\ x1 \subseteq PilotObservable /\ Cardinality(x1) \in Nat /\ Cardinality(x1) <= PilotObservations
      /\ IsFiniteSet(x1) /\ PilotObservations \in Nat /\ PilotDecidable \subseteq Pi!DecisionKinds
  BY PilotCounts, FS_CardinalityType, HubAssumption DEF PilotTyped, Pi!TypeOK
<1>. USE DEF PilotTyped, Pi!TypeOK
<1>2. CASE Pi!Observe /\ UNCHANGED <<x2, x3, x4, x5, x7>>
  <2>1. PICK o \in PilotObservable : x1' = x1 \cup {o}
    BY <1>2 DEF Pi!Observe
  <2>2. Cardinality(x1) < PilotObservations
    BY <1>2, PilotCounts DEF Pi!Observe
  <2>3. IsFiniteSet(x1') /\ (Cardinality(x1') = Cardinality(x1) \/ Cardinality(x1') = Cardinality(x1) + 1)
    <3>1. CASE o \in x1
      <4>1. x1' = x1
        BY <2>1, <3>1
      <4>. QED
        BY <1>1, <4>1
    <3>2. CASE o \notin x1
      BY <1>1, <2>1, <3>2, FS_AddElement
    <3>. QED
      BY <3>1, <3>2
  <2>4. IsFiniteSet(x1') /\ Cardinality(x1') <= PilotObservations
    BY <1>1, <2>2, <2>3
  <2>. QED
    BY <1>1, <1>2, <2>1, <2>4, PilotCounts
<1>3. CASE Pi!Withdraw /\ UNCHANGED <<x2, x3, x4, x5, x7>>
  <2>1. PICK o \in x1 : x1' = x1 \ {o}
    BY <1>3 DEF Pi!Withdraw
  <2>2. IsFiniteSet(x1') /\ Cardinality(x1') = Cardinality(x1) - 1
    BY <1>1, <2>1, FS_RemoveElement
  <2>3. Cardinality(x1') <= PilotObservations
    BY <1>1, <2>2
  <2>. QED
    BY <1>1, <1>3, <2>1, <2>2, <2>3, PilotCounts
<1>4. CASE Pi!Publish /\ UNCHANGED <<x1, x2, x3, x4, x5>>
  <2>. DEFINE m == [of |-> x1, assessments |-> [gate \in PilotGates |-> Pi!Assessment(gate)]]
  <2>1. x7' = x7 \cup {m}
    BY <1>4 DEF Pi!Publish
  <2>2. Pi!ReadModelParses(m)
    BY <1>4, GateParses DEF Pi!ReadModelParses, Pi!Publish
  <2>. HIDE DEF m
  <2>. QED
    BY <1>4, <2>1, <2>2
<1>5. CASE Pi!Attach /\ UNCHANGED <<x1, x3, x4, x5, x7>>
  BY <1>5 DEF Pi!Attach
<1>6. ASSUME NEW gate \in PilotGates, Pi!Decide(gate), UNCHANGED <<x1, x2, x4, x5, x7>> PROVE PilotTyped'
  BY <1>1, <1>6 DEF Pi!Decide
<1>7. ASSUME NEW gate \in PilotGates, Pi!Review(gate), UNCHANGED <<x1, x2, x3, x5, x7>> PROVE PilotTyped'
  BY <1>7 DEF Pi!Review
<1>8. CASE Pi!DecideScale /\ UNCHANGED <<x1, x2, x3, x4, x7>>
  BY <1>8 DEF Pi!DecideScale
<1>9. CASE UNCHANGED <<x1, x2, x3, x4, x5, x6, x7>>
  BY <1>9
<1>. QED
  BY <1>2, <1>3, <1>4, <1>5, <1>6, <1>7, <1>8, <1>9 DEF Pi!Next

LEMMA InitPilotTyped == Pi!Init => PilotTyped
<1>. SUFFICES ASSUME Pi!Init PROVE PilotTyped
  OBVIOUS
<1>1. x1 = {} /\ IsFiniteSet(x1) /\ Pi!Cardinality(x1) = 0 /\ PilotObservations \in Nat
  BY FS_EmptySet, PilotCounts, HubAssumption DEF Pi!Init
<1>2. Pi!Cardinality(x1) <= PilotObservations
  BY <1>1
<1>. QED
  BY <1>1, <1>2 DEF Pi!Init, PilotTyped, Pi!TypeOK

\* HubLiquidity: confidence is a percentage, for what a source is trusted is one.
LEMMA SnapshotTyped ==
  ASSUME NEW o \in LiquidityReports, NEW at
  PROVE  Li!Snapshot(o, at) \in Li!Snapshots
<1>1. o.trust \in Nat /\ o.trust <= 100
  BY HubAssumption
<1>2. Li!Penalty(Li!Freshness(at - o.at)) \in Nat
  BY DEF Li!Penalty
<1>3. Li!Confidence(o, at) \in 0..100
  BY <1>1, <1>2 DEF Li!Confidence
<1>4. Li!Band(Li!Confidence(o, at)) \in Li!Bands
  <2>. DEFINE c == Li!Confidence(o, at)
  <2>1. c \in 0..100
    BY <1>3
  <2>. HIDE DEF c
  <2>2. Li!Band(c) \in Li!Bands
    BY <2>1 DEF Li!Band, Li!Bands
  <2>. QED
    BY <2>2 DEF c
<1>5. \A h : Li!Balance(o, h) \in Li!Balances /\ Li!Recommendation(o, h, at) \in Li!Recommendations
  BY DEF Li!Balance, Li!Balances, Li!Recommendation, Li!Recommendations
<1>. QED
  BY <1>3, <1>4, <1>5 DEF Li!Snapshot, Li!Snapshots, Li!HorizonResults

LEMMA LiquidityTypes ==
  ASSUME Li!TypeOK, Li!Next \/ UNCHANGED <<x1, x2, x3>>
  PROVE  Li!TypeOK'
<1>. USE DEF Li!TypeOK
<1>1. LiquidityTimes \subseteq Nat
  BY HubAssumption
<1>2. ASSUME NEW o \in LiquidityReports, Li!Report(o) PROVE Li!TypeOK'
  BY <1>2 DEF Li!Report
<1>3. ASSUME NEW scope \in Li!Scopes, Li!Build(scope) PROVE Li!TypeOK'
  <2>. DEFINE made == IF Li!Accepts(scope) THEN {Li!Snapshot(o, x1) : o \in Li!Scoped(scope)} ELSE {}
  <2>1. UNCHANGED <<x1, x2>> /\ x3' = x3 \cup {[scope |-> scope, at |-> x1, snapshots |-> made]}
    BY <1>3 DEF Li!Build
  <2>2. made \subseteq Li!Snapshots
    BY SnapshotTyped DEF Li!Scoped
  <2>3. [scope |-> scope, at |-> x1, snapshots |-> made] \in Li!Series
    BY <2>2 DEF Li!Series
  <2>. HIDE DEF made
  <2>. QED
    BY <1>1, <2>1, <2>3
<1>4. CASE Li!Tick
  <2>1. x1' \in LiquidityTimes /\ x1 < x1' /\ UNCHANGED <<x2, x3>>
    BY <1>4 DEF Li!Tick
  <2>2. \A a \in x3 : a.at \in Nat /\ a.at <= x1
    BY <1>1 DEF Li!Series
  <2>3. \A a \in x3 : a.at <= x1'
    BY <1>1, <2>1, <2>2
  <2>. QED
    BY <2>1, <2>3
<1>5. CASE UNCHANGED <<x1, x2, x3>>
  BY <1>5
<1>. QED
  BY <1>2, <1>3, <1>4, <1>5 DEF Li!Next

\* HubAccess: the answer is one, and every version of a hub is of its schema.
LEMMA AccessCounts == \A S : Ac!Cardinality(S) = Cardinality(S)
  BY DEF Ac!Cardinality, Cardinality

LEMMA AccessTypes ==
  ASSUME Ac!TypeOK, Ac!Next \/ UNCHANGED <<x1, x2, x3, x4>>
  PROVE  Ac!TypeOK'
<1>. USE DEF Ac!TypeOK
<1>0. Ac!Cardinality({}) = 0 /\ \A a : Ac!Cardinality({a}) = 1
  BY FS_EmptySet, FS_Singleton, AccessCounts
<1>1. /\ Ac!Cardinality({}) <= 1 /\ \A a : Ac!Cardinality({a}) <= 1
      /\ AccessDeployments \in Nat /\ \A record \in AccessRecords : Ac!HubParses(record)
  <2>1. Ac!Cardinality({}) <= 1
    BY <1>0
  <2>2. ASSUME NEW a PROVE Ac!Cardinality({a}) <= 1
    <3>1. Ac!Cardinality({a}) = 1
      BY <1>0
    <3>. QED
      BY <3>1
  <2>. QED
    BY <2>1, <2>2, HubAssumption
<1>2. CASE Ac!StartSession
  BY <1>2 DEF Ac!StartSession
<1>3. CASE Ac!EndSession
  BY <1>3 DEF Ac!EndSession
<1>4. CASE Ac!Deploy
  <2>1. x1' \in [AccessHubs -> AccessRecords] /\ x2' = x2 /\ x3' = x3 + 1 /\ x3 < AccessDeployments /\ x4' = {}
    BY <1>4 DEF Ac!Deploy
  <2>. QED
    BY <1>1, <2>1
<1>5. ASSUME NEW s, NEW route, NEW hub, NEW purpose,
             Ac!Read(s, route, hub, purpose) \/ Ac!Refuse(s, route, hub, purpose)
      PROVE  Ac!TypeOK'
  <2>1. UNCHANGED <<x1, x2, x3>> /\ Ac!Cardinality(x4') <= 1
    BY <1>1, <1>5 DEF Ac!Read, Ac!Refuse
  <2>. QED
    BY <2>1
<1>6. CASE UNCHANGED <<x1, x2, x3, x4>>
  BY <1>6
<1>. QED
  BY <1>2, <1>3, <1>4, <1>5, <1>6 DEF Ac!Next

LEMMA InitAccess == Ac!Init => Ac!TypeOK
<1>. SUFFICES ASSUME Ac!Init PROVE Ac!TypeOK
  OBVIOUS
<1>1. /\ Ac!Cardinality({}) <= 1 /\ AccessDeployments \in Nat
      /\ \A record \in AccessRecords : Ac!HubParses(record)
  BY FS_EmptySet, AccessCounts, HubAssumption
<1>2. x3 \in 0..AccessDeployments
  BY <1>1 DEF Ac!Init
<1>. QED
  BY <1>1, <1>2 DEF Ac!Init, Ac!TypeOK

\* NeutralityGovernance: only partners are flagged, and a read model that is made of
\* a plan with something of each kind is of its schema.
PolicyTyped == Ne!TypeOK /\ DOMAIN x5 \subseteq PolicyPartners

LEMMA OfferParses ==
  ASSUME NEW o \in PolicyOffers
  PROVE  Ne!ParticipantParses(Ne!ParticipantFromReference(o))
<1>1. {o.registered, o.supports} \subseteq BOOLEAN
  BY HubAssumption
<1>. DEFINE eligible == PolicyRegion \in o.regions \cap o.contract /\ \E g \in o.grant : PolicyRegion \in g.regions
            authorized == \E g \in o.grant : g.route
            bound == o.binding = "ENABLED_SYNTHETIC"
<1>2. eligible \in BOOLEAN /\ authorized \in BOOLEAN /\ bound \in BOOLEAN
  OBVIOUS
<1>3. LET p == Ne!ParticipantFromReference(o)
      IN p.eligible = eligible /\ p.authorized = authorized /\ p.bound = bound
           /\ p.registered = o.registered /\ p.supports = o.supports
  BY DEF Ne!ParticipantFromReference
<1>. HIDE DEF eligible, authorized, bound
<1>. QED
  BY <1>1, <1>2, <1>3 DEF Ne!ParticipantParses

LEMMA CheckParses == \A check \in Ne!Checks : Ne!CheckParses(check)
<1>. SUFFICES ASSUME NEW check \in Ne!Checks PROVE Ne!CheckParses(check)
  OBVIOUS
<1>1. PICK l, r : check.codes = Ne!Differences(l, r) /\ check.result = Ne!Result(Ne!Differences(l, r))
  BY DEF Ne!Checks
<1>2. Ne!Differences(l, r) \subseteq Ne!DifferenceCodes
  BY DEF Ne!Differences, Ne!DifferenceCodes
<1>3. Ne!Result(Ne!Differences(l, r)) \in Ne!Results
  BY DEF Ne!Result, Ne!Results
<1>. QED
  BY <1>1, <1>2, <1>3 DEF Ne!CheckParses

LEMMA PublishedParses ==
  ASSUME PolicyTyped, Ne!Publish
  PROVE  \A m \in x7' : Ne!ReadModelParses(m)
<1>. DEFINE m == [version |-> x1, changes |-> x3, checks |-> Ne!Checks, offer |-> x4,
                  flags |-> x5, decisions |-> x6, state |-> Ne!NeutralityState]
<1>1. x7' = x7 \cup {m} /\ Ne!Comparisons # {}
  BY DEF Ne!Publish, Ne!PlanParses
<1>2. m.changes = x3 /\ m.checks = Ne!Checks /\ m.flags = x5 /\ m.decisions = x6 /\ m.state = Ne!NeutralityState
  OBVIOUS
<1>. HIDE DEF m
<1>3. Ne!NeutralityState \in Ne!NeutralityStates
  <2>1. CASE Ne!EvidenceIncomplete
    BY <2>1 DEF Ne!NeutralityState, Ne!NeutralityStates
  <2>2. CASE ~Ne!EvidenceIncomplete /\ Ne!ReviewRequired
    BY <2>2 DEF Ne!NeutralityState, Ne!NeutralityStates
  <2>3. CASE ~Ne!EvidenceIncomplete /\ ~Ne!ReviewRequired
    BY <2>3 DEF Ne!NeutralityState, Ne!NeutralityStates
  <2>. QED
    BY <2>1, <2>2, <2>3
<1>4. Ne!Checks # {}
  BY <1>1, ComparisonsChecked
<1>5. Ne!ReadModelParses(m)
  BY <1>2, <1>3, <1>4, CheckParses DEF Ne!ReadModelParses, PolicyTyped, Ne!TypeOK
<1>. QED
  BY <1>1, <1>5 DEF PolicyTyped, Ne!TypeOK

LEMMA PublishedDecision == Ne!DecisionParses(Ne!Published)
<1>1. PolicyVersions \in Nat \ {0}
  BY HubAssumption
<1>. QED
  BY <1>1 DEF Ne!DecisionParses, Ne!Published, Ne!Outcomes, Ne!Refs

LEMMA PolicyTypes ==
  ASSUME PolicyTyped, Ne!Next \/ UNCHANGED <<x1, x2, x3, x4, x5, x6, x7>>
  PROVE  PolicyTyped'
<1>1. PolicyVersions \in Nat \ {0} /\ x1 \in 1..PolicyVersions
  BY HubAssumption DEF PolicyTyped, Ne!TypeOK
<1>. USE DEF PolicyTyped, Ne!TypeOK
<1>2. CASE Ne!NewVersion /\ UNCHANGED <<x3, x4, x5, x6, x7>>
  <2>1. /\ x1 < PolicyVersions /\ x1' = x1 + 1
        /\ x2' \in {[key \in Ne!RuleKeys |-> x1 + 1]}
             \cup {[[key \in Ne!RuleKeys |-> x1 + 1] EXCEPT ![k] = x1] : k \in PolicyForgettable}
    BY <1>2 DEF Ne!NewVersion
  <2>2. x1' \in 1..PolicyVersions
    BY <1>1, <2>1
  <2>3. DOMAIN x2' = Ne!RuleKeys /\ \A key \in Ne!RuleKeys : x2'[key] \in {x1, x1'}
    BY <2>1
  <2>4. Ne!PolicyParses'
    BY <1>1, <2>2, <2>3 DEF Ne!PolicyParses
  <2>. QED
    BY <1>2, <2>2, <2>4
<1>3. CASE Ne!ReviseRules /\ UNCHANGED <<x1, x3, x4, x5, x6, x7>>
  <2>1. Ne!PolicyParses'
    BY <1>1, <1>3 DEF Ne!PolicyParses, Ne!ReviseRules
  <2>. QED
    BY <1>3, <2>1
<1>4. CASE (Ne!RecordChange \/ Ne!LoseChange) /\ UNCHANGED <<x1, x2, x4, x5, x6, x7>>
  <2>1. \A c \in x3' : Ne!ChangeParses(c)
    BY <1>4 DEF Ne!RecordChange, Ne!LoseChange
  <2>. QED
    BY <1>4, <2>1 DEF Ne!PolicyParses
<1>5. ASSUME NEW p \in PolicyPartners, Ne!Flag(p), UNCHANGED <<x1, x2, x3, x4, x6, x7>> PROVE PolicyTyped'
  <2>1. DOMAIN x5' \subseteq PolicyPartners
    BY <1>5 DEF Ne!Flag
  <2>. QED
    BY <1>5, <2>1 DEF Ne!PolicyParses
<1>6. CASE Ne!Decide /\ UNCHANGED <<x1, x2, x3, x4, x5, x7>>
  <2>1. \A d \in x6' : Ne!DecisionParses(d)
    BY <1>6, PublishedDecision DEF Ne!Decide, Ne!DecisionParses
  <2>. QED
    BY <1>6, <2>1 DEF Ne!PolicyParses
<1>7. CASE Ne!Publish /\ UNCHANGED <<x1, x2, x3, x4, x5, x6>>
  BY <1>7, PublishedParses DEF Ne!PolicyParses
<1>8. CASE UNCHANGED <<x1, x2, x3, x4, x5, x6, x7>>
  BY <1>8 DEF Ne!PolicyParses
<1>. QED
  BY <1>2, <1>3, <1>4, <1>5, <1>6, <1>7, <1>8 DEF Ne!Next

LEMMA InitPolicyTyped == Ne!Init => PolicyTyped
<1>. SUFFICES ASSUME Ne!Init PROVE PolicyTyped
  OBVIOUS
<1>1. PolicyVersions \in Nat \ {0}
  BY HubAssumption
<1>2. x1 = 1 /\ x2 = [key \in Ne!RuleKeys |-> 1] /\ DOMAIN x5 = PolicyPartners
  BY DEF Ne!Init
<1>3. Ne!PolicyParses /\ x1 \in 1..PolicyVersions
  BY <1>1, <1>2 DEF Ne!PolicyParses
<1>4. \A c \in x3 : Ne!ChangeParses(c)
  BY <1>1 DEF Ne!Init, Ne!ChangeParses
<1>5. \A d \in x6 : Ne!DecisionParses(d)
  BY PublishedDecision DEF Ne!Init
<1>6. x4 \in [PolicyPartners -> PolicyOffers] /\ x7 = {}
  BY DEF Ne!Init
<1>. QED
  BY <1>2, <1>3, <1>4, <1>5, <1>6, OfferParses DEF PolicyTyped, Ne!TypeOK

\* OperatorReadiness: certificates are of days within the window of a day that can
\* come, and what is published of operators and devices is of its schema.
StaffTyped == Op!TypeOK /\ x1 \in 0..StaffTime /\ IsFiniteSet(x8)

LEMMA OperatorParses ==
  ASSUME NEW p, NEW o, p.authorized[o] \subseteq StaffDevices
  PROVE  Op!ProjectOperator(p, o) \in Op!OperatorProjections
<1>1. Op!Training(p, o) \in {"NOT_STARTED", "PARTIAL", "COMPLETE"}
  BY DEF Op!Training
<1>2. Op!Certification(p, o) \in {"NOT_CERTIFIED", "CURRENT", "EXPIRING_SOON", "EXPIRED"}
  BY DEF Op!Certification
<1>3. Op!Refresher(p, o) \in {"NOT_REQUIRED", "DUE_SOON", "REQUIRED"}
  BY DEF Op!Refresher
<1>4. Op!Operational(p, o) \in
        {"READY_SYNTHETIC", "TRAINING_REQUIRED", "REFRESHER_REQUIRED", "SUSPENDED_REVIEW_REQUIRED"}
  BY DEF Op!Operational
<1>. QED
  BY <1>1, <1>2, <1>3, <1>4 DEF Op!ProjectOperator, Op!OperatorProjections

LEMMA DeviceParses ==
  ASSUME NEW p, NEW d, p.reported[d] \subseteq Op!DeviceReports
  PROVE  Op!ProjectDevice(p, d) \subseteq Op!DeviceProjections
<1>1. Op!DeviceState(p, d) \in {"READY_SYNTHETIC", "NEEDS_REVIEW", "OUT_OF_SERVICE"}
  BY DEF Op!DeviceState
<1>2. \A r \in p.reported[d] : r.visibility \in Op!Visibilities
  BY DEF Op!DeviceReports
<1>. QED
  BY <1>1, <1>2 DEF Op!ProjectDevice, Op!DeviceProjections

LEMMA ReadinessParses ==
  ASSUME StaffTyped
  PROVE  Op!ReadModelParses(
           [plan |-> Op!Plan, overall |-> Op!Overall(Op!Plan),
            operators |-> [q \in StaffOperators |-> Op!ProjectOperator(Op!Plan, q)],
            devices |-> [d \in StaffDevices |-> Op!ProjectDevice(Op!Plan, d)],
            reviews |-> [q \in StaffOperators |-> Op!Review(Op!Plan, q)]])
<1>. DEFINE p == Op!Plan
<1>1. p.authorized = x5 /\ p.reported = x6
  BY DEF Op!Plan
<1>2. \A o \in StaffOperators : p.authorized[o] \subseteq StaffDevices
  BY <1>1 DEF StaffTyped, Op!TypeOK
<1>3. \A d \in StaffDevices : p.reported[d] \subseteq Op!DeviceReports
  BY <1>1 DEF StaffTyped, Op!TypeOK
<1>. HIDE DEF p
<1>4. [q \in StaffOperators |-> Op!ProjectOperator(p, q)] \in [StaffOperators -> Op!OperatorProjections]
  BY <1>2, OperatorParses
<1>5. \A d \in StaffDevices : [e \in StaffDevices |-> Op!ProjectDevice(p, e)][d] \subseteq Op!DeviceProjections
  BY <1>3, DeviceParses
<1>6. \A o : Op!Review(p, o) \in Op!ReviewStates
  BY DEF Op!Review, Op!ReviewStates
<1>7. Op!Overall(p) \in {"READY_SYNTHETIC", "REVIEW_REQUIRED", "BLOCKED"}
  BY DEF Op!Overall
<1>8. Op!ReadModelParses(
        [plan |-> p, overall |-> Op!Overall(p),
         operators |-> [q \in StaffOperators |-> Op!ProjectOperator(p, q)],
         devices |-> [d \in StaffDevices |-> Op!ProjectDevice(p, d)],
         reviews |-> [q \in StaffOperators |-> Op!Review(p, q)]])
  BY <1>4, <1>5, <1>6, <1>7 DEF Op!ReadModelParses
<1>. QED
  BY <1>8 DEF p

LEMMA StaffTypes ==
  ASSUME StaffTyped, Op!Next \/ UNCHANGED <<x1, x2, x3, x4, x5, x6, x7, x8>>
  PROVE  StaffTyped'
<1>1. StaffTime \in Nat /\ StaffWindow \in Nat /\ StaffModels \in Nat /\ StaffReports \subseteq Op!DeviceReports
  BY HubAssumption
<1>2. Cardinality(x8) \in Nat /\ IsFiniteSet(x8)
  BY FS_CardinalityType DEF StaffTyped
<1>. USE DEF StaffTyped, Op!TypeOK
<1>3. ASSUME NEW o \in StaffOperators, Op!Train(o), UNCHANGED <<x1, x4, x5, x6, x7, x8>> PROVE StaffTyped'
  <2>. DEFINE Days == {{}} \cup {{e} : e \in 0..(StaffTime + StaffWindow + 1)}
  <2>1. x1 + 1 \in 0..(StaffTime + StaffWindow + 1) /\ x1 + StaffWindow + 1 \in 0..(StaffTime + StaffWindow + 1)
    BY <1>1
  <2>2. {x1 + 1} \in Days /\ {x1 + StaffWindow + 1} \in Days
    BY <2>1
  <2>3. x3 \in [StaffOperators -> Days]
    OBVIOUS
  <2>. HIDE DEF Days
  <2>4. x3' \in [StaffOperators -> Days] /\ x2' \in [StaffOperators -> SUBSET StaffModules]
    <3>1. CASE \E m \in StaffModules : x2' = [x2 EXCEPT ![o] = @ \cup {m}] /\ UNCHANGED x3
      BY <3>1, <2>3
    <3>2. CASE \E e \in {x1 + 1, x1 + StaffWindow + 1} : x3' = [x3 EXCEPT ![o] = {e}] /\ UNCHANGED x2
      BY <3>2, <2>2, <2>3
    <3>. QED
      BY <1>3, <3>1, <3>2 DEF Op!Train
  <2>. QED
    BY <1>3, <2>4 DEF Days
<1>4. ASSUME NEW o \in StaffOperators, Op!Operate(o), UNCHANGED <<x1, x2, x3, x6, x7, x8>> PROVE StaffTyped'
  <2>1. x4' \subseteq StaffOperators /\ x5' \in [StaffOperators -> SUBSET StaffDevices]
    BY <1>4 DEF Op!Operate
  <2>. QED
    BY <1>4, <2>1
<1>5. ASSUME NEW d \in StaffDevices, Op!ReportDevice(d), UNCHANGED <<x1, x2, x3, x4, x5, x7, x8>> PROVE StaffTyped'
  <2>1. x6' \in [StaffDevices -> {{}} \cup {{r} : r \in StaffReports}]
    BY <1>5 DEF Op!ReportDevice
  <2>. QED
    BY <1>5, <2>1
<1>6. CASE Op!Escalate /\ UNCHANGED <<x1, x2, x3, x4, x5, x6, x8>>
  BY <1>6
<1>7. CASE Op!Publish /\ UNCHANGED <<x1, x2, x3, x4, x5, x6, x7>>
  <2>. DEFINE m == [plan |-> Op!Plan, overall |-> Op!Overall(Op!Plan),
                    operators |-> [q \in StaffOperators |-> Op!ProjectOperator(Op!Plan, q)],
                    devices |-> [d \in StaffDevices |-> Op!ProjectDevice(Op!Plan, d)],
                    reviews |-> [q \in StaffOperators |-> Op!Review(Op!Plan, q)]]
  <2>1. x8' = x8 \cup {m} /\ Cardinality(x8) < StaffModels
    BY <1>7, StaffCounts DEF Op!Publish
  <2>2. Op!ReadModelParses(m)
    BY ReadinessParses
  <2>. HIDE DEF m
  <2>3. IsFiniteSet(x8') /\ (Cardinality(x8') = Cardinality(x8) \/ Cardinality(x8') = Cardinality(x8) + 1)
    <3>1. CASE m \in x8
      <4>1. x8' = x8
        BY <2>1, <3>1
      <4>. QED
        BY <1>2, <4>1
    <3>2. CASE m \notin x8
      BY <1>2, <2>1, <3>2, FS_AddElement
    <3>. QED
      BY <3>1, <3>2
  <2>4. Cardinality(x8') <= StaffModels
    BY <1>1, <1>2, <2>1, <2>3
  <2>5. Op!Cardinality(x8') <= StaffModels
    BY <2>4, StaffCounts
  <2>6. \A n \in x8' : Op!ReadModelParses(n)
    BY <2>1, <2>2
  <2>. QED
    BY <1>7, <2>3, <2>5, <2>6
<1>8. CASE Op!Advance /\ UNCHANGED <<x2, x3, x4, x5, x6, x7, x8>>
  <2>1. x1' \in 0..StaffTime
    BY <1>1, <1>8 DEF Op!Advance
  <2>. QED
    BY <1>8, <2>1
<1>9. CASE UNCHANGED <<x1, x2, x3, x4, x5, x6, x7, x8>>
  BY <1>9
<1>. QED
  BY <1>3, <1>4, <1>5, <1>6, <1>7, <1>8, <1>9 DEF Op!Next

LEMMA InitStaffTyped == Op!Init => StaffTyped
<1>. SUFFICES ASSUME Op!Init PROVE StaffTyped
  OBVIOUS
<1>1. x8 = {} /\ IsFiniteSet(x8) /\ Op!Cardinality(x8) = 0
  BY FS_EmptySet, StaffCounts DEF Op!Init
<1>2. StaffModels \in Nat /\ StaffTime \in Nat /\ StaffReports \subseteq Op!DeviceReports
  BY HubAssumption
<1>3. Op!Cardinality(x8) <= StaffModels /\ 0 \in 0..StaffTime
  BY <1>1, <1>2
<1>. QED
  BY <1>1, <1>2, <1>3 DEF Op!Init, StaffTyped, Op!TypeOK

\* HubServices: a decision has a code of the schema, and what is not configured is
\* refused for that, whatever else would refuse it.
LEMMA LeastOfAll ==
  ASSUME NEW S, S \subseteq Nat \ {0}, S # {}
  PROVE  Se!Min(S) \in S /\ \A i \in S : Se!Min(S) <= i
<1>1. S \subseteq Nat
  OBVIOUS
<1>2. \E i \in S : \A j \in S : i <= j
  BY <1>1, Tr!LeastElement
<1>. QED
  BY <1>2 DEF Se!Min

LEMMA RefusalsAreCoded ==
  ASSUME NEW p, NEW role, NEW hub, NEW service
  PROVE  /\ Se!Refusals(p, role, hub, service) \in Seq(Refusal)
         /\ Len(Se!Refusals(p, role, hub, service)) \in Nat \ {0}
         /\ Se!Refusals(p, role, hub, service)[1] = Se!HubRefusals(hub, service)[1]
<1>. DEFINE denied == \E d \in Se!CapabilityDecisions(p, hub, service) : ~d.allowed
            denial == << [code |-> "CAPABILITY_DENIED", holds |-> denied] >>
            first == Se!HubRefusals(hub, service)
            scopes == Se!ScopeRefusals(p, role, hub, service)
            route == Se!RouteRefusals(service)
<1>1. denial \in Seq(Refusal)
  <2>1. denied \in BOOLEAN
    OBVIOUS
  <2>. HIDE DEF denied
  <2>. QED
    BY <2>1 DEF Refusal, Se!Codes
<1>2. Se!Refusals(p, role, hub, service) = ((first \o scopes) \o route) \o denial
  BY DEF Se!Refusals
<1>3. first \in Seq(Refusal) /\ scopes \in Seq(Refusal) /\ route \in Seq(Refusal)
  BY HubAdmits, ScopesAdmit, RouteAdmits
<1>4. Len(first) = 5
  BY DEF Se!HubRefusals
<1>. HIDE DEF denial, first, scopes, route
<1>5. ASSUME NEW s \in Seq(Refusal), NEW t \in Seq(Refusal), Len(s) # 0
      PROVE  s \o t \in Seq(Refusal) /\ Len(s \o t) # 0 /\ (s \o t)[1] = s[1]
  <2>1. /\ s \o t \in Seq(Refusal) /\ Len(s \o t) = Len(s) + Len(t) /\ Len(s) \in Nat /\ Len(t) \in Nat
        /\ \A i \in 1..Len(s) : (s \o t)[i] = s[i]
    OBVIOUS
  <2>2. 1 \in 1..Len(s) /\ Len(s) + Len(t) # 0
    BY <1>5, <2>1
  <2>. QED
    BY <2>1, <2>2
<1>. DEFINE both == first \o scopes
            before == both \o route
<1>6. both \in Seq(Refusal) /\ Len(both) # 0 /\ both[1] = first[1]
  BY <1>3, <1>4, <1>5
<1>. HIDE DEF both
<1>7. before \in Seq(Refusal) /\ Len(before) # 0 /\ before[1] = first[1]
  BY <1>3, <1>5, <1>6
<1>. HIDE DEF before
<1>8. before \o denial \in Seq(Refusal) /\ Len(before \o denial) # 0 /\ (before \o denial)[1] = first[1]
  BY <1>1, <1>5, <1>7
<1>9. Len(before \o denial) \in Nat \ {0}
  BY <1>8
<1>. QED
  BY <1>2, <1>8, <1>9 DEF before, both, first

LEMMA DecisionIsCoded ==
  ASSUME NEW p, NEW role, NEW hub, NEW service
  PROVE  /\ Se!Decision(p, role, hub, service) \in Se!Codes
         /\ Se!Decision(p, role, hub, service) # "HUB_SERVICE_NOT_CONFIGURED" => Se!Bound(hub, service)
<1>. DEFINE refusals == Se!Refusals(p, role, hub, service)
            refused == {i \in DOMAIN refusals : refusals[i].holds}
<1>1. Se!Decision(p, role, hub, service) = IF refused = {} THEN "AVAILABLE_SYNTHETIC" ELSE refusals[Se!Min(refused)].code
  BY DEF Se!Decision
<1>2. refusals \in Seq(Refusal) /\ Len(refusals) \in Nat \ {0} /\ refusals[1] = Se!HubRefusals(hub, service)[1]
  BY RefusalsAreCoded
<1>3. /\ Se!HubRefusals(hub, service)[1].code = "HUB_SERVICE_NOT_CONFIGURED"
      /\ ~Se!Bound(hub, service) => Se!HubRefusals(hub, service)[1].holds
  BY DEF Se!HubRefusals
<1>. HIDE DEF refusals
<1>4. refused \subseteq Nat \ {0} /\ \A i \in refused : refusals[i].code \in Se!Codes
  <2>1. DOMAIN refusals \subseteq Nat \ {0} /\ \A i \in DOMAIN refusals : refusals[i] \in Refusal
    BY <1>2
  <2>2. \A r \in Refusal : r.code \in Se!Codes
    BY DEF Refusal
  <2>. QED
    BY <2>1, <2>2
<1>5. ~Se!Bound(hub, service) => 1 \in refused
  BY <1>2, <1>3
<1>. HIDE DEF refused
<1>6. ASSUME refused # {} PROVE Se!Min(refused) \in refused /\ \A i \in refused : Se!Min(refused) <= i
  BY <1>4, <1>6, LeastOfAll
<1>7. ASSUME 1 \in refused PROVE Se!Min(refused) = 1
  <2>1. Se!Min(refused) \in Nat \ {0} /\ Se!Min(refused) <= 1
    BY <1>4, <1>6, <1>7
  <2>. QED
    BY <2>1
<1>8. "AVAILABLE_SYNTHETIC" \in Se!Codes
  BY DEF Se!Codes
<1>9. Se!Decision(p, role, hub, service) \in Se!Codes
  BY <1>1, <1>4, <1>6, <1>8
<1>10. ~Se!Bound(hub, service) => Se!Decision(p, role, hub, service) = "HUB_SERVICE_NOT_CONFIGURED"
  BY <1>1, <1>2, <1>3, <1>5, <1>7
<1>. QED
  BY <1>9, <1>10

ServicesTyped == RoutedNow /\ Se!TypeOK

LEMMA ServicesAreTyped == ServicesTyped => Se!TypeOKServices
<1>. SUFFICES ASSUME ServicesTyped PROVE Se!TypeOKServices
  OBVIOUS
<1>1. \A hub \in ServiceHubs : \A id \in DOMAIN hub.bindings : hub.bindings[id] \in Se!BindingStates
  BY HubAssumption
<1>2. ASSUME NEW p \in ServicePrincipals, NEW role \in Se!ActingRoles, NEW hub \in ServiceHubs,
             NEW d \in Se!Matrix(p, role, hub)
      PROVE  d.code \in Se!Codes /\ (d.code # "HUB_SERVICE_NOT_CONFIGURED" => d.configured)
  <2>1. PICK s : d = [service |-> s, configured |-> Se!Bound(hub, s), code |-> Se!Decision(p, role, hub, s)]
    BY DEF Se!Matrix
  <2>2. d.code = Se!Decision(p, role, hub, s) /\ (Se!Bound(hub, s) => d.configured)
    BY <2>1 DEF Se!Bound
  <2>. QED
    BY <2>2, DecisionIsCoded
<1>. QED
  BY <1>1, <1>2 DEF ServicesTyped, Se!TypeOKServices

LEMMA ServicesTypes ==
  ASSUME ServicesTyped, Se!Next \/ UNCHANGED <<x1, x2, x3, x4, x5, x6, x7>>
  PROVE  ServicesTyped'
<1>1. RoutedNow'
  BY RoutedStep DEF ServicesTyped, RoutedNow
<1>2. Len(x7') <= 2
  <2>1. x7' = <<>> \/ (\E r : x7' = <<r>>) \/ (\E q, r : x7' = <<q, r>>)
    BY <1>1 DEF RoutedNow, Routed
  <2>2. Len(<<>>) <= 2 /\ (\A r : Len(<<r>>) <= 2) /\ \A q, r : Len(<<q, r>>) <= 2
    OBVIOUS
  <2>3. CASE x7' = <<>>
    BY <2>2, <2>3
  <2>4. CASE \E r : x7' = <<r>>
    BY <2>2, <2>4
  <2>5. CASE \E q, r : x7' = <<q, r>>
    BY <2>2, <2>5
  <2>. QED
    BY <2>1, <2>3, <2>4, <2>5
<1>3. /\ ServiceTime \in Nat /\ \A r \in ServiceRoutes : r.environment \in Se!Environments
      /\ \A a \in ServiceAdapters : a.environment \in Se!Environments /\ a.executable \in BOOLEAN
  BY HubAssumption
<1>. USE DEF ServicesTyped, Se!TypeOK
<1>4. ASSUME NEW a \in ServiceAdapters, Se!RegisterAdapter(a) PROVE ServicesTyped'
  BY <1>1, <1>2, <1>3, <1>4 DEF Se!RegisterAdapter
<1>5. ASSUME NEW r \in ServiceRoutes, Se!RegisterRoute(r) PROVE ServicesTyped'
  BY <1>1, <1>2, <1>3, <1>5 DEF Se!RegisterRoute
<1>6. CASE Se!ContractChanges \/ Se!CatalogChanges
  BY <1>1, <1>2, <1>6 DEF Se!ContractChanges, Se!CatalogChanges
<1>7. CASE Se!Tick
  <2>1. x5' \in 0..ServiceTime
    BY <1>3, <1>7 DEF Se!Tick
  <2>. QED
    BY <1>1, <1>2, <1>7, <2>1 DEF Se!Tick
<1>8. CASE Se!Submit
  BY <1>1, <1>2, <1>8 DEF Se!Submit
<1>9. ASSUME NEW p, NEW role, NEW region, NEW capability, Se!Resolve(p, role, region, capability)
      PROVE  ServicesTyped'
  <2>1. UNCHANGED <<x1, x2, x3, x4, x5, x6>>
    BY <1>9 DEF Se!Resolve
  <2>. QED
    BY <1>1, <1>2, <2>1
<1>10. CASE UNCHANGED <<x1, x2, x3, x4, x5, x6, x7>>
  BY <1>10, <1>1
<1>. QED
  BY <1>4, <1>5, <1>6, <1>7, <1>8, <1>9, <1>10 DEF Se!Next

LEMMA InitServicesTyped == Se!Init => ServicesTyped
<1>. SUFFICES ASSUME Se!Init PROVE ServicesTyped
  OBVIOUS
<1>1. PICK asked \in BOOLEAN :
        /\ x1 = Se!SyntheticAdapters \cup Se!DirectProviderFoundations \cup {Se!ArifPayAdapter(asked)}
        /\ x2 = Se!SyntheticRoutes \cup {Se!ArifPayRoute(asked)}
  BY DEF Se!Init
<1>2. \A a \in x1 : a.environment \in Se!Environments /\ a.executable \in BOOLEAN
  <2>1. \A a \in Se!SyntheticAdapters : a.environment = "synthetic" /\ a.executable = TRUE
    BY DEF Se!SyntheticAdapters, Se!Adapter
  <2>2. \A a \in Se!DirectProviderFoundations : a.environment \in {"sandbox", "testbed"} /\ a.executable = FALSE
    BY DEF Se!DirectProviderFoundations, Se!Adapter
  <2>3. Se!ArifPayAdapter(asked).environment = "sandbox" /\ Se!ArifPayAdapter(asked).executable = asked
    BY DEF Se!ArifPayAdapter, Se!Adapter
  <2>. QED
    BY <1>1, <2>1, <2>2, <2>3 DEF Se!Environments
<1>3. \A r \in x2 : r.environment \in Se!Environments
  BY <1>1 DEF Se!SyntheticRoutes, Se!ArifPayRoute, Se!Route, Se!Environments
<1>4. x5 \in 0..ServiceTime /\ Len(x7) <= 2
  BY HubAssumption DEF Se!Init
<1>. QED
  BY <1>2, <1>3, <1>4, InitRouted DEF Se!Init, ServicesTyped, Se!TypeOK

\* OfflineEvidence: what the device queued and what was found of it are of their
\* schemas, and so are the traces of a correlation, whose attempts are a sum.
Parsed ==
  /\ x1 \in 1..CaptureTime /\ Len(x2) <= CaptureRecords /\ IsFiniteSet(x4)
  /\ \A i \in DOMAIN x2 : x2[i] \in Of!QueueRecords /\ x2[i].queuedAt <= x1
  /\ \A e \in x4 : e \in Of!Evidence /\ e.record \in DOMAIN x2 /\ e.receivedAt <= e.at
CapturesTyped == EvaluatedNow /\ Parsed

LEMMA OutcomeParses ==
  ASSUME NEW r, NEW existing, NEW assignment
  PROVE  Of!OutcomeOf(Of!Replay(r, existing, assignment)) \in Of!Outcomes
<1>. DEFINE assigned == [r EXCEPT !.assignment = assignment]
<1>1. Of!Store!Certify(existing, assigned, x1) \in
        {"CONFLICT_REVIEW_REQUIRED", "STALE_INTENT_REJECTED", "RECONCILIATION_REQUIRED",
         "ASSIGNMENT_CHANGED_REVIEW_REQUIRED", "SYNTHETIC_DISPATCH_ELIGIBLE", "ROUTE_FALLBACK_REJECTED",
         "ROUTE_CHANGE_REVIEW_REQUIRED"}
  <2>. HIDE DEF assigned
  <2>. QED
    BY DEF Of!Store!Certify
<1>2. Of!Replay(r, existing, assignment) \in {"REPLAY_AUTHORIZATION_DENIED", Of!Store!Certify(existing, assigned, x1)}
  BY DEF Of!Replay
<1>. HIDE DEF assigned
<1>. QED
  BY <1>1, <1>2 DEF Of!OutcomeOf, Of!Outcomes

LEMMA SentParses ==
  ASSUME NEW i
  PROVE  /\ Of!Sent(i) \in Seq(Of!Stages) /\ Of!Received(i) \in Seq(Of!Stages)
         /\ Of!Sent(i)[Len(Of!Sent(i))] \in Of!TransportStates
<1>. DEFINE queued == <<"CAPTURED_OFFLINE", "QUEUED">>
            tried == <<"TRANSPORT_ATTEMPTED">>
            received == <<"RECEIVED", "AUTHORIZATION_PENDING">>
<1>1. /\ queued \in Seq(Of!Stages) /\ tried \in Seq(Of!Stages) /\ received \in Seq(Of!Stages)
      /\ queued[Len(queued)] \in Of!TransportStates
  BY DEF Of!Stages, Of!TransportStates
<1>2. queued \o <<>> = queued
  <2>1. \A s \in Seq(Of!Stages) : s \o <<>> = s
    OBVIOUS
  <2>. HIDE DEF queued
  <2>. QED
    BY <1>1, <2>1
<1>3. (queued \o tried)[Len(queued \o tried)] \in Of!TransportStates
  <2>1. Len(queued) = 2 /\ Len(tried) = 1 /\ tried[1] \in Of!TransportStates
    BY DEF Of!TransportStates
  <2>. HIDE DEF queued, tried
  <2>2. /\ Len(queued \o tried) = Len(queued) + Len(tried)
        /\ \A j \in 1..Len(tried) : (queued \o tried)[Len(queued) + j] = tried[j]
    BY <1>1
  <2>3. Len(queued \o tried) = 3 /\ (queued \o tried)[3] = tried[1]
    BY <2>1, <2>2
  <2>. QED
    BY <2>1, <2>3
<1>4. Of!Sent(i) = queued \/ Of!Sent(i) = queued \o tried
  BY <1>2 DEF Of!Sent
<1>. HIDE DEF queued, tried, received
<1>5. Of!Sent(i) \in Seq(Of!Stages)
  <2>1. queued \o tried \in Seq(Of!Stages)
    BY <1>1
  <2>. QED
    BY <1>1, <1>4, <2>1
<1>6. Of!Received(i) = Of!Sent(i) \o received
  BY DEF Of!Received, received
<1>7. Of!Received(i) \in Seq(Of!Stages)
  BY <1>1, <1>5, <1>6
<1>. QED
  BY <1>1, <1>3, <1>4, <1>5, <1>7

LEMMA KeptParses ==
  ASSUME CapturesTyped, NEW i \in DOMAIN x2, NEW receivedAt \in 0..x1, NEW outcome \in Of!Outcomes,
         Of!Keep(i, receivedAt, outcome)
  PROVE  /\ IsFiniteSet(x4')
         /\ \A e \in x4' : e \in Of!Evidence /\ e.record \in DOMAIN x2 /\ e.receivedAt <= e.at
<1>. DEFINE q == x2[i]
            transport == IF receivedAt = 0 THEN Of!Sent(i)[Len(Of!Sent(i))] ELSE "RECEIVED"
            timeline == IF receivedAt = 0 THEN Of!Sent(i)
                        ELSE Append(Of!Received(i), Of!TerminalStage(Of!AuthorityFor(outcome)))
            authority == Of!AuthorityFor(outcome)
            e == [record |-> i, correlation |-> q.request.correlation, scope |-> q.request.scope,
                  hub |-> q.request.hub, attempts |-> q.attempts, at |-> x1, receivedAt |-> receivedAt,
                  transport |-> transport, timeline |-> timeline, authority |-> authority, outcome |-> outcome]
<1>1. x4' = x4 \cup {e}
  BY DEF Of!Keep
<1>2. authority \in Of!AuthorityStates /\ Of!TerminalStage(authority) \in Of!Stages
  <2>1. authority \in {"SYNTHETIC_AUTHORIZED", "DUPLICATE_NOOP", "RECONCILIATION_REQUIRED", "UNTRUSTED_INTENT", "REJECTED"}
    BY DEF Of!AuthorityFor
  <2>. HIDE DEF authority
  <2>. QED
    BY <2>1 DEF Of!AuthorityStates, Of!TerminalStage, Of!Stages
<1>3. transport \in Of!TransportStates
  BY SentParses DEF Of!TransportStates
<1>4. timeline \in Seq(Of!Stages)
  BY <1>2, SentParses
<1>5. q \in Of!QueueRecords /\ x1 \in 1..CaptureTime /\ CaptureTime \in Nat \ {0} /\ receivedAt \in 0..CaptureTime
  <2>1. q \in Of!QueueRecords /\ x1 \in 1..CaptureTime /\ CaptureTime \in Nat \ {0}
    BY HubAssumption DEF CapturesTyped, Parsed
  <2>. QED
    BY <2>1
<1>6. i \in 1..CaptureRecords
  <2>1. x2 \in Seq(CaptureRecord) /\ Len(x2) <= CaptureRecords /\ CaptureRecords \in Nat
    BY HubAssumption DEF CapturesTyped, EvaluatedNow, Evaluated, Parsed
  <2>. QED
    BY <2>1
<1>. HIDE DEF transport, timeline, authority
<1>7. e \in Of!Evidence
  <2>1. /\ q.request \in Captures /\ q.attempts \in 0..CaptureAttempts
    BY <1>5 DEF Of!QueueRecords
  <2>. HIDE DEF q
  <2>. QED
    BY <1>2, <1>3, <1>4, <1>5, <1>6, <2>1 DEF Of!Evidence
<1>8. e.record = i /\ e.receivedAt <= e.at
  BY <1>5
<1>. HIDE DEF e
<1>9. IsFiniteSet(x4')
  BY <1>1, FS_AddElement DEF CapturesTyped, Parsed
<1>. QED
  BY <1>1, <1>7, <1>8, <1>9 DEF CapturesTyped, Parsed

LEMMA EvaluationKeeps ==
  ASSUME CapturesTyped, NEW i \in DOMAIN x2, Of!Evaluate(i)
  PROVE  x4' = x4 \/ \E receivedAt \in 0..x1, outcome \in Of!Outcomes : Of!Keep(i, receivedAt, outcome)
<1>1. x1 \in Nat /\ x2[i].queuedAt \in Nat
  BY DEF CapturesTyped, Parsed, Of!QueueRecords
<1>2. CASE Of!NotReceived(i)
  BY <1>1, <1>2 DEF Of!NotReceived, Of!Outcomes
<1>3. ASSUME NEW receivedAt \in x2[i].queuedAt..x1, Of!CaptureDenied(i, receivedAt)
      PROVE  \E at \in 0..x1, outcome \in Of!Outcomes : Of!Keep(i, at, outcome)
  BY <1>1, <1>3 DEF Of!CaptureDenied, Of!Outcomes
<1>4. ASSUME NEW receivedAt \in x2[i].queuedAt..x1, Of!KnownAlready(i, receivedAt)
      PROVE  \E at \in 0..x1, outcome \in Of!Outcomes : Of!Keep(i, at, outcome)
  BY <1>1, <1>4 DEF Of!KnownAlready, Of!Answered, Of!Outcomes
<1>5. ASSUME NEW receivedAt \in x2[i].queuedAt..x1, NEW capturer, NEW replayer,
             Of!Replayed(i, receivedAt, capturer, replayer)
      PROVE  \E at \in 0..x1, outcome \in Of!Outcomes : Of!Keep(i, at, outcome)
  BY <1>1, <1>5, OutcomeParses DEF Of!Replayed
<1>6. ASSUME NEW receivedAt \in x2[i].queuedAt..x1, NEW capturer, NEW replayer,
             Of!Ambiguous(i, receivedAt, capturer, replayer)
      PROVE  x4' = x4 \/ \E at \in 0..x1, outcome \in Of!Outcomes : Of!Keep(i, at, outcome)
  BY <1>1, <1>6, OutcomeParses DEF Of!Ambiguous
<1>. QED
  BY <1>2, <1>3, <1>4, <1>5, <1>6 DEF Of!Evaluate

LEMMA CapturesTypes ==
  ASSUME CapturesTyped, Of!Next \/ UNCHANGED <<x1, x2, x3, x4, x5>>
  PROVE  CapturesTyped'
<1>1. EvaluatedNow'
  BY OfflineStep DEF CapturesTyped, EvaluatedNow
<1>2. /\ x2 \in Seq(CaptureRecord) /\ CaptureTime \in Nat \ {0} /\ CaptureRecords \in Nat /\ CaptureAttempts \in Nat
      /\ x1 \in 1..CaptureTime
  BY HubAssumption DEF CapturesTyped, EvaluatedNow, Evaluated, Parsed
<1>3. CASE Of!Tick
  <2>1. x1' \in 1..CaptureTime /\ x1 < x1' /\ UNCHANGED <<x2, x4>>
    BY <1>2, <1>3 DEF Of!Tick
  <2>2. \A i \in DOMAIN x2 : x2[i].queuedAt \in Nat /\ x2[i].queuedAt <= x1'
    BY <1>2, <2>1 DEF CapturesTyped, Parsed, Of!QueueRecords
  <2>. QED
    BY <1>1, <2>1, <2>2 DEF CapturesTyped, Parsed
<1>4. ASSUME NEW r \in Captures, Of!Enqueue(r) PROVE CapturesTyped'
  <2>. DEFINE q == [request |-> r, queuedAt |-> x1, attempts |-> 0]
  <2>1. x2' = Append(x2, q) /\ Len(x2) < CaptureRecords /\ UNCHANGED <<x1, x4>>
    BY <1>4 DEF Of!Enqueue
  <2>2. q \in Of!QueueRecords /\ q.queuedAt <= x1
    BY <1>2 DEF Of!QueueRecords
  <2>. HIDE DEF q
  <2>3. /\ Len(x2') = Len(x2) + 1 /\ DOMAIN x2 = 1..Len(x2) /\ DOMAIN x2' = 1..(Len(x2) + 1) /\ Len(x2) \in Nat
        /\ x2'[Len(x2) + 1] = q /\ \A i \in 1..Len(x2) : x2'[i] = x2[i]
    BY <1>2, <2>1
  <2>4. Len(x2') <= CaptureRecords /\ DOMAIN x2 \subseteq DOMAIN x2'
    <3>. DEFINE n == Len(x2)
    <3>1. n \in Nat /\ CaptureRecords \in Nat /\ n < CaptureRecords
      BY <1>2, <2>1, <2>3
    <3>2. n + 1 <= CaptureRecords
      <4>. HIDE DEF n
      <4>. QED
        BY <3>1
    <3>3. 1..Len(x2) \subseteq 1..(Len(x2) + 1)
      BY <2>3
    <3>. QED
      BY <2>3, <3>2, <3>3
  <2>5. ASSUME NEW i \in DOMAIN x2' PROVE x2'[i] \in Of!QueueRecords /\ x2'[i].queuedAt <= x1
    <3>1. CASE i \in DOMAIN x2
      BY <2>3, <3>1 DEF CapturesTyped, Parsed
    <3>2. CASE i = Len(x2) + 1
      BY <2>2, <2>3, <3>2
    <3>. QED
      BY <2>3, <3>1, <3>2
  <2>. QED
    BY <1>1, <2>1, <2>4, <2>5 DEF CapturesTyped, Parsed
<1>5. ASSUME NEW i \in DOMAIN x2, Of!Attempt(i) PROVE CapturesTyped'
  <2>. DEFINE q == [x2[i] EXCEPT !.attempts = @ + 1]
  <2>1. x2' = [x2 EXCEPT ![i] = q] /\ x2[i].attempts < CaptureAttempts /\ UNCHANGED <<x1, x4>>
    BY <1>5 DEF Of!Attempt
  <2>2. x2[i] \in Of!QueueRecords /\ x2[i].queuedAt <= x1
    BY DEF CapturesTyped, Parsed
  <2>3. q \in Of!QueueRecords /\ q.queuedAt <= x1
    BY <1>2, <2>1, <2>2 DEF Of!QueueRecords
  <2>. HIDE DEF q
  <2>4. DOMAIN x2' = DOMAIN x2 /\ Len(x2') = Len(x2) /\ \A j \in DOMAIN x2 : x2'[j] = IF j = i THEN q ELSE x2[j]
    BY <1>2, <2>1
  <2>. QED
    BY <1>1, <2>1, <2>3, <2>4 DEF CapturesTyped, Parsed
<1>6. ASSUME NEW i \in DOMAIN x2, Of!Evaluate(i) PROVE CapturesTyped'
  <2>1. UNCHANGED <<x1, x2>>
    BY <1>6 DEF Of!Evaluate
  <2>2. CASE x4' = x4
    BY <1>1, <2>1, <2>2 DEF CapturesTyped, Parsed
  <2>3. ASSUME NEW receivedAt \in 0..x1, NEW outcome \in Of!Outcomes, Of!Keep(i, receivedAt, outcome)
        PROVE  CapturesTyped'
    BY <1>1, <2>1, <2>3, KeptParses DEF CapturesTyped, Parsed
  <2>. QED
    BY <1>6, <2>2, <2>3, EvaluationKeeps
<1>7. CASE UNCHANGED <<x1, x2, x3, x4, x5>>
  BY <1>1, <1>7 DEF CapturesTyped, Parsed
<1>. QED
  BY <1>3, <1>4, <1>5, <1>6, <1>7 DEF Of!Next

LEMMA InitCapturesTyped == Of!Init => CapturesTyped
<1>. SUFFICES ASSUME Of!Init PROVE CapturesTyped
  OBVIOUS
<1>1. EvaluatedNow
  BY DEF Of!Init, EvaluatedNow, Evaluated, CaptureScopes
<1>2. x1 \in 1..CaptureTime /\ Len(x2) <= CaptureRecords /\ x2 = <<>> /\ x4 = {} /\ IsFiniteSet(x4)
  <2>1. CaptureTime \in Nat \ {0} /\ CaptureRecords \in Nat /\ x1 = 1 /\ x2 = <<>> /\ x4 = {}
    BY HubAssumption DEF Of!Init
  <2>2. Len(x2) = 0
    BY <2>1
  <2>. QED
    BY <2>1, <2>2, FS_EmptySet
<1>. QED
  BY <1>1, <1>2 DEF CapturesTyped, Parsed

\* The module's sum is a natural number.
LEMMA AttemptsSum ==
  ASSUME NEW c, NEW l, IsFiniteSet(Of!Of(c)), \A e \in Of!Of(c) : e.attempts \in Nat
  PROVE  Of!Trace(c, l).attempts \in Nat
<1>. DEFINE S == Of!Of(c)
            h == [e \in S |-> e.attempts]
            Body(g) == [s \in SUBSET S |-> IF s = {} THEN 0 ELSE Tr!First(s).attempts + g[s \ {Tr!First(s)}]]
            t == CHOOSE g : g = Body(g)
<1>1. Of!Trace(c, l).attempts = t[S]
  BY DEF Of!Trace, Of!MapThenSumSet, Of!MapThenFoldSet, Tr!First
<1>2. \A s \in SUBSET S : s # {} => Tr!First(s).attempts = h[Tr!First(s)]
  BY Tr!FirstIn
<1>3. \A g : g = Body(g) <=> Tr!Sums(h, S, g)
  <2>. HIDE DEF h
  <2>. QED
    BY <1>2 DEF Tr!Sums
<1>4. Tr!IsFiniteSet(S) /\ \A e \in S : h[e] \in Int /\ h[e] >= 0
  BY DEF Tr!IsFiniteSet, IsFiniteSet
<1>5. \E g : g = Body(g)
  <2>. HIDE DEF Body, h, S
  <2>. QED
    BY <1>3, <1>4, Tr!SumsExist
<1>6. t = Body(t)
  BY <1>5
<1>. HIDE DEF t, Body, h, S
<1>7. Tr!Sums(h, S, t)
  BY <1>3, <1>6
<1>8. t[S] = Tr!Sum(h, S)
  BY <1>4, <1>7, Tr!SumIs
<1>9. Tr!Sum(h, S) \in Int /\ Tr!Sum(h, S) >= 0
  BY <1>4, Tr!SumType
<1>. QED
  BY <1>1, <1>8, <1>9

LEMMA TraceParses ==
  ASSUME CapturesTyped, NEW d \in x4, NEW l \in Of!Latest(d.correlation)
  PROVE  Of!Trace(d.correlation, l) \in Of!Traces
<1>. DEFINE c == d.correlation
            t == Of!Trace(c, l)
            found == {Of!Project(e) : e \in Of!Of(c)}
<1>1. /\ \A e \in Of!Of(c) : e \in Of!Evidence /\ e \in x4
      /\ d \in Of!Evidence /\ l \in Of!Evidence
  BY DEF CapturesTyped, Parsed, Of!Of, Of!Latest
<1>2. IsFiniteSet(Of!Of(c))
  BY FS_Subset DEF CapturesTyped, Parsed, Of!Of
<1>3. t.attempts \in Nat
  <2>1. CaptureAttempts \in Nat
    BY HubAssumption
  <2>2. \A e \in Of!Of(c) : e.attempts \in Nat
    BY <1>1, <2>1 DEF Of!Evidence
  <2>. QED
    BY <1>2, <2>2, AttemptsSum
<1>4. found \subseteq [record : 1..CaptureRecords, at : 1..CaptureTime, receivedAt : 0..CaptureTime, outcome : Of!Outcomes]
  BY <1>1 DEF Of!Project, Of!Evidence
<1>. DEFINE duplicate == \E e \in Of!Of(c) : e.outcome = "DUPLICATE_NOOP"
            conflict == \E e \in Of!Of(c) : e.outcome = "CONFLICT_REVIEW_REQUIRED"
            reconciliation == \E e \in Of!Of(c) : e.outcome = "RECONCILIATION_REQUIRED"
<1>5. duplicate \in BOOLEAN /\ conflict \in BOOLEAN /\ reconciliation \in BOOLEAN
  OBVIOUS
<1>6. t = [correlation |-> c, hub |-> l.hub, records |-> found, last |-> l.at, attempts |-> t.attempts,
           transport |-> l.transport, authority |-> l.authority, outcome |-> l.outcome,
           duplicate |-> duplicate, conflict |-> conflict, reconciliation |-> reconciliation]
  BY DEF Of!Trace
<1>7. /\ c \in {r.correlation : r \in Captures} /\ l.hub \in {r.hub : r \in Captures} /\ l.at \in 1..CaptureTime
      /\ l.transport \in Of!TransportStates /\ l.authority \in Of!AuthorityStates /\ l.outcome \in Of!Outcomes
  BY <1>1 DEF Of!Evidence
<1>. HIDE DEF t, c, found, duplicate, conflict, reconciliation
<1>8. t \in Of!Traces
  BY <1>3, <1>4, <1>5, <1>6, <1>7 DEF Of!Traces
<1>. QED
  BY <1>8 DEF t, c

LEMMA CapturesAreTyped == CapturesTyped => Of!TypeOK
<1>. SUFFICES ASSUME CapturesTyped PROVE Of!TypeOK
  OBVIOUS
<1>1. ASSUME NEW s \in DOMAIN x3 PROVE Of!Cardinality(x3[s]) <= 1
  <2>1. \A x, y \in x3[s] : x = y
    BY DEF CapturesTyped, EvaluatedNow, Evaluated
  <2>2. x3[s] = {} \/ \E x : x3[s] = {x}
    BY <2>1
  <2>3. Cardinality(x3[s]) = 0 \/ Cardinality(x3[s]) = 1
    BY <2>2, FS_EmptySet, FS_Singleton
  <2>4. Of!Cardinality(x3[s]) = Cardinality(x3[s])
    BY DEF Of!Cardinality, Cardinality
  <2>. QED
    BY <2>3, <2>4
<1>2. Of!ReadModel \subseteq Of!Traces
  BY TraceParses DEF Of!ReadModel
<1>. QED
  BY <1>1, <1>2 DEF CapturesTyped, Parsed, Of!TypeOK

\* The types of the evidence's log, of which no more is appended than the bound, and of
\* the lineages it gives.
LineageTyped ==
  /\ Logged /\ x2 \subseteq LineageCorrections /\ x3 \subseteq LineageDependencies
  /\ Ln!Appended <= LineageLimit

LEMMA AppendOne ==
  ASSUME NEW S, IsFiniteSet(S), NEW e
  PROVE  /\ Cardinality(S) \in Nat /\ Cardinality(S \cup {e}) \in Nat
         /\ Cardinality(S \cup {e}) <= Cardinality(S) + 1
<1>1. IsFiniteSet(S \cup {e}) /\ Cardinality(S \cup {e}) = IF e \in S THEN Cardinality(S) ELSE Cardinality(S) + 1
  BY FS_AddElement
<1>2. Cardinality(S) \in Nat /\ Cardinality(S \cup {e}) \in Nat
  BY <1>1, FS_CardinalityType
<1>. QED
  BY <1>1, <1>2

LEMMA LogSize ==
  ASSUME Logged
  PROVE  /\ Ln!Appended = Cardinality(x1) + Cardinality(x2) + Cardinality(x3)
         /\ Cardinality(x1) \in Nat /\ Cardinality(x2) \in Nat /\ Cardinality(x3) \in Nat
BY LineageCounts, FS_CardinalityType DEF Logged, Ln!Appended

LEMMA LineageTypes ==
  ASSUME LineageTyped, Ln!Next \/ UNCHANGED <<x1, x2, x3>>
  PROVE  LineageTyped'
<1>1. CASE UNCHANGED <<x1, x2, x3>>
  <2>1. (Ln!Appended)' = Ln!Appended
    BY <1>1 DEF Ln!Appended
  <2>. QED
    BY <1>1, <2>1 DEF LineageTyped, Logged
<1>2. CASE Ln!Next
  <2>1. Logged' /\ LineageLimit \in Nat
    BY <1>2, LoggedStep, HubAssumption DEF LineageTyped
  <2>2. /\ (Ln!Appended)' = Cardinality(x1') + Cardinality(x2') + Cardinality(x3')
        /\ Ln!Appended < LineageLimit
        /\ Ln!Appended = Cardinality(x1) + Cardinality(x2) + Cardinality(x3)
    BY <1>2, LogSize, LineageCounts DEF LineageTyped, Ln!Appended, Ln!Next
  <2>3. IsFiniteSet(x1) /\ IsFiniteSet(x2) /\ IsFiniteSet(x3)
    BY DEF LineageTyped, Logged
  <2>4. Cardinality(x1) \in Nat /\ Cardinality(x2) \in Nat /\ Cardinality(x3) \in Nat
    BY <2>3, FS_CardinalityType
  <2>5. ASSUME NEW r \in LineageRecords, Ln!Record(r)
        PROVE  (Ln!Appended)' <= LineageLimit /\ x2' = x2 /\ x3' = x3
    <3>1. x1' = x1 \cup {r} /\ x2' = x2 /\ x3' = x3
      BY <2>5 DEF Ln!Record
    <3>2. Cardinality(x1') \in Nat /\ Cardinality(x1') <= Cardinality(x1) + 1
      BY <2>3, <3>1, AppendOne
    <3>. QED
      BY <2>1, <2>2, <2>4, <3>1, <3>2
  <2>6. ASSUME NEW c \in LineageCorrections, Ln!Correct(c)
        PROVE  (Ln!Appended)' <= LineageLimit /\ x2' = x2 \cup {c} /\ x3' = x3
    <3>1. x2' = x2 \cup {c} /\ x1' = x1 /\ x3' = x3
      BY <2>6 DEF Ln!Correct
    <3>2. Cardinality(x2') \in Nat /\ Cardinality(x2') <= Cardinality(x2) + 1
      BY <2>3, <3>1, AppendOne
    <3>. QED
      BY <2>1, <2>2, <2>4, <3>1, <3>2
  <2>7. ASSUME NEW d \in LineageDependencies, Ln!Depend(d)
        PROVE  (Ln!Appended)' <= LineageLimit /\ x2' = x2 /\ x3' = x3 \cup {d}
    <3>1. x3' = x3 \cup {d} /\ x1' = x1 /\ x2' = x2
      BY <2>7 DEF Ln!Depend
    <3>2. Cardinality(x3') \in Nat /\ Cardinality(x3') <= Cardinality(x3) + 1
      BY <2>3, <3>1, AppendOne
    <3>. QED
      BY <2>1, <2>2, <2>4, <3>1, <3>2
  <2>. QED
    BY <1>2, <2>1, <2>5, <2>6, <2>7 DEF LineageTyped, Ln!Next
<1>. QED
  BY <1>1, <1>2

LEMMA InitLineageTyped == Ln!Init => LineageTyped
<1>. SUFFICES ASSUME Ln!Init PROVE LineageTyped
  OBVIOUS
<1>1. x1 = {} /\ x2 = {} /\ x3 = {}
  BY DEF Ln!Init
<1>2. Logged /\ Cardinality(x1) = 0 /\ Cardinality(x2) = 0 /\ Cardinality(x3) = 0
  BY <1>1, FS_EmptySet DEF Logged
<1>3. Ln!Appended <= LineageLimit
  <2>1. LineageLimit \in Nat
    BY HubAssumption
  <2>. QED
    BY <1>2, <2>1, LogSize
<1>. QED
  BY <1>1, <1>2, <1>3 DEF LineageTyped

\* What a role is shown of a record that parses is one of the projections.
LEMMA ProjectionParses ==
  ASSUME NEW r \in LineageRecords, Ln!RecordParses(r)
  PROVE  Ln!Projected(r, "OPERATIONS") \in Ln!Projections
<1>. DEFINE c == [f \in {"id", "at", "class", "integrity", "authority"} |-> r[f]]
            given == {s.scope : s \in LineageRecords} \cup Ln!Withheld
<1>1. r.class \in Ln!Classes /\ r.authority \in Ln!Authorities
  BY DEF Ln!RecordParses
<1>2. c = [id |-> r.id, at |-> r.at, class |-> r.class, integrity |-> r.integrity, authority |-> r.authority]
  OBVIOUS
<1>3. c \in Ln!Common
  <2>. HIDE DEF c
  <2>. QED
    BY <1>1, <1>2 DEF Ln!Common
<1>4. Ln!Projected(r, "OPERATIONS") = [shown |-> c, provenance |-> r.scope, actor |-> "WITHHELD"]
  BY DEF Ln!Projected
<1>5. r.scope \in given /\ "WITHHELD" \in given
  BY DEF Ln!Withheld
<1>6. Ln!Projections = {[shown |-> d, provenance |-> p, actor |-> a] : d \in Ln!Common, p \in given, a \in given}
  BY DEF Ln!Projections
<1>. HIDE DEF c, given
<1>. QED
  BY <1>3, <1>4, <1>5, <1>6

LEMMA LineagesParse ==
  ASSUME LineageTyped, NEW scope \in Ln!Scopes, NEW id \in Ln!Ids(scope),
         NEW l \in Ln!Lineages(scope, "OPERATIONS", id)
  PROVE  Ln!LineageParses(l)
<1>. DEFINE Known == {r.id : r \in LineageRecords}
<1>1. Ln!Valid(scope) /\ Logged
  BY DEF Ln!Lineages, LineageTyped
<1>2. PICK root \in Ln!Roots(scope, id) : \E deps \in Ln!Marking(scope, Ln!Corrected(scope, root)) :
        l = [chain |-> Ln!Chain(scope, root), shown |-> Ln!Shown(scope, "OPERATIONS", Ln!Chain(scope, root)),
             superseded |-> Ln!Corrected(scope, root), marked |-> {d.derived : d \in deps},
             recompute |-> Ln!ToRecompute(deps)]
  BY <1>1 DEF Ln!Lineages
<1>3. PICK deps \in Ln!Marking(scope, Ln!Corrected(scope, root)) :
        l = [chain |-> Ln!Chain(scope, root), shown |-> Ln!Shown(scope, "OPERATIONS", Ln!Chain(scope, root)),
             superseded |-> Ln!Corrected(scope, root), marked |-> {d.derived : d \in deps},
             recompute |-> Ln!ToRecompute(deps)]
  BY <1>2
<1>4. /\ l.chain = Ln!Chain(scope, root) /\ l.shown = Ln!Shown(scope, "OPERATIONS", Ln!Chain(scope, root))
      /\ l.superseded = Ln!Corrected(scope, root) /\ l.marked = {d.derived : d \in deps}
      /\ l.recompute = Ln!ToRecompute(deps)
  BY <1>3
<1>5. Ln!Ids(scope) \subseteq Known
  BY <1>1 DEF Logged, Ln!Ids, Ln!In
<1>6. root \in Ln!Ids(scope)
  BY <1>1, RootsLead
<1>7. l.chain \subseteq Known
  <2>1. \A n \in 0..Size(scope) : Ln!Follow(scope, root)[n] \subseteq Ln!Ids(scope)
    BY <1>1, <1>6, FollowSteps
  <2>2. l.chain = UNION {Ln!Follow(scope, root)[n] : n \in 0..Size(scope)}
    BY <1>4 DEF Ln!Chain, Size
  <2>. QED
    BY <1>5, <2>1, <2>2
<1>8. deps \subseteq Ln!In(scope, x3)
  BY DEF Ln!Marking
<1>9. l.marked \subseteq Known
  BY <1>1, <1>4, <1>5, <1>8, ValidFacts
<1>10. l.superseded \subseteq l.chain
  BY <1>4 DEF Ln!Corrected
<1>11. l.shown \subseteq Ln!Projections
  <2>1. SUFFICES ASSUME NEW r \in x1 PROVE Ln!Projected(r, "OPERATIONS") \in Ln!Projections
    BY <1>4 DEF Ln!Shown, Ln!In
  <2>2. r \in LineageRecords /\ Ln!RecordParses(r)
    BY <1>1 DEF Logged, Ln!Valid, Ln!RecordsParse
  <2>. QED
    BY <2>2, ProjectionParses
<1>12. l.recompute \subseteq Ln!Targets
  <2>1. \A d \in Ln!In(scope, x3) : d.targets \subseteq Ln!Targets
    BY <1>1 DEF Ln!Valid, Ln!DependencyParses, Ln!In
  <2>. QED
    BY <1>4, <1>8, <2>1 DEF Ln!ToRecompute
<1>. QED
  BY <1>7, <1>9, <1>10, <1>11, <1>12 DEF Ln!LineageParses

LEMMA LineagesAreTyped == LineageTyped => Ln!TypeOK
BY LineagesParse DEF Ln!TypeOK, LineageTyped, Logged

-----------------------------------------------------------------------------
\* Each of these parts keeps its types, with what else it needs for them.
EvidenceTyped ==
  /\ moving = "services" => ServicesTyped
  /\ moving = "access" => Ac!TypeOK
  /\ moving = "liquidity" => Li!TypeOK
  /\ moving = "offline" => CapturesTyped
  /\ moving = "lineage" => LineageTyped
  /\ moving = "readiness" => StaffTyped
  /\ moving = "neutrality" => PolicyTyped
  /\ moving = "pilot" => PilotTyped

EvidenceParts == {"services", "access", "liquidity", "offline", "lineage", "readiness", "neutrality", "pilot"}

LEMMA InitEvidence == HubInit => EvidenceTyped
<1>. SUFFICES ASSUME HubInit PROVE EvidenceTyped
  OBVIOUS
<1>1. Li!Init => Li!TypeOK
  BY DEF Li!Init, Li!TypeOK
<1>2. CASE moving = "services"
  <2>1. Se!Init
    BY <1>2 DEF HubInit
  <2>. QED
    BY <1>2, <2>1, InitServicesTyped DEF EvidenceTyped
<1>3. CASE moving = "access"
  <2>1. Ac!Init
    BY <1>3 DEF HubInit
  <2>. QED
    BY <1>3, <2>1, InitAccess DEF EvidenceTyped
<1>4. CASE moving = "liquidity"
  <2>1. Li!Init
    BY <1>4 DEF HubInit
  <2>. QED
    BY <1>1, <1>4, <2>1 DEF EvidenceTyped
<1>5. CASE moving = "offline"
  <2>1. Of!Init
    BY <1>5 DEF HubInit
  <2>. QED
    BY <1>5, <2>1, InitCapturesTyped DEF EvidenceTyped
<1>6. CASE moving = "lineage"
  <2>1. Ln!Init
    BY <1>6 DEF HubInit
  <2>. QED
    BY <1>6, <2>1, InitLineageTyped DEF EvidenceTyped
<1>7. CASE moving = "readiness"
  <2>1. Op!Init
    BY <1>7 DEF HubInit
  <2>. QED
    BY <1>7, <2>1, InitStaffTyped DEF EvidenceTyped
<1>8. CASE moving = "neutrality"
  <2>1. Ne!Init
    BY <1>8 DEF HubInit
  <2>. QED
    BY <1>8, <2>1, InitPolicyTyped DEF EvidenceTyped
<1>9. CASE moving = "pilot"
  <2>1. Pi!Init
    BY <1>9 DEF HubInit
  <2>. QED
    BY <1>9, <2>1, InitPilotTyped DEF EvidenceTyped
<1>10. CASE moving \notin EvidenceParts
  BY <1>10 DEF EvidenceTyped, EvidenceParts
<1>. QED
  BY <1>2, <1>3, <1>4, <1>5, <1>6, <1>7, <1>8, <1>9, <1>10 DEF EvidenceParts

LEMMA EvidenceStep ==
  ASSUME EvidenceTyped, [HubNext]_hubVars
  PROVE  EvidenceTyped'
<1>0. moving' = moving
  BY DEF HubNext, hubVars
<1>1. ASSUME moving = "services" PROVE ServicesTyped'
  <2>1. ServicesTyped /\ (Se!Next \/ UNCHANGED <<x1, x2, x3, x4, x5, x6, x7>>)
    BY <1>1 DEF HubNext, hubVars, EvidenceTyped
  <2>. QED
    BY <2>1, ServicesTypes
<1>2. ASSUME moving = "access" PROVE Ac!TypeOK'
  <2>1. Ac!TypeOK /\ (Ac!Next \/ UNCHANGED <<x1, x2, x3, x4>>)
    BY <1>2 DEF HubNext, hubVars, EvidenceTyped
  <2>. QED
    BY <2>1, AccessTypes
<1>3. ASSUME moving = "liquidity" PROVE Li!TypeOK'
  <2>1. Li!TypeOK /\ (Li!Next \/ UNCHANGED <<x1, x2, x3>>)
    BY <1>3 DEF HubNext, hubVars, EvidenceTyped
  <2>. QED
    BY <2>1, LiquidityTypes
<1>4. ASSUME moving = "offline" PROVE CapturesTyped'
  <2>1. CapturesTyped /\ (Of!Next \/ UNCHANGED <<x1, x2, x3, x4, x5>>)
    BY <1>4 DEF HubNext, hubVars, EvidenceTyped
  <2>. QED
    BY <2>1, CapturesTypes
<1>5. ASSUME moving = "lineage" PROVE LineageTyped'
  <2>1. LineageTyped /\ (Ln!Next \/ UNCHANGED <<x1, x2, x3>>)
    BY <1>5 DEF HubNext, hubVars, EvidenceTyped
  <2>. QED
    BY <2>1, LineageTypes
<1>6. ASSUME moving = "readiness" PROVE StaffTyped'
  <2>1. StaffTyped /\ (Op!Next \/ UNCHANGED <<x1, x2, x3, x4, x5, x6, x7, x8>>)
    BY <1>6 DEF HubNext, hubVars, EvidenceTyped
  <2>. QED
    BY <2>1, StaffTypes
<1>7. ASSUME moving = "neutrality" PROVE PolicyTyped'
  <2>1. PolicyTyped /\ (Ne!Next \/ UNCHANGED <<x1, x2, x3, x4, x5, x6, x7>>)
    BY <1>7 DEF HubNext, hubVars, EvidenceTyped
  <2>. QED
    BY <2>1, PolicyTypes
<1>8. ASSUME moving = "pilot" PROVE PilotTyped'
  <2>1. PilotTyped /\ (Pi!Next \/ UNCHANGED <<x1, x2, x3, x4, x5, x6, x7>>)
    BY <1>8 DEF HubNext, hubVars, EvidenceTyped
  <2>. QED
    BY <2>1, PilotTypes
<1>. QED
  BY <1>0, <1>1, <1>2, <1>3, <1>4, <1>5, <1>6, <1>7, <1>8 DEF EvidenceTyped

LEMMA EvidenceIsTyped ==
  ASSUME EvidenceTyped, moving \in EvidenceParts
  PROVE  TypeOKHub
<1>1. (moving = "services" => Se!TypeOKServices) /\ (moving = "offline" => Of!TypeOK)
  BY ServicesAreTyped, CapturesAreTyped DEF EvidenceTyped
<1>2. (moving = "access" => Ac!TypeOK) /\ (moving = "liquidity" => Li!TypeOK)
  BY DEF EvidenceTyped
<1>3. (moving = "lineage" => Ln!TypeOK) /\ (moving = "readiness" => Op!TypeOK)
  BY LineagesAreTyped DEF EvidenceTyped, StaffTyped
<1>4. (moving = "neutrality" => Ne!TypeOK) /\ (moving = "pilot" => Pi!TypeOK)
  BY DEF EvidenceTyped, PolicyTyped, PilotTyped
<1>. USE DEF TypeOKHub
<1>5. CASE moving = "services"
  BY <1>1, <1>5
<1>6. CASE moving = "offline"
  BY <1>1, <1>6
<1>7. CASE moving = "access"
  BY <1>2, <1>7
<1>8. CASE moving = "liquidity"
  BY <1>2, <1>8
<1>9. CASE moving = "lineage"
  BY <1>3, <1>9
<1>10. CASE moving = "readiness"
  BY <1>3, <1>10
<1>11. CASE moving = "neutrality"
  BY <1>4, <1>11
<1>12. CASE moving = "pilot"
  BY <1>4, <1>12
<1>. HIDE DEF TypeOKHub
<1>. QED
  BY <1>5, <1>6, <1>7, <1>8, <1>9, <1>10, <1>11, <1>12 DEF EvidenceParts

\* Types: in each of these parts the variables keep their types, and what is read of them
\* parses - lineages, offered services, captures and their traces - whatever the bounds.
THEOREM EvidenceKeepsTypes == HubSpec => [](moving \in EvidenceParts => TypeOKHub)
<1>1. EvidenceTyped /\ [HubNext]_hubVars => EvidenceTyped'
  BY EvidenceStep
<1>2. EvidenceTyped => (moving \in EvidenceParts => TypeOKHub)
  BY EvidenceIsTyped
<1>. QED
  BY <1>1, <1>2, InitEvidence, PTL DEF HubSpec
==============================================================================
