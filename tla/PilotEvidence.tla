---------------------------- MODULE PilotEvidence ---------------------------
(***************************************************************************)
(* The gates of a pilot program: observations and artifacts gathered for   *)
(* each, a reviewer's decisions, and the read models published of them, of *)
(* which this stage allows no accepted decision and no real observation.   *)
(* A gate's target has one threshold per metric, compared one way.         *)
(***************************************************************************)
EXTENDS Naturals, FiniteSets

CONSTANTS
  Gates,
  Targets,        \* [Gates -> set of [metric, comparator, threshold, unit]]
  Observable,     \* observations that are made: [gate, metric, value, unit, class]
  Attachable,     \* artifacts: [gate, class, digest, integrity, external, real]
  Decidable,      \* the kinds of decision that are taken
  MaxObservations, MaxModels

VARIABLES
  observations,  \* subset of Observable
  artifacts,     \* subset of Attachable
  decision,      \* [Gates -> DecisionKinds or "none"]
  reviews,       \* gates with a review that accepts real evidence
  scale,         \* there is a scale decision
  member,        \* the program's partner is known to each of its hubs
  models

vars == <<observations, artifacts, decision, reviews, scale, member, models>>

-----------------------------------------------------------------------------
Statuses ==
  {"UNKNOWN", "COLLECTING", "PARTIAL", "MEETS_TARGET_UNREVIEWED", "MISSES_TARGET_UNREVIEWED",
   "EVIDENCE_ACCEPTED_MEETS_TARGET", "EVIDENCE_ACCEPTED_MISSES_TARGET", "WAIVED_WITH_REASON", "NOT_APPLICABLE"}

ConstraintParses(k) == k.comparator \in {"GT", "GTE", "LT", "LTE", "EQ"} /\ k.threshold \in Nat

\* A target has a threshold, and one of each metric.
TargetParses(gate) ==
  /\ Targets[gate] # {} /\ \A k \in Targets[gate] : ConstraintParses(k)
  /\ \A k, l \in Targets[gate] : k.metric = l.metric => k = l

ObservationParses(o) ==
  o.gate \in Gates /\ o.class \in {"SYNTHETIC_TEST_FIXTURE", "STAGING_TEST", "REAL_PILOT_OBSERVATION"}

\* What is only referred to has no digest, and only external evidence is verified
\* outside.
ArtifactParses(a) ==
  /\ a.gate \in Gates
  /\ a.integrity = "DIGEST_RECORDED" <=> a.digest
  /\ a.external => a.class = "EXTERNAL_EVIDENCE"

DecisionKinds ==
  {"REQUEST_MORE_EVIDENCE", "DEFERRED_PENDING_REAL_EVIDENCE", "ACCEPT_MEETS_TARGET", "ACCEPT_MISSES_TARGET",
   "WAIVE_WITH_REASON", "MARK_NOT_APPLICABLE"}

Bases ==
  {"NO_OBSERVATION", "EVIDENCE_COLLECTION_STARTED", "PARTIAL_OBSERVATION", "SYNTHETIC_THRESHOLD_EVALUATION",
   "GOVERNANCE_REVIEW"}
AssessmentParses(a) == a.status \in Statuses /\ a.basis \in Bases

\* Of all gates.
ReadModelParses(m) ==
  DOMAIN m.assessments = Gates /\ \A gate \in Gates : AssessmentParses(m.assessments[gate])

-----------------------------------------------------------------------------
\* compare.
Meets(value, k) ==
  CASE k.comparator = "GT" -> value > k.threshold
    [] k.comparator = "GTE" -> value >= k.threshold
    [] k.comparator = "LT" -> value < k.threshold
    [] k.comparator = "LTE" -> value <= k.threshold
    [] k.comparator = "EQ" -> value = k.threshold

\* statusFromDecision, null when nothing is decided yet.
FromDecision(d) ==
  CASE d = "ACCEPT_MEETS_TARGET" -> {"EVIDENCE_ACCEPTED_MEETS_TARGET"}
    [] d = "ACCEPT_MISSES_TARGET" -> {"EVIDENCE_ACCEPTED_MISSES_TARGET"}
    [] d = "WAIVE_WITH_REASON" -> {"WAIVED_WITH_REASON"}
    [] d = "MARK_NOT_APPLICABLE" -> {"NOT_APPLICABLE"}
    [] OTHER -> {}

\* validateStage4Evidence.
StageAllows ==
  /\ \A o \in observations : o.class # "REAL_PILOT_OBSERVATION"
  /\ \A a \in artifacts : ~a.real /\ ~a.external /\ a.class # "EXTERNAL_EVIDENCE"
  /\ reviews = {} /\ ~scale
  /\ \A gate \in Gates : FromDecision(decision[gate]) = {}

\* Two observations of one metric of a gate are refused, and one in a unit other
\* than its target's; a metric that no target has is let through.
ObservationsFit ==
  /\ \A o, p \in observations : o.gate = p.gate /\ o.metric = p.metric => o = p
  /\ \A o \in observations : \A k \in Targets[o.gate] : k.metric = o.metric => k.unit = o.unit

Observed(gate, metric) == {o \in observations : o.gate = gate /\ o.metric = metric}
Seen(gate) == {k \in Targets[gate] : Observed(gate, k.metric) # {}}
Collected(gate) == \E a \in artifacts : a.gate = gate

Assessed(status, basis) == [status |-> status, basis |-> basis]

\* Mutant: what is not observed yet does not count.
FromEvidenceMut(gate) ==
  CASE Seen(gate) = {} -> Assessed("UNKNOWN", "NO_OBSERVATION")
    [] OTHER -> Assessed(IF \A k \in Seen(gate) : \A o \in Observed(gate, k.metric) : Meets(o.value, k)
                         THEN "MEETS_TARGET_UNREVIEWED" ELSE "MISSES_TARGET_UNREVIEWED",
                         "SYNTHETIC_THRESHOLD_EVALUATION")

\* What the evidence alone says of a gate.
FromEvidence(gate) ==
  CASE Seen(gate) = {} /\ ~Collected(gate) -> Assessed("UNKNOWN", "NO_OBSERVATION")
    [] Seen(gate) = {} /\ Collected(gate) -> Assessed("COLLECTING", "EVIDENCE_COLLECTION_STARTED")
    [] Seen(gate) \notin {{}, Targets[gate]} -> Assessed("PARTIAL", "PARTIAL_OBSERVATION")
    [] OTHER -> Assessed(IF \A k \in Targets[gate] : \A o \in Observed(gate, k.metric) : Meets(o.value, k)
                         THEN "MEETS_TARGET_UNREVIEWED" ELSE "MISSES_TARGET_UNREVIEWED",
                         "SYNTHETIC_THRESHOLD_EVALUATION")

\* evaluatePilotGate: a decision has the last word over the evidence.
Assessment(gate) ==
  IF FromDecision(decision[gate]) # {}
  THEN Assessed(CHOOSE s \in FromDecision(decision[gate]) : TRUE, "GOVERNANCE_REVIEW")
  ELSE FromEvidence(gate)

-----------------------------------------------------------------------------
Init ==
  /\ observations = {} /\ artifacts = {} /\ decision = [gate \in Gates |-> "none"]
  /\ reviews = {} /\ scale = FALSE /\ member \in BOOLEAN /\ models = {}

Observe ==
  /\ Cardinality(observations) < MaxObservations
  /\ \E o \in Observable : ObservationParses(o) /\ observations' = observations \cup {o}
Withdraw == \E o \in observations : observations' = observations \ {o}
Attach == \E a \in Attachable : ArtifactParses(a) /\ artifacts' = artifacts \cup {a}
Decide(gate) == \E d \in Decidable \cup {"none"} : decision' = [decision EXCEPT ![gate] = d]
Review(gate) == reviews' \in {reviews \cup {gate}, reviews \ {gate}}
DecideScale == scale' = ~scale

\* createStage4PilotEvidenceReadModel, of all gates or of none.
Publish ==
  /\ member /\ StageAllows /\ \A gate \in Gates : TargetParses(gate)
  /\ ObservationsFit
  /\ models' = models \cup {[of |-> observations, assessments |-> [gate \in Gates |-> Assessment(gate)]]}

\* A bound: nothing changes once MaxModels read models are out.
Next ==
  /\ Cardinality(models) < MaxModels /\ UNCHANGED member
  /\ \/ (Observe \/ Withdraw) /\ UNCHANGED <<artifacts, decision, reviews, scale, models>>
     \/ Attach /\ UNCHANGED <<observations, decision, reviews, scale, models>>
     \/ \E gate \in Gates : Decide(gate) /\ UNCHANGED <<observations, artifacts, reviews, scale, models>>
     \/ \E gate \in Gates : Review(gate) /\ UNCHANGED <<observations, artifacts, decision, scale, models>>
     \/ DecideScale /\ UNCHANGED <<observations, artifacts, decision, reviews, models>>
     \/ Publish /\ UNCHANGED <<observations, artifacts, decision, reviews, scale>>

Spec == Init /\ [][Next]_vars

-----------------------------------------------------------------------------
TypeOK ==
  /\ observations \subseteq Observable /\ Cardinality(observations) <= MaxObservations
  /\ artifacts \subseteq Attachable /\ \A a \in artifacts : ArtifactParses(a)
  /\ decision \in [Gates -> DecisionKinds \cup {"none"}] /\ reviews \subseteq Gates /\ scale \in BOOLEAN
  /\ \A m \in models : ReadModelParses(m)

\* The observations that a read model has of a gate's metric.
Counted(m, gate, metric) == {o \in m.of : o.gate = gate /\ o.metric = metric}

\* What it says of the gate follows from them.
GateIsObserved(m, gate) ==
  LET s == m.assessments[gate].status
  IN /\ s \in {"UNKNOWN", "COLLECTING", "PARTIAL", "MEETS_TARGET_UNREVIEWED", "MISSES_TARGET_UNREVIEWED"}
     /\ s \in {"MEETS_TARGET_UNREVIEWED", "MISSES_TARGET_UNREVIEWED"} =>
          /\ \A k \in Targets[gate] : Cardinality(Counted(m, gate, k.metric)) = 1
          /\ s = "MEETS_TARGET_UNREVIEWED" <=>
               \A k \in Targets[gate] : \A o \in Counted(m, gate, k.metric) : Meets(o.value, k) /\ o.unit = k.unit

\* What is published of a gate says no more than the synthetic evidence does: it
\* is said to meet or to miss its target only when each of its metrics has one
\* observation, and to meet it only when every one of them is within the target;
\* nothing is ever said to be accepted, waived or not applicable, and no read model
\* has a real observation in it.
StatusIsObserved ==
  \A m \in models :
    /\ \A o \in m.of : o.class # "REAL_PILOT_OBSERVATION"
    /\ \A gate \in Gates : GateIsObserved(m, gate)
=============================================================================
