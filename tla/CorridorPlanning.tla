-------------------------- MODULE CorridorPlanning --------------------------
(***************************************************************************)
(* Corridor plans: candidates of which evidence is gathered dimension by   *)
(* dimension, read models published of a plan as it stands, one of which   *)
(* may recommend a candidate for review, and searches over all published.  *)
(* Evidence carries the index of its dimension; profiles and labels go     *)
(* with it.                                                                *)
(***************************************************************************)
EXTENDS Naturals, FiniteSets, FiniteSetsExt

CONSTANTS
  Candidates,  \* ids 1..n, in the order of localeCompare
  Dimensions,
  Indices,     \* of 0..100
  Thresholds,  \* of the review policy, in basis points
  Scopes,      \* a plan's [tenant, anchor, partner, regions], the anchor a hub
  Places,      \* a candidate's [region, hub]; a hub is [tenant, region, partners, members]
  MaxModels

VARIABLES
  evidence,   \* [Candidates -> [Dimensions -> {} or {index}]]
  place,      \* [Candidates -> Places]
  scope, threshold,
  models      \* read models published: [made, scope, ranking, recommendation]

vars == <<evidence, place, scope, threshold, models>>

-----------------------------------------------------------------------------
\* A candidate has an index exactly for the dimensions that it has evidence of, or
\* its schema refuses it.
Indicators == [Dimensions -> {{}} \cup {{i} : i \in Indices}]

\* The plan's schema.
PlanParses == \A c \in Candidates : place[c].region \in scope.regions

\* validatePlanScope.  The anchor's partner may be in any state of membership, an
\* existing hub's has to be a member.
ScopeIsValid ==
  /\ scope.anchor.tenant = scope.tenant /\ scope.partner \in scope.anchor.partners
  /\ \A c \in Candidates : \A hub \in place[c].hub :
       hub.tenant = scope.tenant /\ hub.region = place[c].region /\ scope.partner \in hub.members

Present(c) == {d \in Dimensions : evidence[c][d] # {}}
Completeness(c) == (Cardinality(Present(c)) * 10000) \div Cardinality(Dimensions)
Complete(c) == Present(c) = Dimensions
Readiness(c) ==
  (MapThenSumSet(LAMBDA d : CHOOSE i \in evidence[c][d] : TRUE, Dimensions) * 10000)
    \div (100 * Cardinality(Dimensions))

\* evaluateCandidate; the readiness of an incomplete candidate is null.
State(c) ==
  CASE ~Complete(c) -> "RESEARCH_MORE"
    [] Complete(c) /\ Readiness(c) < threshold -> "HOLD_FOR_EVIDENCE"
    [] OTHER -> "CANDIDATE_FOR_BOUNDED_REVIEW"

Evaluations ==
  [candidate : Candidates, completeness : 0..10000, readiness : SUBSET (0..10000),
   state : {"RESEARCH_MORE", "HOLD_FOR_EVIDENCE", "CANDIDATE_FOR_BOUNDED_REVIEW"}]
Evaluation(c) ==
  [candidate |-> c, completeness |-> Completeness(c),
   readiness |-> IF Complete(c) THEN {Readiness(c)} ELSE {}, state |-> State(c)]

\* Mutant: the order is by completeness and id.
BeforeMut(c, d) ==
  \/ Completeness(c) > Completeness(d)
  \/ Completeness(c) = Completeness(d) /\ c < d

\* The order of the candidates: null counts as -1.
Before(c, d) ==
  \/ Completeness(c) > Completeness(d)
  \/ /\ Completeness(c) = Completeness(d)
     /\ \/ Complete(c) /\ Readiness(c) > Readiness(d)
        \/ (Complete(c) => Readiness(c) = Readiness(d)) /\ c < d

First(cs) == {c \in cs : \A d \in cs : c = d \/ Before(c, d)}

Recommendation ==
  IF \E c \in Candidates : ~Complete(c) THEN [state |-> "RESEARCH_MORE", candidate |-> {}]
  ELSE LET review == {c \in Candidates : State(c) = "CANDIDATE_FOR_BOUNDED_REVIEW"}
       IN [state |-> IF review = {} THEN "HOLD" ELSE "RECOMMEND_BOUNDED_REVIEW",
           candidate |-> First(review)]

-----------------------------------------------------------------------------
Init ==
  /\ evidence = [c \in Candidates |-> [d \in Dimensions |-> {}]]
  /\ place \in [Candidates -> Places]
  /\ scope \in Scopes /\ threshold \in Thresholds /\ models = {}

\* Evidence of a dimension comes, is replaced or is withdrawn, with its index.
Report(c, d, index) ==
  /\ evidence' = [evidence EXCEPT ![c][d] = {index}] /\ UNCHANGED <<place, scope, threshold, models>>
Withdraw(c, d) ==
  /\ evidence' = [evidence EXCEPT ![c][d] = {}] /\ UNCHANGED <<place, scope, threshold, models>>
ChangePolicy ==
  /\ threshold' \in Thresholds \ {threshold} /\ UNCHANGED <<evidence, place, scope, models>>

\* createStage4CorridorPlanningReadModel: thrown away when the scope is not valid.
Publish ==
  /\ Cardinality(models) < MaxModels /\ PlanParses /\ ScopeIsValid
  /\ models' = models \cup
       {[of |-> evidence, threshold |-> threshold, scope |-> scope,
         candidates |-> {Evaluation(c) : c \in Candidates}, recommendation |-> Recommendation]}
  /\ UNCHANGED <<evidence, place, scope, threshold>>

Next ==
  \/ \E c \in Candidates, d \in Dimensions : Withdraw(c, d) \/ \E index \in Indices : Report(c, d, index)
  \/ ChangePolicy \/ Publish

Spec == Init /\ [][Next]_vars

-----------------------------------------------------------------------------
\* searchStage4CorridorPlanning.
Found(tenant, anchor, partner) ==
  {m \in models : m.scope.tenant = tenant /\ m.scope.anchor = anchor /\ m.scope.partner = partner}

ReadModels ==
  [of : [Candidates -> Indicators], threshold : Thresholds, scope : Scopes, candidates : SUBSET Evaluations,
   recommendation : [state : {"RESEARCH_MORE", "HOLD", "RECOMMEND_BOUNDED_REVIEW"},
                     candidate : SUBSET Candidates]]

TypeOK ==
  /\ evidence \in [Candidates -> Indicators] /\ models \subseteq ReadModels
  /\ \A m \in models : Cardinality(m.recommendation.candidate) <= 1

Total(of, c) == MapThenSumSet(LAMBDA d : CHOOSE i \in of[c][d] : TRUE, Dimensions)

\* A published recommendation compares like with like: no candidate was missing any
\* evidence, the recommended one reached the threshold and no other one, had it
\* been taken instead, is better by the sum of its evidence; and when all evidence
\* was there and nobody is recommended, nobody reached the threshold.
RecommendationIsBest ==
  \A m \in models :
    LET complete == \A c \in Candidates, d \in Dimensions : m.of[c][d] # {}
        reaches(c) == 100 * Total(m.of, c) >= m.threshold * Cardinality(Dimensions)
    IN /\ m.recommendation.candidate # {} => complete
       /\ complete /\ m.recommendation.candidate = {} => \A c \in Candidates : ~reaches(c)
       /\ \A c \in m.recommendation.candidate :
            /\ reaches(c)
            /\ \A d \in Candidates : Total(m.of, d) <= Total(m.of, c)
=============================================================================
