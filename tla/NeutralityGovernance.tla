------------------------ MODULE NeutralityGovernance ------------------------
(***************************************************************************)
(* The neutrality plan of a shared hub: versions of its policy with a      *)
(* record for each change, the routes of two partners compared service by  *)
(* service, conflicts declared, decisions, and the read models published   *)
(* of the plan as it stands.  Records come late and in any order.          *)
(***************************************************************************)
EXTENDS Naturals, FiniteSets

CONSTANTS
  MaxVersion,
  Partners,       \* compared with one another
  Offers,         \* what a partner's catalog, contract, route, membership and hub binding say of its service
  Region,         \* of the hub
  Forgettable,    \* rules that a new version may leave behind
  MaxModels

VARIABLES
  version,    \* of the policy
  rules,      \* [RuleKeys -> versions], of the policy's rules
  changes,    \* changeHistory: set of change records
  offer,      \* [Partners -> Offers]
  flags,      \* [partners with a conflict flag -> its state]
  decisions,  \* governance decisions
  models

vars == <<version, rules, changes, offer, flags, decisions, models>>

-----------------------------------------------------------------------------
RuleKeys ==
  {"NO_UNAUTHORIZED_PREFERENTIAL_ROUTING", "ROUTE_PROVENANCE_REQUIRED", "PARTNER_EQUIVALENCE_REVIEW",
   "CONTRACT_SCOPE_PRECEDENCE", "POLICY_CHANGE_REVIEW_REQUIRED", "CONFLICT_DISCLOSURE_REQUIRED",
   "CUSTOMER_DATA_ISOLATION_REQUIRED"}

\* One rule of each key; that they are of the policy's version is asked later.
PolicyParses == DOMAIN rules = RuleKeys /\ \A key \in RuleKeys : rules[key] \in 1..MaxVersion

\* One version up.
ChangeParses(c) ==
  /\ c.to = c.from + 1 /\ c.to \in 1..MaxVersion
  /\ c.review \in {"ACCEPTED_SYNTHETIC", "REVIEW_REQUIRED"}

\* A comparison is of two partners.
Comparisons == {pair \in SUBSET Partners : Cardinality(pair) = 2}

FlagStates == {"NONE_IDENTIFIED_SYNTHETIC", "DECLARED_SYNTHETIC_REVIEW_REQUIRED"}
Outcomes == {"RECORDED_SYNTHETIC", "REVIEW_REQUIRED"}

\* What a decision may be about: a change, a comparison or a flag, by its id.
Refs(versions, pairs, flagged) ==
  {<<"change", v>> : v \in versions} \cup {<<"comparison", pair>> : pair \in pairs}
    \cup {<<"flag", p>> : p \in flagged}
DecisionParses(d) == d.outcome \in Outcomes /\ d.about \in Refs(1..MaxVersion, Comparisons, Partners)

\* The terms of a service that are compared, each with its code.
Mismatch ==
  [type |-> "SERVICE_TYPE_MISMATCH", template |-> "WORKFLOW_TEMPLATE_MISMATCH",
   offline |-> "OFFLINE_POLICY_MISMATCH", inputs |-> "INPUT_DATA_CLASS_MISMATCH", roles |-> "ROLE_CLASS_MISMATCH"]
DifferenceCodes ==
  {Mismatch[term] : term \in DOMAIN Mismatch}
    \cup {"CAPABILITY_MISMATCH", "HUB_REGION_ELIGIBILITY_MISMATCH", "ROUTE_PROVENANCE_INCOMPLETE",
          "CONTRACT_ROUTE_SCOPE_MISMATCH", "HUB_SERVICE_BINDING_MISSING"}

ParticipantParses(p) ==
  {p.eligible, p.registered, p.supports, p.authorized, p.bound} \subseteq BOOLEAN

Results == {"EQUIVALENT_FOR_SYNTHETIC_REVIEW", "DIFFERENCE_REQUIRES_REVIEW", "NOT_COMPARABLE"}
CheckParses(check) == check.result \in Results /\ check.codes \subseteq DifferenceCodes

NeutralityStates == {"NO_SYNTHETIC_EXCEPTION_IDENTIFIED", "REVIEW_REQUIRED", "EVIDENCE_INCOMPLETE"}

\* The plan has something of each kind.
PlanParses ==
  PolicyParses /\ Comparisons # {} /\ changes # {} /\ DOMAIN flags # {} /\ decisions # {}

ReadModelParses(m) ==
  /\ m.state \in NeutralityStates /\ m.checks # {} /\ \A check \in m.checks : CheckParses(check)
  /\ \A c \in m.changes : ChangeParses(c)
  /\ DOMAIN m.flags \subseteq Partners /\ \A d \in m.decisions : DecisionParses(d)

-----------------------------------------------------------------------------
\* participantFromReference: a region is eligible when the service, the contract and
\* the grant all have it; a partner without a grant or a binding still compares.
ParticipantFromReference(o) ==
  [capability |-> o.capability, terms |-> o.terms,
   eligible |-> Region \in o.regions \cap o.contract /\ \E g \in o.grant : Region \in g.regions,
   registered |-> o.registered, supports |-> o.supports,
   authorized |-> \E g \in o.grant : g.route, bound |-> o.binding = "ENABLED_SYNTHETIC"]

Provided(p) == p.registered /\ p.supports

\* compareRouteNeutralityParticipants: two capabilities are not compared at all.
Differences(l, r) ==
  IF l.capability # r.capability THEN {"CAPABILITY_MISMATCH"}
  ELSE {Mismatch[term] : term \in {t \in DOMAIN Mismatch : l.terms[t] # r.terms[t]}}
         \cup {x \in {"HUB_REGION_ELIGIBILITY_MISMATCH"} : ~(l.eligible /\ r.eligible)}
         \cup {x \in {"ROUTE_PROVENANCE_INCOMPLETE"} : ~(Provided(l) /\ Provided(r))}
         \cup {x \in {"CONTRACT_ROUTE_SCOPE_MISMATCH"} : ~(l.authorized /\ r.authorized)}
         \cup {x \in {"HUB_SERVICE_BINDING_MISSING"} : ~(l.bound /\ r.bound)}

Result(codes) ==
  CASE "CAPABILITY_MISMATCH" \in codes -> "NOT_COMPARABLE"
    [] codes = {} -> "EQUIVALENT_FOR_SYNTHETIC_REVIEW"
    [] OTHER -> "DIFFERENCE_REQUIRES_REVIEW"

Checks ==
  { LET p == CHOOSE p \in pair : TRUE
        q == CHOOSE q \in pair : q # p
        codes == Differences(ParticipantFromReference(offer[p]), ParticipantFromReference(offer[q]))
    IN [pair |-> pair, codes |-> codes, result |-> Result(codes)] : pair \in Comparisons }

-----------------------------------------------------------------------------
\* Mutant: only the last change is looked at.
HistoryIsCompleteMut == \E c \in changes : c.to = version /\ \A d \in changes : d.to <= c.to

\* Sorted by the version they lead to, each change starts where the one before
\* ended and the last leads to the policy's version; the first may start anywhere.
HistoryIsComplete ==
  /\ \E c \in changes : c.to = version /\ \A d \in changes : d.to <= c.to
  /\ \A c \in changes : (\E d \in changes : d.to < c.to) => \E d \in changes : d # c /\ d.to = c.from
  /\ \A c, d \in changes : c.to = d.to => c = d

\* validatePlanScope: the rules are of the policy's version, what is compared and who
\* is flagged are members, and a decision is about something in the plan.
ScopeIsValid ==
  /\ \A key \in RuleKeys : rules[key] = version
  /\ HistoryIsComplete
  /\ \A p \in UNION Comparisons \cup DOMAIN flags : offer[p].member
  /\ \A d \in decisions : d.about \in Refs({c.to : c \in changes}, Comparisons, DOMAIN flags)

Incomplete == {"ROUTE_PROVENANCE_INCOMPLETE", "CONTRACT_ROUTE_SCOPE_MISMATCH", "HUB_SERVICE_BINDING_MISSING"}
EvidenceIncomplete == \E check \in Checks : check.codes \cap Incomplete # {}

ReviewRequired ==
  \/ \E c \in changes : c.review = "REVIEW_REQUIRED"
  \/ \E p \in DOMAIN flags : flags[p] = "DECLARED_SYNTHETIC_REVIEW_REQUIRED"
  \/ \E d \in decisions : d.outcome = "REVIEW_REQUIRED"
  \/ \E check \in Checks : check.result = "DIFFERENCE_REQUIRES_REVIEW"

NeutralityState ==
  CASE EvidenceIncomplete -> "EVIDENCE_INCOMPLETE"
    [] ~EvidenceIncomplete /\ ReviewRequired -> "REVIEW_REQUIRED"
    [] OTHER -> "NO_SYNTHETIC_EXCEPTION_IDENTIFIED"

-----------------------------------------------------------------------------
Published == [about |-> <<"change", 1>>, outcome |-> "RECORDED_SYNTHETIC"]

\* The published plan: the first version with its record, no conflict, a decision.
Init ==
  /\ version = 1 /\ rules = [key \in RuleKeys |-> 1]
  /\ changes = {[from |-> 0, to |-> 1, review |-> "ACCEPTED_SYNTHETIC"]}
  /\ offer \in [Partners -> Offers]
  /\ flags = [p \in Partners |-> "NONE_IDENTIFIED_SYNTHETIC"]
  /\ decisions = {Published} /\ models = {}

\* The policy's next version, with its rules or with one left behind; the record of
\* the change comes on its own.
NewVersion ==
  /\ version < MaxVersion /\ version' = version + 1
  /\ rules' \in {[key \in RuleKeys |-> version + 1]}
       \cup {[[key \in RuleKeys |-> version + 1] EXCEPT ![k] = version] : k \in Forgettable}
ReviseRules == rules' = [key \in RuleKeys |-> version] /\ rules' # rules

\* A record comes, is reviewed, or is lost.
RecordChange ==
  \E from \in 0..(MaxVersion - 1), review \in {"ACCEPTED_SYNTHETIC", "REVIEW_REQUIRED"} :
    LET change == [from |-> from, to |-> from + 1, review |-> review] IN
    /\ ChangeParses(change)
    /\ changes' = {c \in changes : c.to # change.to} \cup {change}
LoseChange == \E c \in changes : changes' = changes \ {c}

\* A partner's flag says otherwise, or is no more in the plan.
Flag(p) ==
  \/ \E state \in FlagStates :
       flags' = [q \in DOMAIN flags \cup {p} |-> IF q = p THEN state ELSE flags[q]]
  \/ flags' = [q \in DOMAIN flags \ {p} |-> flags[q]]

\* A decision comes, beside the published one or in its place.
Decide ==
  \E ref \in Refs(1..MaxVersion, Comparisons, Partners), outcome \in Outcomes, kept \in SUBSET {Published} :
    decisions' = kept \cup {[about |-> ref, outcome |-> outcome]}

\* createStage4HubNeutralityGovernanceReadModel.
Publish ==
  /\ PlanParses /\ ScopeIsValid
  /\ models' = models \cup {[version |-> version, changes |-> changes, checks |-> Checks, offer |-> offer,
                             flags |-> flags, decisions |-> decisions, state |-> NeutralityState]}

\* A bound: nothing changes once MaxModels read models are out.
Next ==
  /\ Cardinality(models) < MaxModels /\ UNCHANGED offer
  /\ \/ NewVersion /\ UNCHANGED <<changes, flags, decisions, models>>
     \/ ReviseRules /\ UNCHANGED <<version, changes, flags, decisions, models>>
     \/ (RecordChange \/ LoseChange) /\ UNCHANGED <<version, rules, flags, decisions, models>>
     \/ \E p \in Partners : Flag(p) /\ UNCHANGED <<version, rules, changes, decisions, models>>
     \/ Decide /\ UNCHANGED <<version, rules, changes, flags, models>>
     \/ Publish /\ UNCHANGED <<version, rules, changes, flags, decisions>>

Spec == Init /\ [][Next]_vars

-----------------------------------------------------------------------------
TypeOK ==
  /\ version \in 1..MaxVersion /\ PolicyParses
  /\ offer \in [Partners -> Offers] /\ \A p \in Partners : ParticipantParses(ParticipantFromReference(offer[p]))
  /\ \A c \in changes : ChangeParses(c)
  /\ \A d \in decisions : DecisionParses(d)
  /\ \A m \in models : ReadModelParses(m)

\* What the partner's side must have for its route to be offered in the hub's region.
InPlace(o) ==
  /\ Region \in o.regions \cap o.contract /\ o.registered /\ o.supports
  /\ \E g \in o.grant : Region \in g.regions /\ g.route
  /\ o.binding = "ENABLED_SYNTHETIC"

\* A read model without exceptions hides no reason for a review that its plan has: an
\* accepted record of every version from the oldest it has to its own, no conflict
\* declared, no decision that asks for more or is about something it does not show,
\* and two partners of one capability on the same terms, each with all of its own in
\* place.  Of partners of different capabilities it says nothing: they are not
\* comparable, which is no exception.
NoExceptionIsEarned ==
  \A m \in models : m.state = "NO_SYNTHETIC_EXCEPTION_IDENTIFIED" =>
    /\ LET oldest == CHOOSE v \in {c.to : c \in m.changes} : \A c \in m.changes : v <= c.to
       IN {c.to : c \in m.changes} = oldest..m.version
    /\ \A c \in m.changes : c.review = "ACCEPTED_SYNTHETIC"
    /\ \A p \in DOMAIN m.flags : m.flags[p] = "NONE_IDENTIFIED_SYNTHETIC"
    /\ \A d \in m.decisions :
         /\ d.outcome = "RECORDED_SYNTHETIC"
         /\ d.about \in Refs({c.to : c \in m.changes}, {check.pair : check \in m.checks}, DOMAIN m.flags)
    /\ \A p, q \in Partners :
         p # q /\ m.offer[p].capability = m.offer[q].capability =>
           m.offer[p].terms = m.offer[q].terms /\ InPlace(m.offer[p]) /\ InPlace(m.offer[q])
=============================================================================
