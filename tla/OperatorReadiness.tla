-------------------------- MODULE OperatorReadiness -------------------------
(***************************************************************************)
(* The readiness of a hub's operators and devices: training, certificates, *)
(* suspensions, device reports and support cases as they are gathered for  *)
(* a plan, and the read models published of it, with the review an         *)
(* operator needs to return to service.  Time is in days.                  *)
(***************************************************************************)
EXTENDS Naturals, FiniteSets

CONSTANTS
  Operators,   \* of the plan's partner
  Devices,     \* of the hub
  HubDevice,   \* [Devices -> {} or {the operator it is assigned to}]
  Reports,     \* what may be reported of a device
  Modules,     \* assigned to every operator
  Window,      \* REFRESHER_WINDOW, 30 days
  MaxTime, MaxModels

VARIABLES
  time,
  completed,   \* [Operators -> SUBSET Modules]
  expires,     \* certificates: [Operators -> {} or {the day}]
  suspended,   \* SUBSET Operators
  authorized,  \* [Operators -> SUBSET Devices]
  reported,    \* [Devices -> {} or {a report}]
  support,     \* open escalations: operators and devices
  models       \* read models

vars == <<time, completed, expires, suspended, authorized, reported, support, models>>

Plan == [at |-> time, completed |-> completed, expires |-> expires, suspended |-> suspended,
         authorized |-> authorized, reported |-> reported, support |-> support]

Init ==
  /\ time = 0 /\ completed = [o \in Operators |-> {}] /\ expires = [o \in Operators |-> {}]
  /\ suspended = {} /\ authorized = [o \in Operators |-> {}]
  /\ reported = [d \in Devices |-> {}] /\ support = {} /\ models = {}

-----------------------------------------------------------------------------
Visibilities == {"ASSIGNED_PARTNER", "SHARED_HUB_INFRASTRUCTURE"}
DeviceReports ==
  [visibility : Visibilities, posture : {"READY_SYNTHETIC", "NEEDS_REVIEW", "OUT_OF_SERVICE"},
   sync : {"HEALTHY_SYNTHETIC", "DEGRADED_SYNTHETIC", "OFFLINE_SYNTHETIC", "UNKNOWN"},
   lifecycle : {"ACTIVE_SYNTHETIC", "REPLACEMENT_REVIEW", "RETIRED_SYNTHETIC"}]

\* HubOperatorDeviceReadinessPlanSchema, with the schemas of what is gathered: a
\* completed module is one that was assigned, a case is of an operator or a device.
TrainingParses(p, o) == p.completed[o] \subseteq Modules /\ Cardinality(p.expires[o]) <= 1
SupportParses(x) == x \in Operators \cup Devices
PlanParses(p) ==
  /\ \A o \in Operators : TrainingParses(p, o)
  /\ \A d \in Devices : p.reported[d] \subseteq DeviceReports
  /\ \A x \in p.support : SupportParses(x)

\* validatePlanScope: an authorized device is unassigned or the operator's own, and a
\* partner's device is one that the hub assigned to an operator.
ScopeIsValid(p) ==
  /\ \A o \in Operators, d \in Devices : d \in p.authorized[o] => HubDevice[d] \subseteq {o}
  /\ \A d \in Devices : \A r \in p.reported[d] :
       r.visibility = "ASSIGNED_PARTNER" => HubDevice[d] # {} /\ HubDevice[d] \subseteq Operators

Training(p, o) ==
  CASE p.completed[o] = {} -> "NOT_STARTED"
    [] p.completed[o] # {} /\ Cardinality(p.completed[o]) < Cardinality(Modules) -> "PARTIAL"
    [] OTHER -> "COMPLETE"

\* The bounds are closed: a certificate is expired on its last day, and expiring
\* with exactly the window left.
Certification(p, o) ==
  CASE p.expires[o] = {} -> "NOT_CERTIFIED"
    [] \E e \in p.expires[o] : e <= p.at -> "EXPIRED"
    [] \E e \in p.expires[o] : e > p.at /\ e - p.at <= Window -> "EXPIRING_SOON"
    [] OTHER -> "CURRENT"

Operational(p, o) ==
  CASE o \in p.suspended \/ Certification(p, o) = "EXPIRED" -> "SUSPENDED_REVIEW_REQUIRED"
    [] o \notin p.suspended /\ Certification(p, o) # "EXPIRED"
       /\ (Training(p, o) # "COMPLETE" \/ Certification(p, o) = "NOT_CERTIFIED") -> "TRAINING_REQUIRED"
    [] o \notin p.suspended /\ Training(p, o) = "COMPLETE"
       /\ Certification(p, o) = "EXPIRING_SOON" -> "REFRESHER_REQUIRED"
    [] OTHER -> "READY_SYNTHETIC"

Refresher(p, o) ==
  CASE Certification(p, o) \in {"EXPIRED", "NOT_CERTIFIED"} -> "REQUIRED"
    [] Certification(p, o) = "EXPIRING_SOON" -> "DUE_SOON"
    [] OTHER -> "NOT_REQUIRED"

\* projectOperator.
ProjectOperator(p, o) ==
  [training |-> Training(p, o), certification |-> Certification(p, o), refresher |-> Refresher(p, o),
   operational |-> Operational(p, o), devices |-> p.authorized[o]]
OperatorProjections ==
  [training : {"NOT_STARTED", "PARTIAL", "COMPLETE"},
   certification : {"NOT_CERTIFIED", "CURRENT", "EXPIRING_SOON", "EXPIRED"},
   refresher : {"NOT_REQUIRED", "DUE_SOON", "REQUIRED"},
   operational : {"READY_SYNTHETIC", "TRAINING_REQUIRED", "REFRESHER_REQUIRED", "SUSPENDED_REVIEW_REQUIRED"},
   devices : SUBSET Devices]

\* projectDevice, of a device with evidence.
IsOut(r) ==
  r.lifecycle = "RETIRED_SYNTHETIC" \/ r.posture = "OUT_OF_SERVICE" \/ r.sync = "OFFLINE_SYNTHETIC"
IsDoubtful(r) ==
  r.lifecycle = "REPLACEMENT_REVIEW" \/ r.posture = "NEEDS_REVIEW" \/ r.sync = "DEGRADED_SYNTHETIC"
DeviceState(p, d) ==
  CASE \E r \in p.reported[d] : IsOut(r) -> "OUT_OF_SERVICE"
    [] \E r \in p.reported[d] : ~IsOut(r) /\ (IsDoubtful(r) \/ d \in p.support) -> "NEEDS_REVIEW"
    [] OTHER -> "READY_SYNTHETIC"
DeviceProjections ==
  [visibility : Visibilities, state : {"READY_SYNTHETIC", "NEEDS_REVIEW", "OUT_OF_SERVICE"}]
ProjectDevice(p, d) ==
  {[visibility |-> r.visibility, state |-> DeviceState(p, d)] : r \in p.reported[d]}

\* Mutant: a device without evidence is not looked at.
DeviceReadyMut(p, d) == p.reported[d] = {} \/ DeviceState(p, d) = "READY_SYNTHETIC"

\* A device without evidence has no projection and is not ready.
DeviceReady(p, d) == p.reported[d] # {} /\ DeviceState(p, d) = "READY_SYNTHETIC"

Missing(p, o) ==
  {m \in {"TRAINING_COMPLETE"} : Training(p, o) # "COMPLETE"}
    \cup {m \in {"CERTIFICATION_CURRENT"} : Certification(p, o) # "CURRENT"}
    \cup {m \in {"SUPPORT_ESCALATION_CLOSED"} : o \in p.support}
    \cup {m \in {"AUTHORIZED_DEVICE_READY"} : \E d \in p.authorized[o] : ~DeviceReady(p, d)}

\* buildReturnToServiceReview.
Review(p, o) ==
  CASE Operational(p, o) # "SUSPENDED_REVIEW_REQUIRED" -> "NOT_REQUIRED"
    [] Operational(p, o) = "SUSPENDED_REVIEW_REQUIRED" /\ Missing(p, o) # {} -> "BLOCKED"
    [] OTHER -> "REVIEW_REQUIRED"

Overall(p) ==
  CASE \E o \in Operators : Operational(p, o) = "SUSPENDED_REVIEW_REQUIRED" -> "BLOCKED"
    [] \A o \in Operators : Operational(p, o) = "READY_SYNTHETIC" /\
       \A d \in Devices : p.reported[d] = {} \/ DeviceState(p, d) = "READY_SYNTHETIC" -> "READY_SYNTHETIC"
    [] OTHER -> "REVIEW_REQUIRED"

-----------------------------------------------------------------------------
\* What is gathered for the plan.
Train(o) ==
  \/ \E m \in Modules : completed' = [completed EXCEPT ![o] = @ \cup {m}] /\ UNCHANGED expires
  \/ \E e \in {time + 1, time + Window + 1} :
       expires' = [expires EXCEPT ![o] = {e}] /\ UNCHANGED completed

Operate(o) ==
  \/ suspended' \in {suspended \cup {o}, suspended \ {o}} /\ UNCHANGED authorized
  \/ \E d \in Devices : authorized' = [authorized EXCEPT ![o] = @ \cup {d}] /\ UNCHANGED suspended

ReportDevice(d) ==
  \E r \in Reports : reported' = [reported EXCEPT ![d] = {r}]

Escalate == \E x \in Operators \cup Devices : support' \in {support \cup {x}, support \ {x}}

\* createStage4HubOperatorDeviceReadinessReadModel.
Publish ==
  /\ Cardinality(models) < MaxModels /\ PlanParses(Plan) /\ ScopeIsValid(Plan)
  /\ models' = models \cup
       {[plan |-> Plan, overall |-> Overall(Plan),
         operators |-> [o \in Operators |-> ProjectOperator(Plan, o)],
         devices |-> [d \in Devices |-> ProjectDevice(Plan, d)],
         reviews |-> [o \in Operators |-> Review(Plan, o)]]}

\* searchStage4HubOperatorDeviceReadiness, of a hub's operators that need a reviewer.
Search(state) == {found \in models \X Operators : found[1].reviews[found[2]] = state}

Advance == time < MaxTime /\ time' = time + 1

\* A bound: nothing is gathered once MaxModels read models are out.
Next ==
  /\ Cardinality(models) < MaxModels
  /\ \/ \E o \in Operators :
          \/ Train(o) /\ UNCHANGED <<time, suspended, authorized, reported, support, models>>
          \/ Operate(o) /\ UNCHANGED <<time, completed, expires, reported, support, models>>
     \/ \E d \in Devices :
          ReportDevice(d) /\ UNCHANGED <<time, completed, expires, suspended, authorized, support, models>>
     \/ Escalate /\ UNCHANGED <<time, completed, expires, suspended, authorized, reported, models>>
     \/ Publish /\ UNCHANGED <<time, completed, expires, suspended, authorized, reported, support>>
     \/ Advance /\ UNCHANGED <<completed, expires, suspended, authorized, reported, support, models>>

Spec == Init /\ [][Next]_vars

-----------------------------------------------------------------------------
\* HubOperatorDeviceReadinessReadModelSchema.
ReviewStates == {"NOT_REQUIRED", "REVIEW_REQUIRED", "BLOCKED"}
ReadModelParses(m) ==
  /\ m.operators \in [Operators -> OperatorProjections]
  /\ \A d \in Devices : m.devices[d] \subseteq DeviceProjections
  /\ m.reviews \in [Operators -> ReviewStates]
  /\ m.overall \in {"READY_SYNTHETIC", "REVIEW_REQUIRED", "BLOCKED"}

TypeOK ==
  /\ completed \in [Operators -> SUBSET Modules] /\ suspended \subseteq Operators
  /\ expires \in [Operators -> {{}} \cup {{e} : e \in 0..(MaxTime + Window + 1)}]
  /\ authorized \in [Operators -> SUBSET Devices]
  /\ reported \in [Devices -> {{}} \cup {{r} : r \in Reports}] /\ Reports \subseteq DeviceReports
  /\ Cardinality(models) <= MaxModels /\ \A m \in models : ReadModelParses(m)

\* A reviewer asked to return an operator to service has nothing left but the
\* suspension to decide: had it been lifted the same plan would call the operator
\* ready, with no case open on the operator or on a device it may use, and every
\* such device reported in good order, and not another operator's.  A model with
\* such an operator is never called ready.
LiftingIsEnough ==
  \A found \in Search("REVIEW_REQUIRED") :
    LET m == found[1]
        o == found[2]
        lifted == [m.plan EXCEPT !.suspended = @ \ {o}]
    IN
      /\ Operational(lifted, o) = "READY_SYNTHETIC" /\ m.overall = "BLOCKED"
      /\ o \notin m.plan.support
      /\ \A d \in m.operators[o].devices :
           /\ d \notin m.plan.support /\ HubDevice[d] \subseteq {o}
           /\ Cardinality(m.plan.reported[d]) = 1
           /\ \A r \in m.plan.reported[d] :
                ~IsOut(r) /\ ~IsDoubtful(r) /\ (r.visibility = "ASSIGNED_PARTNER" => HubDevice[d] = {o})
=============================================================================
