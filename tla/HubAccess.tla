----------------------------- MODULE HubAccess ------------------------------
(***************************************************************************)
(* Who reads what of a hub: a session carries the workspace context it was *)
(* started with until it ends, restarts of the server included, while the  *)
(* hubs are those of the server that runs.  A read asks for the role of    *)
(* the route, the access to the hub and, last, for the documents of the    *)
(* scope this access gives.                                                *)
(***************************************************************************)
EXTENDS Naturals, Sequences, FiniteSets

CONSTANTS
  Hubs,         \* ids
  HubRecords,   \* versions of a hub: [tenant, region, lifecycle, members, operators, devices]
  Tenant,       \* of the references
  References,   \* principals a session is started for: [role, partner, memberships, region, groups]
  Assignments,  \* [regions -> sets of hubs]
  Documents,    \* [route, tenant, hub, partner]
  MaxSessions, MaxDeployments

VARIABLES
  hubs,         \* [Hubs -> HubRecords], of the deployment that runs
  sessions,     \* contexts of the sessions that live
  deployments,
  answer        \* the last one: {} or {[session, route, hub, documents, view]}

vars == <<hubs, sessions, deployments, answer>>

Roles == {"AGENT", "SUPERVISOR", "OPERATIONS", "PARTNER_ADMIN"}
Purposes == {"HUB_VIEW", "HUB_OPERATE", "HUB_SUPERVISE", "HUB_PARTNER_REVIEW", "HUB_ADMINISTER"}
Lifecycles == {"PLANNED_SYNTHETIC", "ACTIVE_SYNTHETIC", "SUSPENDED_SYNTHETIC", "RETIRED_SYNTHETIC"}

OperatorParses(o) == o.role \in Roles /\ o.active \in BOOLEAN /\ o.purposes # {} /\ o.purposes \subseteq Purposes
MemberParses(m) == m.active \in BOOLEAN /\ m.purposes # {} /\ m.purposes \subseteq Purposes
DeviceParses(d) == d.readiness \in {"READY_SYNTHETIC", "NEEDS_REVIEW", "OUT_OF_SERVICE"}
HubParses(record) ==
  /\ record.lifecycle \in Lifecycles
  /\ \A i \in DOMAIN record.operators : OperatorParses(record.operators[i])
  /\ \A m \in record.members : MemberParses(m)
  /\ \A d \in record.devices : DeviceParses(d)

-----------------------------------------------------------------------------
\* rolePurposes; a context's own purposes are filled from the same table.
RolePurposes(role) ==
  CASE role = "AGENT" -> {"HUB_VIEW", "HUB_OPERATE"}
    [] role = "SUPERVISOR" -> {"HUB_VIEW", "HUB_SUPERVISE"}
    [] role = "OPERATIONS" -> {"HUB_VIEW", "HUB_PARTNER_REVIEW"}
    [] role = "PARTNER_ADMIN" -> {"HUB_VIEW", "HUB_PARTNER_REVIEW", "HUB_ADMINISTER"}

\* contextFromReferencePrincipal: what a session carries from its start on.
ContextOf(reference) ==
  [tenant |-> Tenant, role |-> reference.role, partner |-> reference.partner,
   memberships |-> reference.memberships, region |-> reference.region, groups |-> reference.groups,
   hubs |-> Assignments[reference.region], purposes |-> RolePurposes(reference.role)]

\* Mutant: the partner's state in the hub is not asked for, the session has its
\* memberships.
MemberForMut(record, s, purpose) == \E m \in record.members : m.partner = s.partner /\ purpose \in m.purposes

\* A membership that is not suspended and allows the purpose.
MemberFor(record, s, purpose) ==
  \E m \in record.members : m.partner = s.partner /\ m.active /\ purpose \in m.purposes

\* matchesOperatorAssignment, all that match: a group's assignment needs the group,
\* a role's none.
OperatorsFor(record, s, purpose) ==
  { i \in DOMAIN record.operators :
      LET o == record.operators[i] IN
      /\ o.active /\ o.partner = s.partner /\ o.role = s.role /\ purpose \in o.purposes
      /\ o.groups # {} => o.groups \cap s.groups # {} }

\* authorizeSyntheticHubAccess: the hub's lifecycle is not asked for.
Authorized(s, hub, purpose) ==
  LET record == hubs[hub] IN
  /\ record.tenant = s.tenant /\ record.region = s.region
  /\ hub \in s.hubs /\ s.partner \in s.memberships
  /\ purpose \in s.purposes /\ purpose \in RolePurposes(s.role)
  /\ MemberFor(record, s, purpose) /\ OperatorsFor(record, s, purpose) # {}

\* projectAuthorizedHub, with the first assignment that matches: whose a device is
\* shows only in its own operators' view.
Projection(s, hub, purpose) ==
  LET record == hubs[hub]
      mine == record.operators[CHOOSE i \in OperatorsFor(record, s, purpose) :
                                 \A j \in OperatorsFor(record, s, purpose) : i <= j]
  IN [lifecycle |-> record.lifecycle, operator |-> mine,
      devices |-> {[d EXCEPT !.operator = IF @ = mine.id THEN @ ELSE "null"] : d \in record.devices}]

\* The routes: the roles they are for, and the purpose they ask with; the hub's own
\* route takes the purpose from the query.
RolesOf(route) ==
  CASE route = "liquidity" -> {"SUPERVISOR"}
    [] route \in {"offline-evidence", "traces"} -> {"OPERATIONS", "PARTNER_ADMIN"}
    [] route \in {"hub", "services"} -> Roles
    [] OTHER -> {"SUPERVISOR", "OPERATIONS", "PARTNER_ADMIN"}

PurposesOf(route, role) ==
  CASE route = "hub" -> Purposes
    [] route = "services" /\ role = "AGENT" -> {"HUB_OPERATE"}
    [] route # "hub" /\ role = "SUPERVISOR" -> {"HUB_SUPERVISE"}
    [] OTHER -> {"HUB_PARTNER_REVIEW"}

Routes == {d.route : d \in Documents} \cup {"hub"}

\* The searches by tenant, hub and partner; the neutrality models, of all the
\* hub's partners, are searched by tenant and hub only.
Search(s, route, hub) ==
  {d \in Documents :
     /\ d.route = route /\ d.tenant = hubs[hub].tenant /\ d.hub = hub
     /\ route # "neutrality-governance" => d.partner = s.partner}

-----------------------------------------------------------------------------
Init ==
  /\ hubs \in [Hubs -> HubRecords] /\ sessions = {} /\ deployments = 0 /\ answer = {}

\* session/start, with the context of the reference that was asked for.
StartSession ==
  /\ Cardinality(sessions) < MaxSessions
  /\ \E reference \in References : sessions' = sessions \cup {ContextOf(reference)}
  /\ UNCHANGED <<hubs, deployments, answer>>
EndSession == \E s \in sessions : sessions' = sessions \ {s} /\ UNCHANGED <<hubs, deployments, answer>>

\* A server with other hubs takes over; the sessions are on file.
Deploy ==
  /\ deployments < MaxDeployments /\ deployments' = deployments + 1
  /\ hubs' \in [Hubs -> HubRecords] /\ answer' = {} /\ UNCHANGED sessions

\* requireRole and requireHubAccess.
Admitted(s, route, hub, purpose) == s.role \in RolesOf(route) /\ Authorized(s, hub, purpose)

\* A GET of the hub or of one of its read models.
Read(s, route, hub, purpose) ==
  /\ Admitted(s, route, hub, purpose)
  /\ answer' = {[session |-> s, route |-> route, hub |-> hub, documents |-> Search(s, route, hub),
                 view |-> Projection(s, hub, purpose)]}
  /\ UNCHANGED <<hubs, sessions, deployments>>

\* It is refused and nothing is answered.
Refuse(s, route, hub, purpose) ==
  /\ ~Admitted(s, route, hub, purpose)
  /\ answer' = {} /\ UNCHANGED <<hubs, sessions, deployments>>

Next ==
  \/ StartSession \/ EndSession \/ Deploy
  \/ \E s \in sessions, route \in Routes, hub \in Hubs : \E purpose \in PurposesOf(route, s.role) :
       Read(s, route, hub, purpose) \/ Refuse(s, route, hub, purpose)

Spec == Init /\ [][Next]_vars

-----------------------------------------------------------------------------
TypeOK ==
  /\ hubs \in [Hubs -> HubRecords] /\ \A hub \in Hubs : HubParses(hubs[hub])
  /\ sessions \subseteq {ContextOf(reference) : reference \in References}
  /\ deployments \in 0..MaxDeployments /\ Cardinality(answer) <= 1

\* However old the session that asks, it is answered, and with documents, only
\* while the hub, as it is now, has the session's partner as an active member and an
\* active operator of the session's role at work for it there, in the session's
\* tenant and region; what it gets are that partner's documents, the neutrality
\* models of the hub excepted, and no device is shown as another partner's or
\* another role's.
AnswersFollowTheHub ==
  \A a \in answer :
    LET record == hubs[a.hub]
        staff == {record.operators[i] : i \in DOMAIN record.operators}
        mine == {o \in staff : o.active /\ o.partner = a.session.partner /\ o.role = a.session.role}
    IN
    /\ \E m \in record.members : m.partner = a.session.partner /\ m.active
    /\ mine # {} /\ \A d \in a.view.devices : d.operator \in {o.id : o \in mine} \cup {"null"}
    /\ record.tenant = a.session.tenant /\ record.region = a.session.region
    /\ \A d \in a.documents :
         /\ d.hub = a.hub /\ d.tenant = a.session.tenant
         /\ d.partner = a.session.partner \/ d.route = "neutrality-governance"
    /\ a.session.role = "AGENT" => a.route \in {"hub", "services"}
=============================================================================
