----------------------------- MODULE HubServices ----------------------------
(***************************************************************************)
(* What a hub offers: the services of a partner's catalog that are bound   *)
(* to the hub, decided one by one with the first refusal as the answer,    *)
(* from the registry, contract and catalog that a resolution reads too.    *)
(***************************************************************************)
EXTENDS GovernedRouting

CONSTANT Hubs   \* [region, active, members, bindings]: bindings maps services to a state

-----------------------------------------------------------------------------
BindingStates == {"ENABLED_SYNTHETIC", "DISABLED_SYNTHETIC"}

\* HubServiceCompositionCodeSchema.
Codes ==
  { "AVAILABLE_SYNTHETIC", "HUB_LIFECYCLE_BLOCKED", "HUB_PARTNER_MEMBERSHIP_MISSING",
    "HUB_SERVICE_NOT_CONFIGURED", "HUB_SERVICE_DISABLED", "CATALOG_CONTRACT_INVALID", "PARTNER_SCOPE_DENIED",
    "ROLE_SCOPE_DENIED", "REGION_SCOPE_DENIED", "AGENT_GROUP_SCOPE_DENIED", "SERVICE_SCOPE_DENIED",
    "ROUTE_UNAVAILABLE", "ROUTE_PARTNER_MISMATCH", "ROUTE_SERVICE_NOT_ALLOWED",
    "ROUTE_CAPABILITY_NOT_SUPPORTED", "ADAPTER_METADATA_MISSING", "ADAPTER_ROUTE_MISMATCH", "CAPABILITY_DENIED" }

\* selectedRouteForService, and what the registry has of the route.
RouteFor(service) == IF RoutesFor(service) = {} THEN {} ELSE {RouteOf(FirstRoute(service))}

\* What the contract says of each capability, and the grant that said it.
CapabilityDecision(p, hub, service, c, r) ==
  [capability |-> c, route |-> r.id, adapter |-> r.adapter,
   allowed |-> Access(contract, p, service.id, c, hub.region, r, {x.id : x \in catalog.services}, now)]
CapabilityDecisions(p, hub, service) ==
  UNION {{CapabilityDecision(p, hub, service, c, r) : c \in service.capabilities} : r \in RouteFor(service)}

Bound(hub, service) == service.id \in DOMAIN hub.bindings
Enabled(hub, service) == Bound(hub, service) /\ hub.bindings[service.id] = "ENABLED_SYNTHETIC"

\* The reasons before a route is looked for: the binding, the hub, the catalog, and
\* the scopes of who asks.
HubRefusals(hub, service) ==
  << [code |-> "HUB_SERVICE_NOT_CONFIGURED", holds |-> ~Bound(hub, service)],
     [code |-> "HUB_SERVICE_DISABLED", holds |-> ~Enabled(hub, service)],
     [code |-> "HUB_LIFECYCLE_BLOCKED", holds |-> ~hub.active],
     [code |-> "HUB_PARTNER_MEMBERSHIP_MISSING", holds |-> contract.partner \notin hub.members],
     [code |-> "CATALOG_CONTRACT_INVALID", holds |-> ~CatalogIsValid(catalog, contract, now)] >>
ScopeRefusals(p, role, hub, service) ==
  << [code |-> "PARTNER_SCOPE_DENIED", holds |-> ~p.member],
     [code |-> "ROLE_SCOPE_DENIED", holds |-> role \notin p.roles \cap service.roles],
     [code |-> "REGION_SCOPE_DENIED", holds |-> hub.region \notin p.regions \cap service.regions],
     [code |-> "AGENT_GROUP_SCOPE_DENIED",
      holds |-> service.groups # {} /\ service.groups \cap p.groups = {}],
     [code |-> "SERVICE_SCOPE_DENIED", holds |-> service.id \notin p.services] >>

\* Mutant: the registration's partner and services are taken from the catalog.
RouteRefusalsMut(service) ==
  << [code |-> "ROUTE_UNAVAILABLE", holds |-> RouteFor(service) = {}],
     [code |-> "ROUTE_CAPABILITY_NOT_SUPPORTED",
      holds |-> \E r \in RouteFor(service) : ~(service.capabilities \subseteq r.capabilities)] >>

\* Those of the route and of its adapter, as they are registered.
RouteRefusals(service) ==
  << [code |-> "ROUTE_UNAVAILABLE", holds |-> RouteFor(service) = {}],
     [code |-> "ROUTE_PARTNER_MISMATCH", holds |-> \E r \in RouteFor(service) : r.partner # contract.partner],
     [code |-> "ROUTE_SERVICE_NOT_ALLOWED", holds |-> \E r \in RouteFor(service) : service.id \notin r.services],
     [code |-> "ROUTE_CAPABILITY_NOT_SUPPORTED",
      holds |-> \E r \in RouteFor(service) : ~(service.capabilities \subseteq r.capabilities)],
     [code |-> "ADAPTER_METADATA_MISSING",
      holds |-> \E r \in RouteFor(service) : ~\E a \in adapters : a.id = r.adapter],
     [code |-> "ADAPTER_ROUTE_MISMATCH",
      holds |-> \E r \in RouteFor(service) :
        {r.environment, contract.environment} # {AdapterOf(r).environment}] >>

\* generateHubServiceWorkspaceManifest: the first reason refuses a service.
Refusals(p, role, hub, service) ==
  HubRefusals(hub, service) \o ScopeRefusals(p, role, hub, service) \o RouteRefusals(service)
    \o << [code |-> "CAPABILITY_DENIED", holds |-> \E d \in CapabilityDecisions(p, hub, service) : ~d.allowed] >>

Decision(p, role, hub, service) ==
  LET refusals == Refusals(p, role, hub, service)
      refused == {i \in DOMAIN refusals : refusals[i].holds}
  IN IF refused = {} THEN "AVAILABLE_SYNTHETIC" ELSE refusals[Min(refused)].code

\* The provenance of what is offered: the grant that decided, the route and the
\* adapter with the versions they have.
CapabilityBinding(p, hub, service, d) ==
  [capability |-> d.capability,
   grant |-> contract.grants[Min(GrantsFor(contract, p, service.id, d.capability, hub.region))],
   route |-> d.route, routeVersion |-> RouteOf(d.route).version, adapter |-> d.adapter]
Offering(p, hub, service) ==
  [service |-> service,
   bindings |-> {CapabilityBinding(p, hub, service, d) : d \in CapabilityDecisions(p, hub, service)}]

\* The manifest is refused outright to a contract and a catalog that do not go
\* together.
Served == contract.partner = catalog.partner /\ contract.environment = catalog.environment
Matrix(p, role, hub) ==
  {[service |-> s, configured |-> Bound(hub, s), code |-> Decision(p, role, hub, s)] :
     s \in {x \in catalog.services : Served}}
Offerings(p, role, hub) ==
  {Offering(p, hub, d.service) : d \in {x \in Matrix(p, role, hub) : x.code = "AVAILABLE_SYNTHETIC"}}

\* generateSyntheticWorkspaceForSession: a service as its agent sees it, with the
\* route of its first capability.
WorkspaceServices(p, role, hub) ==
  {[service |-> o.service, route |-> (CHOOSE b \in o.bindings : TRUE).route] : o \in Offerings(p, role, hub)}

-----------------------------------------------------------------------------
\* The types of the decisions on top of those of the routing: none without a code of
\* the schema, and none but of a configured service beyond the first.
TypeOKServices ==
  /\ TypeOK /\ \A hub \in Hubs : \A id \in DOMAIN hub.bindings : hub.bindings[id] \in BindingStates
  /\ \A p \in Principals, role \in ActingRoles, hub \in Hubs : \A d \in Matrix(p, role, hub) :
       d.code \in Codes /\ (d.code # "HUB_SERVICE_NOT_CONFIGURED" => d.configured)

\* The two ways a service is decided never part: a hub's agent sees exactly those of
\* the services bound to it that the manifest of its region would give the same
\* principal, with that manifest's route, and of which every capability resolves on
\* it; and the provenance of an offering names the adapter the resolution would pin
\* and a grant in force.
OfferedResolves ==
  \A p \in Principals, role \in ActingRoles, hub \in Hubs :
    /\ WorkspaceServices(p, role, hub) =
         {item \in Manifest(p, role, hub.region) :
            /\ hub.active /\ contract.partner \in hub.members /\ contract.partner = catalog.partner
            /\ Enabled(hub, item.service)
            /\ \A c \in item.service.capabilities :
                 Resolves(RouteOf(item.route), catalog.partner, catalog.environment, item.service.id, c)}
    /\ \A o \in Offerings(p, role, hub) :
         /\ {b.capability : b \in o.bindings} = o.service.capabilities
         /\ \A b \in o.bindings :
              /\ b.adapter = AdapterOf(RouteOf(b.route)).id /\ b.routeVersion = RouteOf(b.route).version
              /\ Within(b.grant, now) /\ b.route \in b.grant.routes
=============================================================================
