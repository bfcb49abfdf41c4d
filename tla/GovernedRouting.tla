--------------------------- MODULE GovernedRouting --------------------------
(***************************************************************************)
(* How a partner's service reaches an adapter: the registry of adapters    *)
(* and routes that the server fills when it starts, the partner's          *)
(* capability contract and service catalog, of which new versions replace  *)
(* old ones, and the resolution of one attempt, again and again, while     *)
(* these change and time passes.  An adapter is executable when it has a   *)
(* factory.  Data classes and offline policies are one set of "needs";     *)
(* partner classes and objects are left out.                               *)
(***************************************************************************)
EXTENDS Naturals, Sequences, FiniteSets, SequencesExt

CONSTANTS
  AdapterInputs, RouteInputs,   \* registrations that may be tried beside those of the bootstrap
  Contracts, Catalogs,          \* versions that may come into force
  Principals,                   \* [member, roles, regions, groups, services]
  Regions,
  MaxTime

Environments == {"synthetic", "sandbox", "testbed", "staging", "production"}
ActingRoles == {"AGENT", "SUPERVISOR"}

VARIABLES
  adapters, routes,    \* the registry: two maps, as sets of records
  contract, catalog, now,
  mutation,            \* of the attempt: "PRE_SUBMIT", "SUBMITTED" or "AMBIGUOUS"
  resolved             \* resolutions of the attempt, each with what it was given

vars == <<adapters, routes, contract, catalog, now, mutation, resolved>>

-----------------------------------------------------------------------------
\* The registry.
AdapterStatusIn(environment) ==
  CASE environment = "synthetic" -> {"REGISTERED_SYNTHETIC"}
    [] environment = "sandbox" -> {"REGISTERED_SANDBOX"}
    [] environment = "testbed" -> {"REGISTERED_TESTBED"}
    [] OTHER -> {}

RouteStatusIn(environment) ==
  CASE environment = "synthetic" -> {"SYNTHETIC_BOUNDED"}
    [] environment = "sandbox" -> {"SANDBOX_BOUNDED"}
    [] environment = "testbed" -> {"TESTBED_BOUNDED"}
    [] OTHER -> {}

RouteIsUsable(r) == r.status \in RouteStatusIn(r.environment)
AdapterIsUsable(a) == a.executable /\ a.status \in AdapterStatusIn(a.environment)

AdapterMayRegister(a) ==
  /\ \A b \in adapters : b.id # a.id
  /\ a.status \in {"REGISTERED_DISABLED", "SUSPENDED"} \cup AdapterStatusIn(a.environment)
  /\ a.executable => a.status \in AdapterStatusIn(a.environment)

RouteMayRegister(r) ==
  /\ \A q \in routes : q.id # r.id
  /\ \E a \in adapters :
       /\ a.id = r.adapter /\ a.environment = r.environment /\ r.capabilities \subseteq a.capabilities
       /\ RouteIsUsable(r) => a.executable
  /\ r.status \in {"DISABLED", "SUSPENDED"} \cup RouteStatusIn(r.environment)

\* What the server registers when it starts: the two synthetic partners, the
\* foundations of two direct providers, and ArifPay, executable if it is asked for.
Adapter(id, environment, capabilities, status, executable) ==
  [id |-> id, version |-> 1, environment |-> environment, capabilities |-> capabilities,
   status |-> status, executable |-> executable]
Route(id, partner, environment, services, adapter, capabilities, status) ==
  [id |-> id, version |-> 1, partner |-> partner, environment |-> environment, services |-> services,
   adapter |-> adapter, capabilities |-> capabilities, status |-> status]

SyntheticAdapters ==
  { Adapter("alpha", "synthetic", {"LOOKUP", "CASH", "PLAN"}, "REGISTERED_SYNTHETIC", TRUE),
    Adapter("beta", "synthetic", {"LOOKUP", "SAVINGS"}, "REGISTERED_SYNTHETIC", TRUE) }
SyntheticRoutes ==
  { Route("alpha_core", "org_alpha", "synthetic", {"lookup", "cash"}, "alpha", {"LOOKUP", "CASH", "PLAN"}, "SYNTHETIC_BOUNDED"),
    Route("beta_core", "org_beta", "synthetic", {"savings"}, "beta", {"LOOKUP", "SAVINGS"}, "SYNTHETIC_BOUNDED") }

DirectProviderFoundations ==
  { Adapter("telebirr", "testbed", {"C2B", "STATUS"}, "REGISTERED_TESTBED", FALSE),
    Adapter("mpesa", "sandbox", {"C2B", "STATUS"}, "REGISTERED_SANDBOX", FALSE) }

ArifPayAdapter(requested) ==
  Adapter("arifpay", "sandbox", {"C2B", "STATUS"},
          IF requested THEN "REGISTERED_SANDBOX" ELSE "REGISTERED_DISABLED", requested)
ArifPayRoute(requested) ==
  Route("arifpay_c2b", "org_arifpay", "sandbox", {"c2b"}, "arifpay", {"C2B", "STATUS"},
        IF requested THEN "SANDBOX_BOUNDED" ELSE "DISABLED")

-----------------------------------------------------------------------------
\* The schema of a contract, whose active states are named for their environment
\* here: an active contract is of its own environment.
ContractParses(k) ==
  /\ k.state \in {k.environment, "SUSPENDED", "EXPIRED"}
  /\ \A i \in 1..Len(k.grants) :
       k.grants[i].regions \subseteq k.regions /\ k.grants[i].from < k.grants[i].until

Within(span, t) == span.from <= t /\ t < span.until

\* The stage: which states of a grant are usable, and no staging or production.
GrantStateIn(environment) ==
  CASE environment = "synthetic" -> {"SIMULATION_ONLY"}
    [] environment \in {"sandbox", "testbed"} -> {"SANDBOX_BOUNDED"}
    [] OTHER -> {}

Holds(s, Test(_)) == \E i \in DOMAIN s : Test(s[i])

\* evaluatePartnerCapabilityAccess: the grants are narrowed down scope by scope and
\* the first that is left decides.
GrantsFor(k, p, service, capability, region) ==
  {i \in DOMAIN k.grants :
    LET g == k.grants[i] IN
      /\ g.capability = capability /\ service \in g.services
      /\ region \in g.regions
      /\ g.roles \cap p.roles # {}
      /\ g.groups = {} \/ g.groups \cap p.groups # {}}

Access(k, p, service, capability, region, route, published, t) ==
  LET grants == GrantsFor(k, p, service, capability, region) IN
    /\ k.state = k.environment /\ p.member /\ service \in published /\ service \in p.services
    /\ region \in k.regions \cap p.regions
    /\ grants # {}
    /\ LET g == k.grants[Min(grants)] IN
         /\ Within(g, t)
         /\ g.state \in GrantStateIn(k.environment)
         /\ route.id \in g.routes /\ route.environment = k.environment
         /\ capability \in route.capabilities

\* validatePartnerServiceCatalogAgainstContract: one service that does not fit, or
\* is not in its time, and the whole catalog is not valid.
Fits(service, g) ==
  /\ service.roles \subseteq g.roles /\ service.regions \subseteq g.regions
  /\ service.groups \subseteq g.groups /\ ToSet(service.routes) \subseteq g.routes
  /\ service.needs \subseteq g.needs

CatalogIsValid(l, k, t) ==
  /\ l.partner = k.partner /\ l.environment = k.environment
  /\ l.published /\ l.environment \in {"synthetic", "sandbox", "testbed"}
  /\ \A service \in l.services :
       /\ service.regions \subseteq k.regions /\ Within(service, t)
       /\ \A c \in service.capabilities :
            Holds(k.grants, LAMBDA g : g.capability = c /\ service.id \in g.services /\ Fits(service, g))

\* The routes of the service's policy that the registry resolves, and the first.
RoutesFor(service) ==
  {i \in DOMAIN service.routes :
    \E r \in routes : r.id = service.routes[i] /\ RouteIsUsable(r)
                        /\ \E a \in adapters : a.id = r.adapter /\ AdapterIsUsable(a)}
FirstRoute(service) == service.routes[Min(RoutesFor(service))]
RouteOf(id) == CHOOSE r \in routes : r.id = id
AdapterOf(r) == CHOOSE a \in adapters : a.id = r.adapter

\* generatePartnerServiceManifest: the services a principal may act on, with their
\* routes.
Manifest(p, role, region) ==
  IF CatalogIsValid(catalog, contract, now) /\ p.member /\ role \in p.roles /\ region \in p.regions
  THEN {[service |-> service, route |-> FirstRoute(service)] :
          service \in {x \in catalog.services :
            /\ role \in x.roles /\ region \in x.regions
            /\ x.groups = {} \/ x.groups \cap p.groups # {}
            /\ x.id \in p.services
            /\ RoutesFor(x) # {}
            /\ \A c \in x.capabilities :
                 Access(contract, p, x.id, c, region, RouteOf(FirstRoute(x)),
                        {y.id : y \in catalog.services}, now)}}
  ELSE {}

-----------------------------------------------------------------------------
Init ==
  /\ \E requested \in BOOLEAN :
       /\ adapters = SyntheticAdapters \cup DirectProviderFoundations \cup {ArifPayAdapter(requested)}
       /\ routes = SyntheticRoutes \cup {ArifPayRoute(requested)}
  /\ contract \in {k \in Contracts : ContractParses(k)} /\ catalog \in Catalogs
  /\ now = 0 /\ mutation = "PRE_SUBMIT" /\ resolved = <<>>

RegisterAdapter(a) ==
  /\ AdapterMayRegister(a) /\ adapters' = adapters \cup {a}
  /\ UNCHANGED <<routes, contract, catalog, now, mutation, resolved>>

RegisterRoute(r) ==
  /\ RouteMayRegister(r) /\ routes' = routes \cup {r}
  /\ UNCHANGED <<adapters, contract, catalog, now, mutation, resolved>>

\* Another version of the contract or of the catalog, and time.
ContractChanges ==
  /\ \E k \in Contracts : k # contract /\ ContractParses(k) /\ contract' = k
  /\ UNCHANGED <<adapters, routes, catalog, now, mutation, resolved>>

CatalogChanges ==
  /\ \E l \in Catalogs : l # catalog /\ catalog' = l
  /\ UNCHANGED <<adapters, routes, contract, now, mutation, resolved>>

Tick ==
  /\ now < MaxTime /\ now' = now + 1
  /\ UNCHANGED <<adapters, routes, contract, catalog, mutation, resolved>>

\* resolve: the technical checks of the registry.
Resolves(route, partner, environment, service, capability) ==
  /\ route.partner = partner /\ route.environment = environment
  /\ service \in route.services /\ capability \in route.capabilities
  /\ RouteIsUsable(route)
  /\ AdapterIsUsable(AdapterOf(route)) /\ capability \in AdapterOf(route).capabilities

Pins(r) == [route |-> r.route, routeVersion |-> r.routeVersion, adapter |-> r.adapter]

\* Mutant: after the submission too, the route of the manifest is taken.
SelectedMut(route) == TRUE

\* The route of the manifest; once submitted, it has to be the pinned one, of the
\* pinned versions.
Selected(route) ==
  mutation # "PRE_SUBMIT" => route = resolved[Len(resolved)].route

\* resolveGoverned, of which the last resolution before the submission is kept.
Resolve(p, role, region, capability) ==
  /\ catalog.partner = contract.partner
  /\ \E item \in Manifest(p, role, region) :
       LET route == RouteOf(item.route) IN
         /\ capability \in item.service.capabilities
         /\ Selected(item.route)
         /\ Resolves(route, catalog.partner, catalog.environment, item.service.id, capability)
         /\ LET resolution == [route |-> route.id, routeVersion |-> route.version,
                               adapter |-> AdapterOf(route).id, by |-> p, role |-> role,
                               region |-> region, service |-> item.service, capability |-> capability,
                               contract |-> contract, at |-> now]
            IN resolved' = IF mutation = "PRE_SUBMIT" THEN <<resolution>> ELSE <<resolved[1], resolution>>
  /\ UNCHANGED <<adapters, routes, contract, catalog, now, mutation>>

\* The attempt is submitted, and its outcome may stay unknown.
Submit ==
  /\ resolved # <<>>
  /\ \/ mutation = "PRE_SUBMIT" /\ mutation' = "SUBMITTED"
     \/ mutation = "SUBMITTED" /\ mutation' = "AMBIGUOUS"
  /\ UNCHANGED <<adapters, routes, contract, catalog, now, resolved>>

Next ==
  \/ \E a \in AdapterInputs : RegisterAdapter(a)
  \/ \E r \in RouteInputs : RegisterRoute(r)
  \/ ContractChanges \/ CatalogChanges \/ Tick \/ Submit
  \/ \E p \in Principals, role \in ActingRoles, region \in Regions :
       \E capability \in UNION {x.capabilities : x \in UNION {l.services : l \in Catalogs}} :
         Resolve(p, role, region, capability)

Spec == Init /\ [][Next]_vars

-----------------------------------------------------------------------------
TypeOK ==
  /\ \A a \in adapters : a.environment \in Environments /\ a.executable \in BOOLEAN
  /\ \A r \in routes : r.environment \in Environments
  /\ contract \in Contracts /\ catalog \in Catalogs /\ now \in 0..MaxTime
  /\ mutation \in {"PRE_SUBMIT", "SUBMITTED", "AMBIGUOUS"} /\ Len(resolved) <= 2

\* Whatever was registered, in whatever order, a usable route leads to an adapter
\* that runs, of its environment, with all its capabilities.
UsableRoutesRun ==
  \A r \in routes : RouteIsUsable(r) =>
    \E a \in adapters : /\ a.id = r.adapter /\ AdapterIsUsable(a)
                        /\ a.environment = r.environment /\ r.capabilities \subseteq a.capabilities

\* Every resolution was allowed when it was made by one single grant that was in
\* force then, for a role the principal has, and covered the capability, the
\* service, the region and the route; it does not follow that the acting role was
\* the granted one.
ResolutionIsGranted ==
  \A i \in DOMAIN resolved :
    LET r == resolved[i]
    IN Holds(r.contract.grants, LAMBDA g :
         /\ g.capability = r.capability /\ r.service.id \in g.services
         /\ Within(g, r.at) /\ g.state \in GrantStateIn(r.contract.environment)
         /\ g.roles \cap r.by.roles # {} /\ r.region \in g.regions /\ r.route \in g.routes)

\* Once submitted, an attempt is never resolved to another route, version or adapter,
\* whatever contract, catalog or routes have come since.
RouteStaysPinned == Len(resolved) = 2 => Pins(resolved[1]) = Pins(resolved[2])
=============================================================================
