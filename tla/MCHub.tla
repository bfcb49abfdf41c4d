-------------------------------- MODULE MCHub -------------------------------
(***************************************************************************)
(* Parts of the hub that share no state, for TLC.  One of them moves, from *)
(* its initial state, and has the variables x1 to x13 for its own as far   *)
(* as it needs them; those it leaves over are 0.  An instance per part     *)
(* says which variable stands for which of its module.                     *)
(***************************************************************************)
EXTENDS Naturals, FiniteSets, TLC

CONSTANTS
  k1, k2, c1, c2,   \* model values
  \* TransportReceiver
  LedgerRequests, LedgerOpening, LedgerEvents, LedgerAge, LedgerReceipts, LedgerTombstones, LedgerTime,
  LedgerFailedSaves, LedgerRestarts,
  \* PaymentGatewayReconciliation and AuditedRoutes
  GatewayKeys, GatewayTransactions, GatewayRecords, GatewayFaults,
  StatusVariants, StatusCalls, StatusQueries, RouteVariants, RouteCalls, RouteQueries, RouteFaults,
  \* TelebirrPreorder and ProviderFetch
  Preorders, PreorderStores, PreorderRecords, PreorderFaults, FetchBytes, FetchChunks,
  \* SnapshotShadow
  SnapshotStores, SnapshotWorkers, SnapshotVersions, SnapshotRevisions, SnapshotAudit, SnapshotEvents,
  \* PartnerOnboarding
  OnboardingCapabilities, OnboardingDecisions,
  \* HubServices
  ServiceAdapters, ServiceRoutes, ServiceContracts, ServiceCatalogs, ServicePrincipals, ServiceRegions, ServiceTime,
  ServiceHubs,
  \* HubAccess
  AccessHubs, AccessRecords, AccessTenant, AccessReferences, AccessAssignments, AccessDocuments, AccessSessions,
  AccessDeployments,
  \* BrowserClient
  PageCalls, PageKeys, PageAgentKey, PageSessions, PageFaults,
  \* PlanningMatches, HubLiquidity
  MatchNeeders, MatchSources, MatchAmounts, MatchMinutes,
  LiquidityReports, LiquidityHorizons, LiquidityReach, LiquidityTimes, LiquidityAnswers,
  \* OfflineEvidence
  Captures, CaptureAssignments, CaptureTime, CaptureRecords, CaptureAttempts, CaptureTimeline, CaptureEvidence,
  \* CorridorPlanning, EvidenceLineage, OperationsTrace
  CorridorCandidates, CorridorDimensions, CorridorIndices, CorridorThresholds, CorridorScopes, CorridorPlaces,
  CorridorModels,
  LineageRecords, LineageCorrections, LineageDependencies, LineageLimit,
  TraceEvents, TraceRuns, TraceArtifacts, TraceFixtures, TraceCopies,
  \* OperatorReadiness
  StaffOperators, StaffDevices, StaffHubDevice, StaffReports, StaffModules, StaffWindow, StaffTime, StaffModels,
  \* NeutralityGovernance
  PolicyVersions, PolicyPartners, PolicyOffers, PolicyRegion, PolicyForgettable, PolicyModels,
  \* PilotEvidence
  PilotGates, PilotTargets, PilotObservable, PilotAttachable, PilotDecidable, PilotObservations, PilotModels

VARIABLES moving, x1, x2, x3, x4, x5, x6, x7, x8, x9, x10, x11, x12, x13

hubVars == <<moving, x1, x2, x3, x4, x5, x6, x7, x8, x9, x10, x11, x12, x13>>

Symmetry == Permutations({k1, k2}) \cup Permutations({c1, c2})

-----------------------------------------------------------------------------
\* TransportReceiver: the first two do not fit the balance together; the third is
\* a deposit under the key of the second and the number of the first.
Transaction(key, transaction, customer, amount, direction) ==
  [key |-> key, transaction |-> transaction, customer |-> customer,
   amount |-> amount, direction |-> direction]

R1 == Transaction("k1", "t1", "c1", 2, "CASH_OUT")
R2 == Transaction("k2", "t2", "c1", 2, "CASH_OUT")
MCTransactions ==
  {R1, R2, Transaction("k2", "t1", "c1", 1, "CASH_IN")}

\* The third reuses the id of the first for something else and the fourth repeats
\* its request as the second.
Transported(id, sequence, created, request) ==
  [id |-> id, sequence |-> sequence, created |-> created, request |-> request]

MCEvents ==
  { Transported("i1", 1, 0, R1), Transported("i2", 2, 1, R2),
    Transported("i1", 2, 0, R2), Transported("i3", 2, 1, R1) }

\* TelebirrPreorder: every pair of fields that must be unique, shared once.
Preorder(key, transaction, order, nonce, variant) ==
  [key |-> key, transaction |-> transaction, order |-> order, nonce |-> nonce, variant |-> variant]

MCPreorders ==
  { Preorder("k1", "t1", "o1", "n1", 1), Preorder("k1", "t1", "o2", "n1", 1),
    Preorder("k2", "t2", "o1", "n2", 1), Preorder("k3", "t3", "o3", "n1", 1),
    Preorder("k4", "t1", "o4", "n4", 1), Preorder("k5", "t5", "o5", "n5", 1) }

\* HubServices: contracts of which one ends early and one is suspended, catalogs in
\* two orders and one that names another partner's route.
Grant(capability, until) ==
  [capability |-> capability, services |-> {"lookup", "cash"}, roles |-> {"AGENT"},
   regions |-> {"adama"}, groups |-> {}, from |-> 0, until |-> until, state |-> "SIMULATION_ONLY",
   routes |-> {"alpha_core", "alpha_next", "beta_core"}, needs |-> {}]
Contract(state, until) ==
  [partner |-> "org_alpha", environment |-> "synthetic", state |-> state, regions |-> {"adama"},
   grants |-> <<Grant("LOOKUP", until), Grant("CASH", 3)>>]
MCContracts == {Contract("synthetic", 3), Contract("synthetic", 1), Contract("SUSPENDED", 3)}

Service(id, capability, list, until) ==
  [id |-> id, capabilities |-> {capability}, roles |-> {"AGENT"}, regions |-> {"adama"},
   groups |-> {}, routes |-> list, needs |-> {}, from |-> 0, until |-> until]
Catalog(services) ==
  [partner |-> "org_alpha", environment |-> "synthetic", published |-> TRUE, services |-> services]
MCCatalogs ==
  { Catalog({Service("lookup", "LOOKUP", <<"alpha_core", "alpha_next">>, 3),
             Service("cash", "CASH", <<"alpha_core">>, 3)}),
    Catalog({Service("lookup", "LOOKUP", <<"alpha_next", "alpha_core">>, 3),
             Service("cash", "CASH", <<"alpha_next">>, 2)}),
    Catalog({Service("lookup", "LOOKUP", <<"beta_core">>, 3)}) }

MCPrincipals ==
  { [member |-> TRUE, roles |-> {"AGENT", "SUPERVISOR"}, regions |-> {"adama"}, groups |-> {},
     services |-> {"lookup", "cash"}] }

Adapter(capabilities, status, executable) ==
  [id |-> "next", version |-> 1, environment |-> "synthetic", capabilities |-> capabilities,
   status |-> status, executable |-> executable]
MCAdapters ==
  { Adapter({"LOOKUP", "CASH"}, "REGISTERED_SYNTHETIC", TRUE), Adapter({"LOOKUP"}, "SUSPENDED", FALSE) }
Route(status) ==
  [id |-> "alpha_next", version |-> 1, partner |-> "org_alpha", environment |-> "synthetic",
   services |-> {"lookup"}, adapter |-> "next", capabilities |-> {"LOOKUP"}, status |-> status]
MCRoutes == {Route("SYNTHETIC_BOUNDED"), Route("DISABLED")}

MCHubs ==
  { [region |-> "adama", active |-> TRUE, members |-> {"org_alpha"},
     bindings |-> [s \in {"lookup", "cash"} |-> "ENABLED_SYNTHETIC"]],
    [region |-> "arisi", active |-> FALSE, members |-> {}, bindings |-> [s \in {"cash"} |-> "DISABLED_SYNTHETIC"]] }

\* HubAccess: deployments in which a partner was suspended or an operator removed,
\* and one of another tenant.
Member(partner, active) ==
  [partner |-> partner, active |-> active,
   purposes |-> {"HUB_VIEW", "HUB_OPERATE", "HUB_SUPERVISE", "HUB_PARTNER_REVIEW", "HUB_ADMINISTER"}]
Operator(id, partner, role, purpose, groups, active) ==
  [id |-> id, partner |-> partner, role |-> role, groups |-> groups, active |-> active,
   purposes |-> {"HUB_VIEW", purpose}]
Staff ==
  << Operator("field", "alpha", "AGENT", "HUB_OPERATE", {"field"}, TRUE),
     Operator("betafield", "beta", "AGENT", "HUB_OPERATE", {"field"}, TRUE),
     Operator("lead", "alpha", "SUPERVISOR", "HUB_SUPERVISE", {}, TRUE),
     Operator("desk", "alpha", "OPERATIONS", "HUB_PARTNER_REVIEW", {}, TRUE) >>
HubDevices ==
  {[readiness |-> "READY_SYNTHETIC", operator |-> "field"], [readiness |-> "NEEDS_REVIEW", operator |-> "null"],
   [readiness |-> "READY_SYNTHETIC", operator |-> "lead"]}
HubRecord(members, operators) ==
  [tenant |-> "stage4", region |-> "adama", lifecycle |-> "ACTIVE_SYNTHETIC", members |-> members,
   operators |-> operators, devices |-> HubDevices]
MCHubRecords ==
  { HubRecord({Member("alpha", TRUE), Member("beta", TRUE)}, Staff),
    HubRecord({Member("alpha", FALSE), Member("beta", TRUE)}, Staff),
    HubRecord({Member("alpha", TRUE)},
              << Operator("lead", "alpha", "SUPERVISOR", "HUB_SUPERVISE", {}, FALSE),
                 Operator("desk", "alpha", "OPERATIONS", "HUB_PARTNER_REVIEW", {"desk"}, TRUE) >>),
    [HubRecord({Member("alpha", TRUE)}, Staff) EXCEPT !.tenant = "denial", !.lifecycle = "RETIRED_SYNTHETIC"] }
Reference(role, partner) ==
  [role |-> role, partner |-> partner, memberships |-> {partner}, region |-> "adama",
   groups |-> IF role = "AGENT" THEN {"field"} ELSE {}]
MCAssignments == [adama |-> {"h1"}]
MCReferences == {Reference("AGENT", "beta"), Reference("SUPERVISOR", "alpha"), Reference("OPERATIONS", "alpha")}
MCDocuments ==
  { [route |-> r, tenant |-> "stage4", hub |-> "h1", partner |-> p] :
      r \in {"services", "economics", "neutrality-governance", "liquidity", "traces"}, p \in {"alpha", "beta"} }

\* BrowserClient.
MCAgentKey == [role |-> "AGENT", workspace |-> "adama"]
MCKeys == {MCAgentKey, [role |-> "OPERATIONS", workspace |-> "adama"]}

\* HubLiquidity: two observations of one instant in different offsets, one older
\* than another and less trusted, one id in two scopes.
Need(baseline, scheduled) ==
  "2H" :> [baseline |-> baseline, scheduled |-> 0] @@ "EOD" :> [baseline |-> baseline, scheduled |-> scheduled]
Observed(id, scope, at, text, trust, cash, need) ==
  [id |-> id, scope |-> scope, at |-> at, text |-> text, trust |-> trust, cash |-> cash, float |-> 1,
   need |-> need]
MCReportable ==
  { Observed(3, "s1", 0, "Z", 90, 1, Need(2, 2)), Observed(2, "s1", 15, "Z", 70, 3, Need(1, 5)),
    Observed(1, "s1", 61, "Z", 35, 1, Need(2, 0)), Observed(4, "s1", 15, "+03", 90, 2, Need(3, 0)),
    Observed(4, "s2", 0, "Z", 90, 1, Need(2, 0)) }

\* OfflineEvidence: a request that expires early, its retry over another route and
\* in another capture, and another key.
Capture(scope, hub, digest, route, expires, correlation, capturedAt) ==
  [scope |-> scope, hub |-> hub, digest |-> digest, route |-> route, assignment |-> "none",
   expires |-> expires, correlation |-> correlation, capturedAt |-> capturedAt]
MCCaptures ==
  { Capture("k1", "h1", "d1", "r1", 1, "c1", 1), Capture("k1", "h1", "d1", "r2", 2, "c2", 2),
    Capture("k2", "h2", "d2", "r1", 2, "c2", 1) }

\* CorridorPlanning: a partner that is a member of the anchor and one that is not.
AnchorHub == [tenant |-> "t1", region |-> "r1", partners |-> {"alpha", "beta"}, members |-> {"alpha"}]
MCScopes ==
  { [tenant |-> "t1", anchor |-> AnchorHub, partner |-> p, regions |-> {"r1", "r2"}] : p \in {"alpha", "beta"} }
MCPlaces == {[region |-> "r1", hub |-> {AnchorHub}], [region |-> "r2", hub |-> {}]}

\* EvidenceLineage: a chain, a cycle, two corrections with one replacement, one that
\* is of another scope, and derivations that close a cycle.
Recorded(id, scope, at, digest) ==
  [id |-> id, scope |-> scope, at |-> at, class |-> "SYNTHETIC", integrity |-> "INTEGRITY_VERIFIED", digest |-> digest,
   authority |-> "EXTERNAL_AUTHORITY_UNKNOWN"]
Correction(id, scope, old, new, at) == [id |-> id, scope |-> scope, old |-> old, new |-> new, at |-> at]
Dependency(id, derived, sources) ==
  [id |-> id, scope |-> "s", derived |-> derived, sources |-> sources,
   targets |-> IF derived = "d" /\ "a" \in sources THEN {"FARMER360"} ELSE {"EVIDENCE_EXPLORER", "ARDI_DECISION_SUPPORT"}]
MCRecordable ==
  { Recorded("a", "s", 1, TRUE), Recorded("b", "s", 1, TRUE), Recorded("c", "s", 1, TRUE),
    Recorded("d", "s", 2, TRUE), Recorded("e", "z", 1, TRUE), Recorded("e", "z", 1, FALSE) }
MCCorrections ==
  { Correction("k1", "s", "a", "b", 1), Correction("k2", "s", "b", "a", 2), Correction("k3", "s", "c", "b", 2),
    Correction("k4", "s", "a", "c", 1), Correction("k5", "s", "b", "d", 3), Correction("k6", "z", "e", "a", 1) }
MCDependencies ==
  { Dependency("x1", "d", {"a"}), Dependency("x2", "c", {"d", "b"}), Dependency("x3", "b", {"c"}),
    Dependency("x3", "d", {"b"}), Dependency("x4", "a", {"a"}) }

\* OperationsTrace: instants whose texts sort otherwise, an event id in two runs.
Whole == {"service", "capability", "contractVersions", "route", "adapter", "routeVersions"}
Emitted(event, correlation, run, scope, text, transport, authority, outcome, detail) ==
  [event |-> event, correlation |-> correlation, run |-> run, scope |-> scope, text |-> text,
   transport |-> transport, authority |-> authority, outcome |-> outcome, detail |-> detail,
   links |-> Whole, limits |-> {"NO_SETTLEMENT_AUTHORITY"}]
Failing ==
  Emitted(4, "c2", "r2", "s1", 1, "TRANSPORT_FAILED_SYNTHETIC", "NO_AUTHORITY_ASSERTED", "UNVERIFIED", "none")
MCWorkflowEvents ==
  { Emitted(2, "c1", "r1", "s1", 3, "QUEUED_SYNTHETIC", "PARTNER_REVIEW_REQUIRED", "DEFERRED", "RETRY_OBSERVED"),
    Emitted(3, "c1", "r1", "s1", 2, "SUBMITTED_SYNTHETIC", "PARTNER_REVIEW_REQUIRED", "UNVERIFIED",
            "RECONCILIATION_REQUIRED"),
    Emitted(4, "c2", "r1", "s2", 1, "PROVIDER_PENDING_SYNTHETIC", "PARTNER_REVIEW_REQUIRED", "RECORDED",
            "CONFLICT_REVIEW_REQUIRED"),
    Failing, [Failing EXCEPT !.links = Whole \ {"routeVersions"}],
    Emitted(5, "c2", "r1", "s1", 2, "PROVIDER_EVIDENCE_RECEIVED_SYNTHETIC", "PARTNER_AUTHORIZED_SYNTHETIC",
            "COMPLETED_SYNTHETIC", "none") }
MCFixtures ==
  { [members |-> "h1" :> {"alpha"}, served |-> "alpha" :> {"r1", "r2"}, routes |-> known] :
      known \in {{"r1", "r2"}, {"r1"}} }
MCArtifacts ==
  {[id |-> "x", integrity |-> "PENDING", digest |-> FALSE]}

\* OperatorReadiness, NeutralityGovernance, PilotEvidence.
MCHubDevice == "d1" :> {"o1"} @@ "d2" :> {}
DeviceReport(visibility, posture, sync) ==
  [visibility |-> visibility, posture |-> posture, sync |-> sync, lifecycle |-> "ACTIVE_SYNTHETIC"]
MCReports ==
  { DeviceReport("ASSIGNED_PARTNER", "READY_SYNTHETIC", "HEALTHY_SYNTHETIC"),
    DeviceReport("SHARED_HUB_INFRASTRUCTURE", "READY_SYNTHETIC", "HEALTHY_SYNTHETIC"),
    DeviceReport("SHARED_HUB_INFRASTRUCTURE", "READY_SYNTHETIC", "OFFLINE_SYNTHETIC") }

Terms(type) ==
  [type |-> type, template |-> "LOOKUP", offline |-> "DENY", inputs |-> {"account"}, roles |-> {"AGENT"}]
Offered(capability, type, regions, grant, binding) ==
  [capability |-> capability, terms |-> Terms(type), regions |-> regions, contract |-> {"adama"}, grant |-> grant,
   registered |-> TRUE, supports |-> TRUE, binding |-> binding, member |-> TRUE]
Granted == {[regions |-> {"adama"}, route |-> TRUE]}
WholeOffer == Offered("LOOKUP", "A", {"adama"}, Granted, "ENABLED_SYNTHETIC")
MCOffers ==
  { WholeOffer, Offered("LOOKUP", "B", {"adama"}, {}, "none"), [WholeOffer EXCEPT !.contract = {"arisi"}],
    [WholeOffer EXCEPT !.grant = {[regions |-> {"arisi"}, route |-> TRUE]}],
    [WholeOffer EXCEPT !.grant = {[regions |-> {"adama"}, route |-> FALSE]}],
    [Offered("SAVINGS", "A", {"arisi"}, Granted, "ENABLED_SYNTHETIC") EXCEPT !.registered = FALSE],
    [WholeOffer EXCEPT !.member = FALSE] }

Constraint(metric, comparator, threshold) ==
  [metric |-> metric, comparator |-> comparator, threshold |-> threshold, unit |-> "BASIS_POINTS"]
MCTargets ==
  "p1" :> {Constraint("profit", "GT", 1)} @@
  "p2" :> {Constraint("churn", "LTE", 1), Constraint("uptake", "GTE", 1)}
Observation(gate, metric, value) ==
  [gate |-> gate, metric |-> metric, value |-> value, unit |-> "BASIS_POINTS", class |-> "SYNTHETIC_TEST_FIXTURE"]
MCObservable ==
  { Observation("p1", "profit", v) : v \in {1, 2} } \cup { Observation("p2", "churn", v) : v \in {1, 2} }
    \cup { Observation("p2", "uptake", 1), [Observation("p2", "uptake", 1) EXCEPT !.unit = "SECONDS"],
           [Observation("p1", "profit", 2) EXCEPT !.class = "REAL_PILOT_OBSERVATION"] }
Attached(gate, class) ==
  [gate |-> gate, class |-> class, digest |-> FALSE, integrity |-> "REFERENCE_RECORDED", external |-> FALSE,
   real |-> FALSE]
MCAttachable ==
  {Attached("p1", "REPOSITORY_TEST"), Attached("p2", "REPOSITORY_TEST"), Attached("p2", "EXTERNAL_EVIDENCE")}

-----------------------------------------------------------------------------
\* The first three are the modules of their proofs, whose lemmas are cited of them.
Tr == INSTANCE TransportReceiverProofs WITH
       ledger <- x1, ledgerFile <- x2, outcome <- x3, eligible <- x4, told <- x5,
       failedSaves <- x6, restarts <- x7, receiver <- x8, receiverFile <- x9, now <- x10,
       receipted <- x11,
       Requests <- LedgerRequests, Opening <- LedgerOpening, Events <- LedgerEvents, AgeLimit <- LedgerAge,
       ReceiptRetention <- LedgerReceipts, TombstoneRetention <- LedgerTombstones, MaxTime <- LedgerTime,
       MaxFailedSaves <- LedgerFailedSaves, MaxRestarts <- LedgerRestarts
Re == INSTANCE PaymentGatewayReconciliationProofs WITH
       memory <- x1, file <- x2, call <- x3, network <- x4, posts <- x5, faults <- x6,
       status <- x7, statusFile <- x8, query <- x9, provider <- x10,
       Keys <- GatewayKeys, Transactions <- GatewayTransactions, Variants <- StatusVariants, Calls <- StatusCalls,
       Queries <- StatusQueries, MaxRecords <- GatewayRecords, MaxFaults <- GatewayFaults
Ro == INSTANCE AuditedRoutesProofs WITH
       memory <- x1, file <- x2, call <- x3, network <- x4, posts <- x5, faults <- x6,
       status <- x7, statusFile <- x8, query <- x9, provider <- x10, log <- x11,
       route <- x12, told <- x13,
       Keys <- GatewayKeys, Transactions <- GatewayTransactions, Variants <- RouteVariants, Calls <- RouteCalls,
       Queries <- RouteQueries, MaxRecords <- GatewayRecords, MaxFaults <- RouteFaults
Te == INSTANCE TelebirrPreorder WITH
       file <- x1, store <- x2, told <- x3, faults <- x4,
       Requests <- Preorders, Stores <- PreorderStores, MaxRecords <- PreorderRecords, MaxFaults <- PreorderFaults
Fe == INSTANCE ProviderFetch WITH
       stage <- x1, timer <- x2, aborted <- x3, body <- x4, total <- x5, held <- x6,
       outcome <- x7,
       MaxBytes <- FetchBytes, ChunkSizes <- FetchChunks
Sn == INSTANCE SnapshotShadow WITH
       file <- x1, events <- x2, row <- x3, eventRow <- x4, job <- x5, removed <- x6,
       StoreCount <- SnapshotStores, Workers <- SnapshotWorkers, MaxVersion <- SnapshotVersions,
       MaxRowRevision <- SnapshotRevisions, AuditLimit <- SnapshotAudit, MaxEvents <- SnapshotEvents
On == INSTANCE PartnerOnboarding WITH
       organization <- x1, capability <- x2, decided <- x3, trail <- x4,
       Capabilities <- OnboardingCapabilities, MaxDecisions <- OnboardingDecisions
Se == INSTANCE HubServices WITH
       adapters <- x1, routes <- x2, contract <- x3, catalog <- x4, now <- x5,
       mutation <- x6, resolved <- x7,
       AdapterInputs <- ServiceAdapters, RouteInputs <- ServiceRoutes, Contracts <- ServiceContracts,
       Catalogs <- ServiceCatalogs, Principals <- ServicePrincipals, Regions <- ServiceRegions,
       MaxTime <- ServiceTime, Hubs <- ServiceHubs
Ac == INSTANCE HubAccess WITH
       hubs <- x1, sessions <- x2, deployments <- x3, answer <- x4,
       Hubs <- AccessHubs, HubRecords <- AccessRecords, Tenant <- AccessTenant, References <- AccessReferences,
       Assignments <- AccessAssignments, Documents <- AccessDocuments, MaxSessions <- AccessSessions,
       MaxDeployments <- AccessDeployments
Br == INSTANCE BrowserClient WITH
       sessions <- x1, cookie <- x2, token <- x3, role <- x4, inFlight <- x5, calls <- x6,
       faults <- x7,
       Calls <- PageCalls, Keys <- PageKeys, AgentKey <- PageAgentKey, MaxSessions <- PageSessions,
       MaxFaults <- PageFaults
Pl == INSTANCE PlanningMatches WITH
       planner <- x1, holds <- x2, wants <- x3, reorder <- x4, source <- x5, left <- x6,
       queue <- x7, matches <- x8,
       Needers <- MatchNeeders, Sources <- MatchSources, Amounts <- MatchAmounts, MaxMinutes <- MatchMinutes
Li == INSTANCE HubLiquidity WITH
       now <- x1, reported <- x2, answers <- x3,
       Reportable <- LiquidityReports, Horizons <- LiquidityHorizons, Reach <- LiquidityReach,
       Times <- LiquidityTimes, MaxAnswers <- LiquidityAnswers
Of == INSTANCE OfflineEvidence WITH
       now <- x1, queue <- x2, reservation <- x3, evidence <- x4, repeated <- x5,
       Requests <- Captures, Assignments <- CaptureAssignments, MaxTime <- CaptureTime, MaxRecords <- CaptureRecords,
       MaxAttempts <- CaptureAttempts, MaxTimeline <- CaptureTimeline, MaxEvidence <- CaptureEvidence
Co == INSTANCE CorridorPlanning WITH
       evidence <- x1, place <- x2, scope <- x3, threshold <- x4, models <- x5,
       Candidates <- CorridorCandidates, Dimensions <- CorridorDimensions, Indices <- CorridorIndices,
       Thresholds <- CorridorThresholds, Scopes <- CorridorScopes, Places <- CorridorPlaces,
       MaxModels <- CorridorModels
Ln == INSTANCE EvidenceLineage WITH
       records <- x1, corrections <- x2, dependencies <- x3,
       Recordable <- LineageRecords, Corrections <- LineageCorrections, Dependencies <- LineageDependencies,
       Limit <- LineageLimit
Ot == INSTANCE OperationsTrace WITH
       emitted <- x1, manifest <- x2, traces <- x3,
       Events <- TraceEvents, Runs <- TraceRuns, Artifacts <- TraceArtifacts, Fixtures <- TraceFixtures,
       MaxCopies <- TraceCopies
Op == INSTANCE OperatorReadiness WITH
       time <- x1, completed <- x2, expires <- x3, suspended <- x4, authorized <- x5,
       reported <- x6, support <- x7, models <- x8,
       Operators <- StaffOperators, Devices <- StaffDevices, HubDevice <- StaffHubDevice, Reports <- StaffReports,
       Modules <- StaffModules, Window <- StaffWindow, MaxTime <- StaffTime, MaxModels <- StaffModels
Ne == INSTANCE NeutralityGovernance WITH
       version <- x1, rules <- x2, changes <- x3, offer <- x4, flags <- x5,
       decisions <- x6, models <- x7,
       MaxVersion <- PolicyVersions, Partners <- PolicyPartners, Offers <- PolicyOffers, Region <- PolicyRegion,
       Forgettable <- PolicyForgettable, MaxModels <- PolicyModels
Pi == INSTANCE PilotEvidence WITH
       observations <- x1, artifacts <- x2, decision <- x3, reviews <- x4, scale <- x5,
       member <- x6, models <- x7,
       Gates <- PilotGates, Targets <- PilotTargets, Observable <- PilotObservable, Attachable <- PilotAttachable,
       Decidable <- PilotDecidable, MaxObservations <- PilotObservations, MaxModels <- PilotModels

\* What the proofs use of the constants.  The code has seven dimensions; a readiness
\* in basis points tells the sums of a hundred percentages apart, and of no more.
ASSUME HubAssumption ==
  /\ Tr!Sized /\ Ro!Apart
  /\ GatewayRecords \in Nat /\ GatewayFaults \in Nat /\ RouteFaults \in Nat
  /\ FetchBytes \in Nat /\ FetchChunks \subseteq Nat
  /\ {PreorderFaults, SnapshotStores, SnapshotVersions, SnapshotEvents, PageSessions, ServiceTime, AccessDeployments,
      CaptureRecords, CaptureAttempts, LineageLimit, StaffTime, StaffWindow, StaffModels,
      PilotObservations} \subseteq Nat
  /\ {SnapshotRevisions, OnboardingDecisions, CaptureTime, PolicyVersions} \subseteq Nat \ {0}
  /\ PageAgentKey \in PageKeys
  /\ \A r \in Captures :
       r = Capture(r.scope, r.hub, r.digest, r.route, r.expires, r.correlation, r.capturedAt)
  /\ \A record \in AccessRecords :
       /\ Ac!HubParses(record) /\ DOMAIN record.operators \subseteq Nat
       /\ \A d \in record.devices : "operator" \in DOMAIN d
  /\ \A a \in ServiceAdapters : a.environment \in Se!Environments /\ a.executable \in BOOLEAN
  /\ \A r \in ServiceRoutes : r.environment \in Se!Environments
  /\ \A hub \in ServiceHubs : \A id \in DOMAIN hub.bindings : hub.bindings[id] \in Se!BindingStates
  /\ \A k \in ServiceContracts : DOMAIN k.grants \subseteq Nat
  /\ \A l \in ServiceCatalogs : \A service \in l.services :
       DOMAIN service.routes \subseteq Nat /\ service.capabilities # {}
  /\ LiquidityTimes \subseteq Nat /\ \A o \in LiquidityReports : {o.at, o.id, o.trust} \subseteq Nat /\ o.trust <= 100
  /\ IsFiniteSet(MatchNeeders) /\ MatchNeeders # {} /\ IsFiniteSet(MatchSources) /\ MatchAmounts \subseteq Nat \ {0}
  /\ IsFiniteSet(CorridorCandidates) /\ CorridorCandidates \subseteq Nat
  /\ IsFiniteSet(CorridorDimensions) /\ Cardinality(CorridorDimensions) \in 1..100
  /\ CorridorIndices \subseteq 0..100 /\ CorridorThresholds \subseteq Nat
  /\ \A r \in LineageRecords : r.at \in Nat
  /\ \A e \in TraceEvents : e.text \in Nat /\ e.event \in Nat
  /\ StaffReports \subseteq Op!DeviceReports /\ PilotDecidable \subseteq Pi!DecisionKinds
  /\ \A o \in PolicyOffers :
       /\ o.terms = [term \in DOMAIN Ne!Mismatch |-> o.terms[term]] /\ {o.registered, o.supports} \subseteq BOOLEAN
       /\ \A g, h \in o.grant : g = h

After11 == <<x12, x13>>
After10 == <<x11, After11>>
After8 == <<x9, x10, After10>>
After7 == <<x8, After8>>
After6 == <<x7, After7>>
After5 == <<x6, After6>>
After4 == <<x5, After5>>
After3 == <<x4, After4>>
No11 == x12 = 0 /\ x13 = 0
No10 == x11 = 0 /\ No11
No8 == x9 = 0 /\ x10 = 0 /\ No10
No7 == x8 = 0 /\ No8
No6 == x7 = 0 /\ No7
No5 == x6 = 0 /\ No6
No4 == x5 = 0 /\ No5
No3 == x4 = 0 /\ No4

\* Some start in a part of their initial states only: the other half of the matches
\* has its sources the other way round, one agent's requirement stays, the gateway
\* that services never use is there, the second candidate has no hub, and one partner is
\* a member that offers lookups.
HubInit ==
  \/ moving = "ledger" /\ Tr!InitTransport /\ No11
  \/ moving = "statuses" /\ Re!InitReconciliation /\ No10
  \/ moving = "routes" /\ Ro!InitRoutes
  \/ moving = "preorders" /\ Te!Init /\ No4
  \/ moving = "fetches" /\ Fe!Init /\ No7
  \/ moving = "snapshots" /\ Sn!Init /\ No6
  \/ moving = "onboarding" /\ On!Init /\ No4
  \/ moving = "services" /\ Se!Init /\ Se!ArifPayRoute(TRUE) \in x2 /\ No7
  \/ moving = "access" /\ Ac!Init /\ No4
  \/ moving = "browser" /\ Br!Init /\ No7
  \/ moving = "matches" /\ Pl!Init /\ x3[1] = 2000 /\ x5[1].minutes = 1 /\ No8
  \/ moving = "liquidity" /\ Li!Init /\ No3
  \/ moving = "offline" /\ Of!Init /\ No5
  \/ moving = "corridor" /\ Co!Init /\ x2[2].region = "r2" /\ No5
  \/ moving = "lineage" /\ Ln!Init /\ No3
  \/ moving = "traces" /\ Ot!Init /\ No3
  \/ moving = "readiness" /\ Op!Init /\ No8
  \/ moving = "neutrality" /\ Ne!Init /\ x4["alpha"] = WholeOffer /\ No7
  \/ moving = "pilot" /\ Pi!Init /\ No7

HubNext ==
  /\ UNCHANGED moving
  /\ \/ moving = "ledger" /\ Tr!NextTransport /\ UNCHANGED After11
     \/ moving = "statuses" /\ Re!NextReconciliation /\ UNCHANGED After10
     \/ moving = "routes" /\ Ro!NextRoutes
     \/ moving = "preorders" /\ Te!Next /\ UNCHANGED After4
     \/ moving = "fetches" /\ Fe!Next /\ UNCHANGED After7
     \/ moving = "snapshots" /\ Sn!Next /\ UNCHANGED After6
     \/ moving = "onboarding" /\ On!Next /\ UNCHANGED After4
     \/ moving = "services" /\ Se!Next /\ UNCHANGED After7
     \/ moving = "access" /\ Ac!Next /\ UNCHANGED After4
     \/ moving = "browser" /\ Br!Next /\ UNCHANGED After7
     \/ moving = "matches" /\ Pl!Next /\ UNCHANGED After8
     \/ moving = "liquidity" /\ Li!Next /\ UNCHANGED After3
     \/ moving = "offline" /\ Of!Next /\ UNCHANGED After5
     \/ moving = "corridor" /\ Co!Next /\ UNCHANGED After5
     \/ moving = "lineage" /\ Ln!Next /\ UNCHANGED After3
     \/ moving = "traces" /\ Ot!Next /\ UNCHANGED After3
     \/ moving = "readiness" /\ Op!Next /\ UNCHANGED After8
     \/ moving = "neutrality" /\ Ne!Next /\ UNCHANGED After7
     \/ moving = "pilot" /\ Pi!Next /\ UNCHANGED After7

HubSpec == HubInit /\ [][HubNext]_hubVars

-----------------------------------------------------------------------------
\* The types of the part that moves.
TypeOKHub ==
  CASE moving = "ledger" -> Tr!TypeOKTransport
    [] moving = "statuses" -> Re!TypeOKReconciliation
    [] moving = "routes" -> Ro!TypeOKRoutes
    [] moving = "preorders" -> Te!TypeOK
    [] moving = "fetches" -> Fe!TypeOK
    [] moving = "snapshots" -> Sn!TypeOK
    [] moving = "onboarding" -> On!TypeOK
    [] moving = "services" -> Se!TypeOKServices
    [] moving = "access" -> Ac!TypeOK
    [] moving = "browser" -> Br!TypeOK
    [] moving = "matches" -> Pl!TypeOK
    [] moving = "liquidity" -> Li!TypeOK
    [] moving = "offline" -> Of!TypeOK
    [] moving = "corridor" -> Co!TypeOK
    [] moving = "lineage" -> Ln!TypeOK
    [] moving = "traces" -> Ot!TypeOK
    [] moving = "readiness" -> Op!TypeOK
    [] moving = "neutrality" -> Ne!TypeOK
    [] moving = "pilot" -> Pi!TypeOK

\* A receipt says what the ledger says, numbers are posted in turn, and no event is
\* receipted again.
ReceiptsHaveResults == moving = "ledger" => Tr!ReceiptsHaveResults /\ Tr!ReceiptedOnce

\* The recorded results account for the balance, one for each transaction.
BalanceIsExplained == moving = "ledger" => Tr!BalanceIsExplained /\ Tr!OneResultPerTransaction

\* What a caller of the ledger was told is on file.
ToldIsDurable == moving = "ledger" => Tr!ToldIsDurable

\* A terminal status is the provider's.
TerminalIsTrue == moving = "statuses" => Re!TerminalIsTrue

\* A saved terminal status outlives all but the queries under way.
StickyOnceQuiet == [][moving = "statuses" => Re!TerminalKept]_hubVars

\* What reached the provider is announced in the audit file, which never contradicts
\* the gateway's.
AuditAgreesWithGateway == moving = "routes" => Ro!AuditAgreesWithGateway /\ Ro!ActsAreAnnounced

\* A preorder that a caller was told of is on file, alone with what is its own.
ReservationHolds == moving = "preorders" => Te!ReservationHolds

\* A provider call is bounded in time and memory and leaves nothing open.
CallIsBounded == moving = "fetches" => Fe!CallIsBounded

\* A job replaces only the row it loaded.
ReplacesWhatItLoaded == [][moving = "snapshots" => Sn!ReplacesLoaded]_hubVars

\* What may be activated was certified by the last decision about it, and in a
\* certified organization everything was certified as it is bound.
ActivationIsCertified == moving = "onboarding" => On!ActivationIsCertified /\ On!CertifiedAsAWhole

\* A usable route runs, a resolution was granted when it was made, and a submitted
\* attempt is never resolved to another route.
RouteStaysPinned == moving = "services" => Se!UsableRoutesRun /\ Se!ResolutionIsGranted /\ Se!RouteStaysPinned

\* A hub offers exactly what would resolve.
OfferedResolves == moving = "services" => Se!OfferedResolves

\* An answer is of the hub as it is now, whatever the session still says.
AnswersFollowTheHub == moving = "access" => Ac!AnswersFollowTheHub

\* A command is served by a session of the role it was sent for.
ActsInItsRole == moving = "browser" => Br!ActsInItsRole

\* No plan gives out more than there is or more than is needed, and the coverage
\* it starts from agrees with the shortfall.
PlanIsFeasible == moving = "matches" => Pl!PlanIsFeasible /\ Pl!ClassAgreesWithShortfall

\* Without a newer observation the server never becomes surer, and it never goes
\* back to an older one.
ConfidenceOnlyFades == moving = "liquidity" => Li!ConfidenceOnlyFades /\ Li!NeverOlder

\* A key is authorized at most once, and never when its outcome is unknown.
AuthorizedOnce == moving = "offline" => Of!AuthorizedOnce

\* A recommendation is the best of what was compared.
RecommendationIsBest == moving = "corridor" => Co!RecommendationIsBest

\* Whatever rests on superseded evidence is marked, and nothing else.
DerivedIsMarked == moving = "lineage" => Ln!DerivedIsMarked

\* What operations read is one run, whole and counted once.
TracesAreExact == moving = "traces" => Ot!TracesAreExact

\* An operator up for review has nothing left but the suspension.
LiftingIsEnough == moving = "readiness" => Op!LiftingIsEnough

\* A read model without exceptions hides nothing the plan could show.
NoExceptionIsEarned == moving = "neutrality" => Ne!NoExceptionIsEarned

\* A gate is said to meet its target only when the evidence does.
StatusIsObserved == moving = "pilot" => Pi!StatusIsObserved
=============================================================================
