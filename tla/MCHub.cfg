SPECIFICATION HubSpec
CONSTANTS
  k1 = k1
  k2 = k2
  c1 = c1
  c2 = c2
  LedgerRequests <- MCTransactions
  LedgerOpening = 3
  LedgerEvents <- MCEvents
  LedgerAge = 1
  LedgerReceipts = 1
  LedgerTombstones = 1
  LedgerTime = 3
  LedgerFailedSaves = 1
  LedgerRestarts = 1
  GatewayKeys = {k1, k2}
  GatewayTransactions = {"t1"}
  GatewayRecords = 2
  GatewayFaults = 2
  StatusVariants = {"v1", "v2"}
  StatusCalls = {"call"}
  StatusQueries = {c1, c2}
  RouteVariants = {"v1"}
  RouteCalls = {c1, c2}
  RouteQueries = {"query"}
  RouteFaults = 1
  Preorders <- MCPreorders
  PreorderStores = {c1, c2}
  PreorderRecords = 3
  PreorderFaults = 3
  FetchBytes = 3
  FetchChunks = {1, 2}
  SnapshotStores = 1
  SnapshotWorkers = {c1, c2}
  SnapshotVersions = 2
  SnapshotRevisions = 2
  SnapshotAudit = 1
  SnapshotEvents = 1
  OnboardingCapabilities = {c1, c2}
  OnboardingDecisions = 10
  ServiceAdapters <- MCAdapters
  ServiceRoutes <- MCRoutes
  ServiceContracts <- MCContracts
  ServiceCatalogs <- MCCatalogs
  ServicePrincipals <- MCPrincipals
  ServiceRegions = {"adama"}
  ServiceTime = 1
  ServiceHubs <- MCHubs
  AccessHubs = {"h1", "h2"}
  AccessRecords <- MCHubRecords
  AccessTenant = "stage4"
  AccessReferences <- MCReferences
  AccessAssignments <- MCAssignments
  AccessDocuments <- MCDocuments
  AccessSessions = 2
  AccessDeployments = 2
  PageCalls = {c1, c2, "last"}
  PageKeys <- MCKeys
  PageAgentKey <- MCAgentKey
  PageSessions = 2
  PageFaults = 1
  MatchNeeders = {1, 2}
  MatchSources = {1, 2}
  MatchAmounts = {1700, 1999, 2000}
  MatchMinutes = 2
  LiquidityReports <- MCReportable
  LiquidityHorizons = {"2H", "EOD"}
  LiquidityReach = 1
  LiquidityTimes = {0, 15, 16, 61, 76}
  LiquidityAnswers = 2
  Captures <- MCCaptures
  CaptureAssignments = {k1, k2}
  CaptureTime = 2
  CaptureRecords = 2
  CaptureAttempts = 1
  CaptureTimeline = 11
  CaptureEvidence = 2
  CorridorCandidates = {1, 2}
  CorridorDimensions = {"d1", "d2"}
  CorridorIndices = {50, 100}
  CorridorThresholds = {7500, 7501}
  CorridorScopes <- MCScopes
  CorridorPlaces <- MCPlaces
  CorridorModels = 1
  LineageRecords <- MCRecordable
  LineageCorrections <- MCCorrections
  LineageDependencies <- MCDependencies
  LineageLimit = 8
  TraceEvents <- MCWorkflowEvents
  TraceRuns = {"r1", "r2"}
  TraceArtifacts <- MCArtifacts
  TraceFixtures <- MCFixtures
  TraceCopies = 2
  StaffOperators = {"o1"}
  StaffDevices = {"d1", "d2"}
  StaffHubDevice <- MCHubDevice
  StaffReports <- MCReports
  StaffModules = {"m1", "m2"}
  StaffWindow = 1
  StaffTime = 1
  StaffModels = 1
  PolicyVersions = 3
  PolicyPartners = {"alpha", "beta"}
  PolicyOffers <- MCOffers
  PolicyRegion = "adama"
  PolicyForgettable = {"CONFLICT_DISCLOSURE_REQUIRED"}
  PolicyModels = 1
  PilotGates = {"p1", "p2"}
  PilotTargets <- MCTargets
  PilotObservable <- MCObservable
  PilotAttachable <- MCAttachable
  PilotDecidable = {"REQUEST_MORE_EVIDENCE", "ACCEPT_MEETS_TARGET"}
  PilotObservations = 2
  PilotModels = 1
SYMMETRY Symmetry
INVARIANTS TypeOKHub ReceiptsHaveResults BalanceIsExplained ToldIsDurable TerminalIsTrue AuditAgreesWithGateway ReservationHolds CallIsBounded ActivationIsCertified RouteStaysPinned OfferedResolves AnswersFollowTheHub ActsInItsRole PlanIsFeasible ConfidenceOnlyFades AuthorizedOnce RecommendationIsBest DerivedIsMarked TracesAreExact LiftingIsEnough NoExceptionIsEarned StatusIsObserved
PROPERTIES StickyOnceQuiet ReplacesWhatItLoaded
CHECK_DEADLOCK FALSE
