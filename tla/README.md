# Phygital Rural Agent Hub: models, checks and proofs

The hub is a TypeScript server (Express) for synthetic agent-banking workflows:
customers with KYC, transactions posted at a partner institution, C2B checkouts
at a payment gateway, envelopes from an offline outbox, operational cases under
human review, and workflow intents that must not reach a provider twice. What
makes this half of it hard is not its arithmetic. It is that nearly every
operation changes memory, then a JSON file, then perhaps a second file or a
remote party, that several processes may share the files through a lock file with
a lease, and that saves fail, processes stop and messages repeat in between.

The other half governs shared hubs: which partner's service may run where, what an
operator sees, and what is concluded from evidence that arrives in parts. It keeps
little, but what it concludes is made of documents that change, expire, are
withdrawn and corrected between one reading and the next. This project models both.

Contents: [inventory](#1-the-system) · [modules](#2-modules-and-the-code) ·
[runs](#3-what-each-run-checks) · [fairness](#4-fairness) ·
[proofs](#5-what-is-proved) · [disagreements](#6-where-code-and-documents-disagree) ·
[not modelled](#7-what-is-left-out) · [plan](#8-plan).

## 1. The system

### 1.1 Components that keep state

| Component (code) | State | Operations | Hard behaviour | Correct when |
|---|---|---|---|---|
| **File lease** `server/local-file-lease.ts` | one lock file per scope: owner, expiry; quarantine files | acquire, recover a stale lock, restore a quarantined one, release | several processes; every file-system call is a separate step; crashes leave files; leases run out under their owner | one owner at a time while leases are respected; nobody unlinks a lock that is not theirs or not expired |
| **Record stores** `server/hub-idempotency-persistence.ts` (and two of the same shape) | one JSON file per record, with a revision | load, create, compareAndSet inside a lease | the comparison and the rename are two steps | calls look atomic |
| **Workflow intents** `domain/hubWorkflowIdempotencyCertification.ts` | record per tenant, hub, partner and key: reserved, possible mutation, reconciliation | reserve, certifyReplay, markPossibleExternalMutation, recordAmbiguousExternalOutcome | every operation loads, decides, loads again and compares-and-sets; other workers act in between | one workflow per key; no other route, assignment or intent after a possible mutation; reconciliation is final |
| **Payment gateway** `domain/paymentGateway.ts`, `paymentGatewayState.ts` | map of submission intents and results, one file | createC2BCheckout | an await between saving the intent and saving the result; a snapshot limit; a timer | at most one request per transaction reaches the provider, also across restarts |
| **Gateway reconciliation** `domain/paymentGatewayReconciliation.ts` | status per transaction, one file | reconcile | check, await, write | a terminal status is true and stays |
| **Payment attempts** `domain/paymentAttempt.ts` | snapshot with a revision; an `unusable` flag | reserve, recordInitiation | two stores over one file; a save that throws after it wrote | one reservation is granted per transaction |
| **Partner ledger** `domain/financial.ts` | balances, results by key, one file | submit → postTransaction | memory changes before the save | no result is lost or doubled, balances follow from results |
| **Transport receiver** `domain/transport.ts` | receipts, tombstones, last sequences, one file | receive, prune, restore | unordered, repeated delivery; retention; a second file saved after the ledger's | one receipt per event, each with its result |
| **Partner reconciliation** `domain/reconciliation.ts` | operation per transaction, processed callbacks, one file | registerPartnerResult, handleAuthenticatedCallback | reordered and repeated callbacks; save failures | the newest applicable callback wins, what was acknowledged is never lost |
| **Customer, KYC, identity provider** `domain/customer.ts`, `identity.ts` | customer, provider requests, pending challenges: three files | start-up, phone change, re-verification, confirm, suspend, recover | three saves per operation | only a confirmed customer may transact |
| **Human review** `server/human-review-service.ts`, `domain/humanReviewLifecycle.ts` | one record per case: status, owner, history with receipts | transition | workers that share the file, retries, lost answers | what a reviewer was told holds; the owner acts |
| **Sessions and their shadow** `server/session-persistence.ts`, `auth.ts`, `postgres/d1-session-*.ts` | session files, intent files, PostgreSQL rows | start, authenticate, logout, sweep; plan and sync jobs | transactions open across statements while the server moves on | a session in use is served; a removed one stays removed; rows never go back |
| **Telebirr preorders** `domain/telebirrPreorderIntent.ts` | records with four unique fields, a revision, one file | reserve | memory is loaded once; a save that throws after it wrote | what was reserved stays, alone with its ids |
| **Sandbox calls** `domain/telebirrSandbox.ts`, `mpesaEthiopiaToken.ts` | a timer, an abort signal, a partly read body | one call | timer, headers and chunks in any order | bounded in time and memory, nothing left open |
| **Payment routes and audit** `server/demo-api.ts`, `server/audit.ts` | audit events on file | checkout and status routes, record | an audit save that throws inside the same try as the call | audit and gateway never contradict each other |
| **Snapshot shadow** `server/postgres/d1-shadow-sync.ts`, `d1-async-boundary.ts` | rows with revisions | sync, import, verify, rollback | files and rows move between statements | a row is replaced only as it was loaded |
| **Onboarding and certification** `domain/partnerOnboarding.ts`, `contractCertification.ts` | organization, capabilities, up to 512 decisions | transition, bind, certify, suspend; run the suite | decisions in any order about several things | what is active was certified last |
| **Registry, contracts, catalogs** `domain/adapterRegistry.ts`, `partnerCapabilityContract.ts`, `partnerServiceCatalog.ts`, `server/adapter-bootstrap.ts` | two maps; documents with versions and times | register, resolve, resolveGoverned | everything may change between two resolutions of an attempt | a submitted attempt keeps its route |
| **Hub services, access** `domain/hubServiceComposition.ts`, `hub.ts`, `server/workspace.ts`, `auth.ts` | none of their own; sessions hold a context | decide, list, authorize, read | session context outlives what it was made of | answers follow the hub as it is |
| **Browser client** `lib/demo-api-client.ts` | cookie, cached token and role, a start in flight | start, look up, call with one retry | awaits of several calls interleave | a command acts in its role or not at all |
| **Planning** `domain/networkLiquidity.ts`, `cashFleetPlanning.ts`, `fmcgCommerce.ts`, `hubLiquidityIntelligence.ts`, `corridorPlanning.ts` | capacity left; evidence so far | match, classify, build a series, compare | rounding, ageing, missing evidence | plans are feasible, conclusions no surer than the evidence |
| **Evidence** `domain/evidenceCorrection.ts`, `hubOfflineOperationsEvidence.ts`, `hubOperationsTrace.ts`, `hubEvidenceManifest.ts`, `pilotEvidenceEngine.ts` | append-only logs, documents sealed by a digest | append, evaluate, trace, search, assess | any order, repetition, withdrawal | nothing lost, counted twice, or concluded without evidence |
| **Readiness, neutrality** `domain/hubOperatorDeviceReadiness.ts`, `hubNeutralityGovernance.ts` | plans, published read models | project, review, compare, publish | one state hides another | a clean result is earned |

### 1.2 How they interact

```
browser ──► HTTP routes (demo-api, app)
              │
              ├─► CustomerKyc ─(assertTransactionEligible)─► PartnerLedger ◄─ TransportReceiver ◄─ envelopes
              │                                                  │
              │                              partner result ─► PartnerReconciliation ◄─ signed callbacks
              │
              ├─► PaymentAttemptStore ─► PaymentGateway ─► provider ◄─ PaymentGatewayReconciliation
              │
              ├─► HubWorkflowIntent ─► LeasedRecordStore ─► LocalFileLease
              ├─► HumanReview       ─► the same shape of store
              ├─► sessions on files ─► SessionShadow rows ◄─ sync jobs ◄─ intent files
              ├─► audit log ◄─ payment routes      snapshot files ─► SnapshotShadow rows ◄─ jobs
              │
              └─► hub routes ─► HubAccess (session context, hub, documents of its scope)
                                 ├─► HubServices ◄─ GovernedRouting (registry, contract, catalog)
                                 ├─► OfflineEvidence ─► workflow intents
                                 └─► liquidity, corridor, lineage, traces, readiness, neutrality, pilot
```

Calls are synchronous except for provider calls and SQL statements. Nothing is
shared in memory between processes; files and rows are. The lease is the only
mutual exclusion, and each compare-and-set store rests on it.

### 1.3 The rest of the repository

`PROJECT.json` lists every component with its status and reason. Left out are parts
that decide in one pass over a given document and keep nothing (economics, scoped
authorization, privacy, signatures), static tables with their validators
(workspaces, topology, PostgreSQL schema), presentation, and an outbox whose
delivery is disabled in the code. Section 7 says more.

## 2. Modules and the code

Every definition of a module is mapped to its lines in `PROJECT.json`, `map`.

| Module | Models | State ↔ code | Actions ↔ code |
|---|---|---|---|
| `LocalFileLease` | `local-file-lease.ts` | `lockPath` and `aside` are paths, `written`/`expiresAt`/`mtime` the files, `pc`/`mine`/`nowMs`/`observedRaw` a call's locals. A lock is named by the attempt that created it (the owner UUID). | one action per file-system call: `OpenCreated`, `WriteRecord`, `ReadLock`, `StatLock`, `Quarantine` (or `QuarantineDenied`), `RecheckQuarantine`, `FirstRestore`, `PutBack`, `ReadOwn`, `RenameOwn`, `CheckReleased`, … and `Crash`, `Tick`. `Renumber` and `SetBack` are no steps of the code (section 4) |
| `LeasedRecordStore` | create and compareAndSet over the lease | `revision` is the record file, `section` a call's stage | the lease's steps plus `Call`, `ReadCurrent`, `WriteRecordFile`, `WriteTemporaryFails` |
| `AtomicRecordStore` | *abstract*: what such a store promises | | `Call`, `Apply`, `Refuse`, `Return` |
| `HubWorkflowIntent` | the certification store | `record` per scope; `call` holds what a worker has loaded | `Reserve`, `Create`, `Raced`, `Gate`, `Recheck`, `CommitMark`, `Ambiguous`, `CommitAmbiguous`, `Die`, `Restore` |
| `WorkflowReservation` | *abstract*: one reservation per key that only moves forward | | |
| `PaymentGateway` | durable wrapper with its adapter | `memory`, `file`, `posts` (requests the provider got), `network` (the switch read at start) | checkout from lookup to its result, with each save that may fail, and `Restart` |
| `PaymentGatewayReconciliation` | EXTENDS `PaymentGateway`; the service beside it | `status`, `statusFile`, `query`, `provider` | ask, provider concludes, answer, record, restart of both |
| `PaymentAttemptStore` | several stores over one snapshot | `file` with revision and records, `store` with loaded copy and `usable` | `Reserve`, `RecordInitiation`, `NoChange`, `Reopen`; `Save`/`SaveFails` inside them |
| `PartnerLedger` | mock partner with TransactionService | `ledger`, `ledgerFile`, `outcome`, `eligible` | `Submit` (recorded, posted, posted but not saved, refused), `ChangeEligibility`, `Restart` |
| `TransportReceiver` | EXTENDS `PartnerLedger`; the receiver before it | `receiver`, `receiverFile` | `Receive`, `Refuse`, `SubmitFails`, `PruneFails`, `StopBetween`, `RestartBoth` |
| `PartnerReconciliation` | callbacks | `memory`, `file`; `emitted` and `acknowledged` are the partner's side | `Register`, `Apply`, `Duplicate`, `Reject`, `Restart` |
| `CustomerKyc` | customer, provider and challenges | `memory` and `file`, three stores each | an operation is the sequence of writes it makes; `Perform` stops or fails after any of them |
| `HumanReview` | one case | `record` with its history, `loaded` per worker | `Load`, `Replay`, `Refuse`, `Store` (answered or not), `NotStored` |
| `SessionShadow` | sessions, rows, jobs | `file`, `row`, `job` (an open transaction), `start`, `request` | server: `Start`, `Publish`, `Authenticate`, `Read`, `Answer`, `Logout`, `RemoveShadow`, `Sweep`, `Expire`; jobs: `Discover`, `MakePlan`, `Write`, `Recheck`, `Commit`, `Abort` |
| `AuditedRoutes` | EXTENDS `PaymentGatewayReconciliation`; two payment routes of `demo-api.ts` with the audit log | `log` is the audit file, `route` a request under way; `told` what 200 answers said | `RouteCheckout`, `AdapterStep`, `RouteQuery`, `ServiceStep`, `Reply`, `RestartRoutes` |
| `TelebirrPreorder` | the preorder store | `file`, `store` (each process's memory), `told` | `Reserve`, `ReserveFails`, `Answer`, `Reopen` |
| `ProviderFetch` | one sandbox call | `timer`, `aborted`, `body`, `total` and `held` bytes | `Begin`, `Fire`, `FetchRejects`, `Headers`, `Chunk`, `End`, `ReadFails` |
| `SnapshotShadow` | jobs on the rows of the snapshot files | `file` (which write it holds), `row`, `eventRow`, `job` | `SaveFile`, `RecordEvent`; `ReadFile`, `Plan`, `Load`, `Write`, `Remove`, `Append`, `Verify`, `Throw` |
| `PartnerOnboarding` | the onboarding record | `organization`, `capability`, `decided`; `trail` is its decisions by capability | `Transition`, `Bind`, `Certify`, `Suspend` |
| `CertifiedOnboarding` | EXTENDS `PartnerOnboarding`; the certification suite beside it | `report`, `refs` | `RunSuite`, `CertifyWith`, and the record's |
| `GovernedRouting` | registry, bootstrap, contract, catalog, resolution | `adapters`, `routes`, `contract`, `catalog`, `now`, `mutation`, `resolved` | `RegisterAdapter`, `RegisterRoute`, `ContractChanges`, `CatalogChanges`, `Tick`, `Submit`, `Resolve` |
| `HubServices` | EXTENDS `GovernedRouting`; offerings and matrix of a hub | none of its own | operators: `Offerings`, `WorkspaceServices`, … |
| `HubAccess` | session contexts and hub reads | `hubs` of the running deployment, `sessions`, `answer` | `StartSession`, `EndSession`, `Deploy`, `Read`, `Refuse` |
| `BrowserClient` | `demo-api-client.ts` against a server | `cookie` of the browser; `token`, `role`, `inFlight` of the page; `calls` at their awaits | `Begin`, `DemoApi`, `DemoApiAs`, `Answer`, `Started`, `Looked`, `Found`, `Handle`, `End`, … |
| `PlanningMatches` | cash-fleet and commerce planners, coverage | `left` capacity, `queue`, `matches` | `Serve` |
| `HubLiquidity` | liquidity series | `reported`, `answers` | `Report`, `Build`, `Tick` |
| `OfflineEvidence` | offline queue records, their evaluation, traces | `queue`, `reservation` (the intent store), `evidence` | `Enqueue`, `Attempt`, `Evaluate`, `Tick` |
| `CorridorPlanning` | candidate comparison | `evidence`, `threshold`, `models` | `Report`, `Withdraw`, `ChangePolicy`, `Publish` |
| `EvidenceLineage` | records, corrections, dependencies | the three logs | the three appends; `Lineages`, `Search` |
| `OperationsTrace` | workflow envelopes, manifest, traces | `emitted`, `manifest`, `traces` | `Emit`, `Alter`, `MakeManifest`, `ReadModel` |
| `OperatorReadiness` | training, suspension, devices, support | what a plan holds, `models` | `Train`, `Operate`, `ReportDevice`, `Escalate`, `Advance`, `Publish` |
| `NeutralityGovernance` | policy versions, flags, comparison | `version`, `rules`, `changes`, `offer`, `flags`, `decisions`, `models` | `NewVersion`, `ReviseRules`, `RecordChange`, `LoseChange`, `Flag`, `Decide`, `Publish` |
| `PilotEvidence` | gates, observations, artifacts, reviews | the same, `models` | `Observe`, `Withdraw`, `Attach`, `Decide`, `Review`, `DecideScale`, `Publish` |

The last eight evaluate whole documents. Each is modelled as the documents' changes,
in any order, and the evaluation at any moment: its operators are the functions of
the code, its state is what the caller has by then, and its property relates several
results, or a result to everything it was made of.

Conventions. A stored value that may be absent is a set with at most one
element. *History* variables (`posts`, `marks`, `told`, `granted`, `breach`, …)
are only written, and are named as such where they are declared. An operator
whose name ends in `Mut` stands before the definition it changes, and is that
definition with a plausible bug: each property is known to fail when the named
definition is replaced by it.

**Composition.** `LeasedRecordStore` runs on the steps of `LocalFileLease`;
`HubWorkflowIntent` runs on the atomic store that `LeasedRecordStore`
implements; `PaymentGatewayReconciliation` and `TransportReceiver` extend the
component of the same process they call, `AuditedRoutes` puts the routes around
both of the gateway, and `HubServices` decides over the state that `GovernedRouting`
resolves in. `MCServerStores` and `MCHub` compose parts that share nothing: an
instance per part, and a variable `moving` that says which of them takes steps.
`MCHub` instantiates three parts through the modules of their proofs
(`TransportReceiverProofs`, `PaymentGatewayReconciliationProofs`,
`AuditedRoutesProofs`), so that their lemmas can be cited of the hub. `OfflineEvidence` takes the intent store as atomic operations, which
`HubWorkflowIntent` models step by step. `PaymentAttemptStore`, `TelebirrPreorder`
and `HumanReview` take a save as one step: they use the same lease and compare-and-set, and what
happens when that lease breaks is the subject of `LeasedRecordStore`.

## 3. What each run checks

Bounds are the constants of the `.cfg` files, and every one that cuts a
behaviour off is named in the module that declares it. Runs use
`CHECK_DEADLOCK FALSE` only where the bounds leave a finished system with
nothing to do.

| Run | Question | Bounds, and why they are enough |
|---|---|---|
| `lease` | Does the lease exclude, and does it ever unlink the wrong file? When does an acquisition end? | 2 processes, 1 crash or failed write, lease 1, wait 1. 3 lock files and 2 instants at a time, but runs without end: files that no step can tell from others any more are numbered anew, and the clock is set back (section 4). Three files are an owner's, its successor's and a third that a late recovery displaces, the longest pattern the code defends against. |
| `record_lost_update` | Is the revision comparison a guard of its own? (no: §6) | 2 processes, 3 lock files, no fault, a lease of 1 that the clock may outrun: two overlapping calls and one that follows them. |
| `workflow_intent` | One workflow per key, whoever races? | 1 key (keys share nothing), 2 workers, 2 values for intent, route and assignment, 2 times, 3 revisions: every record passes reserved → marked → reconciliation. Symmetric in all four sets. |
| `gateway` | Can the provider be asked twice? | 2 overlapping calls, 3 keys and 2 transactions, so that one transaction is tried under a second key; snapshot limit 2 below the 3 keys; 3 failed saves or stops: one at each of the three saves of a retried call. |
| `reconciliation_sticky` | Does it stay whatever overlaps? (no: §6) | no fault at all, 2 overlapping reconcile calls. |
| `ledger_restart` | Is an accepted result safe from a restart? (no: §6) | 1 failed save, 1 restart. |
| `server_stores` | Six stores that share nothing, one moving at a time: does what each promises its callers hold through repeats, failed saves and stops? | see below |
| `hub` | Nineteen parts of the hub that share no state, one moving at a time: does what each concludes or promises hold however its documents, calls, files and clocks move? | see below |
| `customer_restart` | Can a pending challenge be completed after a restart? (no: §6) | no failed save, 1 stop. |
| `session_sync_commit` | Does a sync job commit only what its source says? (no: §6) | 1 intent, 1 job, 2 revisions. |
| `snapshot_sync_older` | Does a sync apply only missing or older snapshots? (no: §6) | 1 file of 2 versions, 2 jobs, 3 row revisions. |
| `certification_of_another` | Can a capability be certified by another's report? (yes: §6) | 2 capabilities, one profile check. |

**`server_stores`.** The stores of `PartnerReconciliation`, `CustomerKyc`,
`PaymentAttemptStore`, `HumanReview`, `SessionShadow` and `LeasedRecordStore` share
neither variables nor files. `MCServerStores` starts all of them and lets the one that `moving`
names take steps; since none reads another's state, what each can reach is the
same as in their interleaving, and the product of their states is not built.

* *callbacks*: seven callbacks over two transactions, two with the same id;
  any order, any repetition, 1 failed save, 1 restart.
* *customer*: 2 phones, 3 challenges, 2 stops, 1 failed save: a phone change
  while a challenge for the old one is pending, with a stop in between.
* *attempts*: 2 stores over one file (symmetric), 3 keys, 3 transactions, limit
  2, 3 faults.
* *review*: 2 workers, 12 requests, a history limit of 4 (512 in the code): claim,
  hand over to the external authority, response, and resolution or return, with
  keys used twice.
* *sessions*: 1 session, 1 intent, 2 jobs (symmetric), 2 revisions. *intents*:
  the jobs and one intent alone with 3 revisions, the fewest with which an old
  source can overwrite a newer row that is not the newest file.
* *records*: 2 processes whose create and compareAndSet calls run on every step of the
  lease, 3 lock files, 2 crashes or failed writes, as long as the lease's discipline
  is kept (`breach` stays empty). What happens after a breach is `record_lost_update`.

**`hub`.** `MCHub` gives each part its own instance over thirteen shared variables and
lets the part that `moving` names take steps; the argument is that of `server_stores`.
The parts, with what makes the interesting cases happen:

* *ledger* (`TransportReceiver`): envelope ids with changed, repeated and later
  variants beside direct submissions; age and retention 1 and clock to 3, so that a
  receipt becomes a tombstone and the tombstone goes; 1 failed save, 1 stop between the
  two saves.
* *statuses* (`PaymentGatewayReconciliation`): 2 overlapping queries, 2 keys, 2 faults.
  A full status file is never reached: a status needs a posted intent, and the intents
  are counted against the same limit. That branch of `Record` is kept because the code
  has it.
* *routes* (`AuditedRoutes`): 2 checkouts and a status query of one transaction under
  2 keys, 1 fault: a save of the audit, the gateway or the status fails, or the
  server stops. For any number of each the property is proved.
* *preorders*: 2 stores, 6 requests in which each unique field is shared once, a limit
  of 3 records, 3 faults. *fetches*: 3 bytes, chunks of 1 and 2: at, below and over the
  limit.
* *snapshots*: 1 file of 2 versions, 2 jobs, an audit log of 1 event, 2 row revisions,
  with rollbacks and rows that pass into PostgreSQL's hands.
* *onboarding*: 2 capabilities and 10 decisions, as many as certify both and the
  organization, so that a suspension comes before the other capability is through.
* *services*: the bootstrap's registrations and 4 more, 3 contracts (one ends early,
  one is suspended), 3 catalogs (one of another partner's route), 2 hubs, 2 resolutions
  of one attempt.
* *access*: 2 hubs, 4 versions of a hub, 2 sessions, 2 deployments. *browser*: 3 calls,
  2 sessions, one failed request.
* *matches*: 2 needers, 2 sources, amounts at both sides of the rounding of coverage.
* *liquidity*: 5 observations with two offsets, 2 horizons, 5 instants around the
  freshness thresholds. *corridor*: 2 candidates, 2 dimensions, thresholds at both sides
  of an average.
* *offline*: 3 captures (one that expires, its retry over another route, another key),
  2 queue records, 1 attempt. *lineage*: 8 appended documents of 17, with chains,
  cycles, a shared replacement and two scopes. *traces*: 6 events over 2 runs, copies
  up to 2, manifests altered after they were exported, and an unknown outcome that is the last
  event or is followed by another.
* *readiness*: 1 operator, 2 devices, 2 modules, 2 days. *neutrality*: 2 partners,
  3 policy versions, decisions about changes, comparisons and flags, and 7 offers: one with
  all in place, and those that lack the contract's region, the grant's, its route, the
  membership, or several of these beside other terms or another capability. *pilot*: 2 gates, 3 metrics, 2 observations at a time.

Four parts start in some of their initial states only (`HubInit`): the services with
the bootstrap's gateway, which none of them uses; the matches with one of the two
orders of their sources and one agent's requirement fixed; the corridor with a second
candidate that has no hub; neutrality with a partner that has all
in place, so that what differs is the other's.

The properties, by what they relate:

* *memory, file and what others were told*: `ToldIsDurable`, `PartnerIsBelieved`
  (what was acknowledged holds, settlement is the partner's word, the latest callback
  counts), `ToldHolds`, `EligibleIsConfirmed`, `ReservationHolds`,
  `AuditAgreesWithGateway`, `NothingIsUndone` (files of callbacks, rows of intents,
  evidence of attempts).
* *several callers*: `MutualExclusion`, `OneLogicalWorkflow`, `AtMostOnePost`,
  `AtMostOneGrant`, `ReviewerActs`, `RecoveryDeletesOnlyExpired`,
  `ReplacesWhatItLoaded`, `ActsInItsRole`, `AuthorizedOnce`.
* *order and repetition*: `ReceiptsHaveResults`, `BalanceIsExplained`,
  `TerminalIsTrue`, `StickyOnceQuiet`, `SessionsAreKept`, `ActivationIsCertified`,
  `ConfidenceOnlyFades`, `DerivedIsMarked`, `TracesAreExact`.
* *what was checked and has changed since*: `RouteStaysPinned`, `OfferedResolves`,
  `AnswersFollowTheHub`.
* *conclusions and what they rest on*: `PlanIsFeasible`, `RecommendationIsBest`,
  `LiftingIsEnough`, `NoExceptionIsEarned`, `StatusIsObserved`.
* *bounds*: `CallIsBounded`.
* *refinement*: `ImplementsAtomicStore`, `ImplementsReservation`.
* *liveness*: `LockFreedom`, `UnansweredCheckoutsEnd`.

In `MCServerStores` and `MCHub` a property is the one of its module, or the
conjunction of two or three of its module that are about one hazard.

Some properties are weaker than one would first write, because the code is:

* `MutualExclusion` holds until `breach` is non-empty. A breach is either an
  *overrun* (a lease ran out under its owner) or a *displacement* (a recovery that
  judged an old lock stale renames a newer one). Both are reachable in `lease`;
  after a displacement two owners can coexist.
* `LockFreedom` lets an acquisition go on for ever while other processes get the lock again
  and again: a successful recovery `continue`s to the next attempt before the deadline is
  looked at (section 4).
* `TracesAreExact` asks for the review of an unknown outcome only as long as no event of
  its correlation is sorted after it, for only the latest event's outcome is looked at
  (`hubOperationsTrace.ts:288`); that is less than
  `E1D_HUB_OPERATIONS_TRACE_READ_MODEL_IMPLEMENTATION.md:44` says ("`UNVERIFIED` outcomes
  also remain review-required"), see section 6. The timeline's order is the one of the texts
  of the instants; nothing is claimed of the instants' own.
* `NoExceptionIsEarned` says nothing of two partners of different capabilities: they are
  not comparable, which the code does not count as an exception.
* `StickyOnceQuiet` allows the queries that were under way when the terminal state
  was saved; the unrestricted `TerminalIsSticky` fails.
* `UnansweredCheckoutsEnd` promises an end to a checkout only until the provider's
  headers arrive: the timer is cleared before the body is awaited.
* `RemovedStaysRemoved` (in `SessionsAreKept`) speaks of sessions whose time is not
  over: the row of an expired session may be written once more by a job that planned
  earlier.
* `ReplacesWhatItLoaded` excludes rows that a rollback removed: a row that is created
  again starts again at revision 1, and a job that loaded the old one at that revision
  takes the new one for it.
* `CertifiedAsAWhole` (in `ActivationIsCertified`) does not survive a suspension: the
  organization stays `SANDBOX_CERTIFIED` when one of its capabilities is suspended.
* `ClassAgreesWithShortfall` (in `PlanIsFeasible`) allows a shortfall of half a tenth of
  a percent to count as full coverage, which is what the rounding does.
* `StatusIsObserved` gives no meaning to `PARTIAL`: a gate is partial although a metric
  that it has misses its target.
* `DerivedIsMarked` asks for the targets of one dependency only (see §6).

## 4. Fairness

* `LocalFileLease!Fairness`: time passes, and a process that is running an
  operation takes its next step (`WF` for each process). The code runs and waits
  synchronously (`Atomics.wait`), so a process that the system schedules goes on; crashes
  remain possible and end the operation. This does not end every acquisition: a successful
  recovery, and a lock that vanishes under one, `continue` to the next attempt without a
  look at the deadline (line 196), so that a process that meets one stale or vanishing lock
  after the other outlasts `waitMs`. `LockFreedom` says that nothing else keeps it going.

  Such a run needs ever new lock files and ever later times. `EndlessSpec`, which the run
  `lease` checks, gives them within finite bounds by two steps of the model alone. Files
  and times are only compared with one another; so `Renumber` numbers anew the files that
  some step to come can still tell from others, and `SetBack` takes one off every time
  when the clock is at its bound. What a lock's age, a lease or a wait is compared with
  stays on its side of the comparison, and a time that a process has read and will still
  compare is never cut off: the step waits for that process. `LeasedRecordStore` and the
  proofs use `Next`, without the two steps.
* `PaymentGateway!FairSpec`: an unanswered checkout is aborted by its timer, and
  one with the network disabled is refused at once. Nothing is assumed of the
  provider, and nothing of a call whose headers have arrived.

No other specification states fairness; the other properties are safety. That a
sandbox call ends is stated as `CallIsBounded` instead: at each of its waits the timer
is on or has aborted it, so that it ends if timers fire.

## 5. What is proved

TLAPS checks the theorems for every value of the constants, under the named
`ASSUME`s only. Those say that bounds, amounts, instants and event numbers are naturals,
that a lease lasts longer than 0 and `None` is not a lock, that the calls of the two
payment routes have different names (`Apart`), that review requests have the actions and
roles of the schema and there is a telephone number (`ServerStoresAssumption`). Of the hub's
inputs `HubAssumption` says what their schemas and types say: a hub record parses,
environments, binding states, device reports and kinds of decision are those of the
code, trust and the corridor's indices are percentages; stops and their offers are
finitely many with amounts that are positive. One assumption is an upper bound: a
comparison of corridors has at most a hundred dimensions (the code has seven), for with
more a readiness in basis points no longer tells two sums apart. TLC evaluates every
one of them. A specification with `Max…` bounds is proved for every value of the bound.

Every proof has the same plan: an inductive invariant made of named parts, a lemma
for each action that says why it keeps them, and theorems that follow. What is worth
reading is the invariant, for it says why the code is right.

### 5.1 One component

**`LeasedRecordStoreProofs`**, of `LocalFileLease`: `TypeCorrect`,
`MutualExclusionHolds`, `RecoveryIsSafe`, `ReleaseIsSafe`. The invariant `IInv` adds to
the types that a path names a file that was created and no record outlives its lease
(`FilesOK`), that no two owners own one file and only its owner fills it
(`OwnersOK`), that clocks read are not in the future (`ClocksOK`), that a verdict
is about the file that was read and a stale one stays so (`VerdictsOK`: without it
a recovery's unlink could not be tied to the time it judged at), and that until
the first breach an owner's lock is fresh and where the owner expects it, and a
recovery finds what it saw (`Unbroken`).
Of `LeasedRecordStore`: `LeaseImplementsAtomicStore`, by which `UnbreachedSpec`
implements `AtomicRecordStore`. The refinement mapping sends a call's `section`
to the abstract stage. The invariant is the lease's `IInv` with an empty `breach`
and the fact that a call whose comparison succeeded still expects the current
revision: true because mutual exclusion leaves no other writer.

**`HubWorkflowIntentProofs`**: `TypeCorrect`, `OneWorkflowPerKey`,
`NoFallbackAfterReservation`, `NothingAfterReconciliation`, and
`StoreImplementsReservation`. The strengthening is `Backed(w)`: the copy a
worker is about to write from pins what the stored record pins, is not newer, and
*is* the stored record if the revision has not moved; besides, a key has one
record (`OneRecord`), only a reserved one has no mark (`MarkedOnce`), and whoever
was told it was new left a record (`OpenedRecord`). With these each commit is a
step of `WorkflowReservation`.

**`PaymentGatewayReconciliationProofs`**, of `PaymentGateway`: `TypeCorrect`,
`PostedOnce`, `PostsAreDurable`, `NothingForgotten`. `IInv` says that memory keeps
whatever the file has (`Keeps`), that a transaction has one record and a key one
request (`OneRecord`, `OneKey`), that a call under way holds its key's record and no two
calls hold the same (`CallsHoldTheirKey`, `CallsApart`), and that a call about to post
is for a transaction not posted yet (`NotPostedYet`).
Of `PaymentGatewayReconciliation`: `TerminalStatesAreTrue`, `StatusesNeedPosts`,
`SavedTerminalStays`, from the gateway's `IInv` and the
facts that a terminal answer in flight is the provider's state (`AnswerIsTrue`:
a provider's terminal state is final) and that what was asked about, answered or
recorded had been posted (`QueriedWasPosted`, `CallsPosted`, `AnsweredWasPosted`,
`StatusWasPosted`).

**`AuditedRoutesProofs`**: `AuditIsTrue`, that the audit file and the gateway's never
contradict each other and that what reached the provider was announced. A result that
was recorded, *or that a request is about to record*, is the last word on its
transaction (`Final`): no checkout of it is under way, memory and file have nothing but
that result or the intent, and the file has a record, so that no checkout can begin
again; and two of them are equal (`Agreed`). The second alternative is what makes it
inductive: between the adapter's return and the audit's save only the request's locals
know the result.

**`TransportReceiverProofs`**, of `PartnerLedger`: `LedgerHolds`, that a transaction
has one result, that until a save has failed what a caller was told is on file, and that a
balance is the opening balance and what the accepted results beside it add up to. The
last rests on sums over finite sets: `MapThenSumSet` is computed by a function defined by
recursion on subsets, of which the provers know nothing. The first section of the
module proves that there is such a function and only one (`SumsExist`, `SumsAgree`), by a
least counterexample in the order of strict inclusion, and from it that a sum grows by any
element that is added (`SumWith`), whichever the recursion takes first; that it is linear
(`SumLinear`) and changes by what one term changes (`SumChange`). The same argument
gives every nonempty set of naturals a minimum (`LeastElement`) and every finite one a
maximum (`Greatest`), which the hub's proofs use where one would use induction. In the
invariant, `Accounted` says it of the ledger in memory and of the one on file. Of
`TransportReceiver`: `ReceiptsAreTrue`. A receipt in memory is on file or its event
was never receipted there, and no customer's sequence is ahead in the file (`Kept`,
`Fit`); an event that was receipted is at or below its customer's sequence on file
(`Counted`); and, until a save has failed, receipts and numbers are those of the
ledger's results (`Known`). It is `Counted` that keeps an event whose receipt *and*
tombstone were pruned from being receipted again: the sequence alone remembers it.

### 5.2 The stores of the server

**`ServerStoresProofs`**: `StoresInvariant`
for the stores of `MCServerStores`, and from it `CallbacksAreBelieved`, `OneGrantOnly`,
`ReviewersAreTold`, `OnlyTheReviewerActs`, `CustomersStayConfirmed`, `SessionsStayServed`,
`NothingGoesBack` and `StoresKeepTypes`; beside it `StoresImplementAtomicStore`, which brings
`LeaseImplementsAtomicStore` to the part of the records, whose `breach` stays empty.

* *Callbacks* (`CallbackInv`): an operation is as a partner result left it or as one
  recorded callback did (`Explained`) and no recorded one is later (`NothingLater`), what
  is recorded was signed (`TakenIsSigned`), memory is what the file is or later
  (`MemoryAhead`), and until a save has failed they are the same and hold what was
  acknowledged (`Quiet`).
* *Attempts* (`AttemptInv`): no store is ahead of the file, and a usable one at the
  file's revision has the file's records (`StoresFollow`); a transaction that was granted
  is on file (`GrantIsOnFile`); and a store knows of an attempt without evidence only
  because it found or reserved it (`UnresolvedIsKnown`).
* *Review* (`ReviewInv`): what a worker loaded is the beginning of the stored history and,
  at the same length, the record itself (`LoadedWasRecord`); who is assigned took the case
  and nobody has dropped it since (`Assigned`); and so it was at each event
  (`HolderActs`).
* *Customer* (`CustomerSafe`): the customer on file is the one in memory or an earlier one
  (`Behind`), and one that is eligible in either was confirmed by a challenge at its number.
  An operation with two saves is one step here for the caller, but a stop or a failed save
  may fall between them: `Safe` and `Leads` say of a pair of file and memory that *each*
  of these outcomes is safe, and compose, so that every prefix of the writes is covered.
* *Sessions* (`ShadowInv`): what a job has seen, planned and staged is about files as they
  were and rows as they are (`JobOK`), no two jobs hold one row (`Locks`), and of a session
  whose time is not over the row is what a reader needs, or gone for good once a logout
  removed it (`Current`); a session not started has left no trace that a late job could
  bring back (`Untouched`).

### 5.3 The parts of the hub

**`HubProofs`**, and **`HubEvidenceProofs`** for the parts that evaluate evidence or answer
reads from it, have one section for each part of `MCHub`, with an invariant over its
variables, and a theorem for each property (none of them uses that some parts start in a
part of their initial states).

| Theorem | The invariant, and why it is needed |
|---|---|
| `PreordersHold` | `Follows`: a store's memory is in the file and, at the file's revision, is the file. That makes a store's look at its own memory one at the file, so that uniqueness is decided by the save's revision check. |
| `CallsAreBounded` | `Bounded`: what each stage says of timer, signal, body and bytes. The held bytes are the total while the body is read, which is what the limit is compared with. |
| `ActivationsAreCertified` | `Onboarded`: what a capability says is what the last decisions of its trail say (`Explained`). A certification has to outlive every later decision about *other* capabilities. |
| `CommandsKeepTheirRole` | `Page`: token and role are of one session (`Paired`), and a call that has looked keeps a token of a session of its own role (`InRole`), because the look and the sending are one step. |
| `ReplacementsAreLoaded` | `Snapshots`: a row has one revision (`Single`) and, unless a rollback removed it, what a job loaded is the row or is left behind by it (`LeftBehind`). |
| `AuthorizationsAreSingle` | `Evaluated`: an authorization is found only for the first reservation of a key (`Justified`), and each piece of evidence is the latest of its correlation when it is added (`Dated`). The unknown outcome is then in the traces. |
| `AnswersAreCurrent` | a read decides on the hubs as they are; a device shown is of the assignment that was checked. |
| `GatesAreObserved` | every published gate is decided by the evidence of its own metrics alone, for no reviewer's decision is open to this stage (`Undecided`). |
| `ReviewsAreEarned` | a gathered plan's review is of a suspended operator that is ready but for the suspension, since training and certificate do not ask about it (`ReadyOnceLifted`). |
| `ConfidenceFades` | `Fading`: a series holds the snapshots of its scope reported by its time (`Taken`), so that a later one has them too (`Gained`). Age only costs (`AgeCosts`). |
| `NeutralityIsEarned` | `Earned` and `Governed`: a read model without exceptions is of a history without a gap (`WholeHistory`), its decisions are about what it shows, since the plan's were when it was made, and two partners of one capability that no comparison tells apart have the same terms and all of their own in place (`Alike`). |
| `RoutesStayPinned` | `Registry` and `Pinned`: a registry only grows, so that an id and version name one route for good, and a resolution of a submitted attempt is the first one's, which a grant allowed when it was made (`Allowed`). |
| `OfferingsResolve` | `DecisionAdmits`: a service is offered exactly if no refusal in the code's list holds, of the hub, the scopes, the route and the capabilities in turn; what is `Available` is then `Resolvable` by the registry's own, separate checks. The first refusal is the least index at which one holds (`FirstIsLeast`). |
| `BestIsRecommended` | `Compared`: a published comparison has the evidence it was made of. Basis points round down; for at most a hundred dimensions no two different sums of percentages become equal (`ReadyBySum`), so that the order by readiness is the one by sums. |
| `TracesStayExact` | `TracedNow`: a manifest was sealed with events that were emitted, of one run and each id once (`Sealed`), and is read only while it says what it was sealed with. The digests of the copies then leave one copy of each sealed event (`TraceOfOnce`), so that a trace's count is a sum of ones, and the last event of a timeline decides what `Unsettled` asks (`LastIsUnsettled`). |
| `PlansStayFeasible` | `MatchInv`: amounts matched and left of a source add up to what it had (`TotalsAgree`, by `SumChange`), a match is within reach and limits (`WithinLimits`), and whoever is still unmet with a source left over is out of its reach (`OutOfReach`). |
| `LineagesStayMarked` | `Logged`: the log is finite; nothing else, for a lineage is a function of the log. The recursive functions of the module exist (`StepsExist`); a root leads to the evidence asked for (`RootsLead`) and a chain has one end (`ChainEnds`); as many passes as there are dependencies reach the closure (`MarkedIsClosed`, by counting), and what is marked has a path of dependencies to it (`MarkedIsDerived`). |
| `PartsKeepTypes`, `EvidenceKeepsTypes` | `PartsTyped`, `EvidenceTyped`: together the types of all nineteen parts, `TypeOKHub`. Where these include that something read parses, the invariant of the part is needed: an unconfigured service is refused as such before all else, a lineage's links are records of the log, a capture's attempts add up within its queue. |
| `ReceiptsHold`, `TellingIsDurable`, `BalancesAreExplained`, `StatusesAreTrue`, `StatusesStick`, `RoutesAreAudited` | those of 5.1, of the instances in the hub. |

Several of these conclude something for each of finitely many numbers: that a history has
every version, a series a latest snapshot, a chain an end. Induction over naturals is not
available to these provers; `LeastElement` takes its place, by a least counterexample
(`AllAlong` packages it for walks of a bounded length). It is proved of the
well-foundedness of strict inclusion of finite sets, applied to initial segments. Recursive
functions and the folds of the libraries are reached the same way: first that there is
a function with the recursive equation, then that what holds of its start and after
each step holds of it.

### 5.4 Only model-checked

* *Liveness* (`LockFreedom`, `UnansweredCheckoutsEnd`): there is no support for
  `ENABLED` here.
* *The seven disagreements* of section 6 are counterexamples, which TLC finds.

Every other property that a run checks is the conclusion of a theorem.

## 6. Where code and documents disagree

Seven runs check a sentence of the repository's documents or comments that the
code does not keep; TLC's counterexamples are the evidence, and the sentences are
quoted in `PROJECT.json`, `findings`.

1. `record_lost_update` — the stale-lock closure calls the revision
   compare-and-set the authoritative guard against lost updates. It is not one
   by itself: a writer paused past its lease, between comparison and rename,
   writes over a newer revision.
2. `reconciliation_sticky` — "A terminal gateway state is sticky": of two
   overlapping reconcile calls the slower, with the older answer, overwrites the
   terminal state, because the check is before the await.
3. `ledger_restart` — "restart preserves accepted … records": after a failed
   save an identical retry is told *accepted* from memory, nothing saves it, and
   a restart loses it.
4. `customer_restart` — "pending … re-verification can continue after server
   restart": a stop between the provider's file and the challenge's leaves a
   challenge that can never be confirmed.
5. `session_sync_commit` — "If the source changed during synchronization, the
   transaction rolls back": a change after the second look at the files commits.
   Later runs repair it, and rows never go back (`IntentNeverRegresses`).
6. `snapshot_sync_older` — "`sync` applies only missing or older … snapshots": the
   plan compares digests for equality, and replaces a row by a file that another job
   had read, and applied, in a later version.
7. `certification_of_another` — "onboarding cannot progress a different capability
   using another capability's certification": a certification keeps references to
   reports, and nothing looks at what they are of.

Two more were met without a run of their own. The operations read model is to keep
`UNVERIFIED` outcomes review-required (`E1D_HUB_OPERATIONS_TRACE_READ_MODEL_IMPLEMENTATION.md:44`),
but an unknown outcome asks for a review only while its event is the latest of its
correlation (`hubOperationsTrace.ts:286-288`). And evidence that two dependencies derive is
found by the first of them, so that only that one's targets are listed for
recomputation (`evidenceCorrection.ts:224`). The evidence itself is marked, which is
all that `D5_EVIDENCE_CORRECTION_LINEAGE.md` promises; `DerivedIsMarked` therefore asks
for the targets of one dependency.

## 7. What is left out

* *I/O errors of the lease* other than a failed record write, a missing file and a
  quarantine that is refused (`EACCES`, `EPERM`): they throw out of the call before it
  changes anything.
* *Parsing, validation and integrity digests* of stored files: a file that does
  not validate stops the server at start; what the files hold here is what the
  code wrote.
* *Authorization outcomes* that end a workflow or review call before it changes
  state. Which operator assignment is resolved is kept, as a nondeterministic
  value.
* *The order of event times in a case*: the record's schema refuses an event
  older than the last, so a clock that went back makes a transition throw. That
  is one way to reach `NotStored`, and has no property.
* *The one minute of clock skew* that the receiver tolerates.
* *Symmetric scopes*: records under different keys or scopes share nothing but
  the directory, so one is enough unless a property relates two.
* *In `SessionShadow`*: rate-limit counters, CSRF, roles, and the conflicts of rows
  that nothing in the program writes (`POSTGRES_OWNED`, an immutable session's
  revision, a divergence at one revision).
* *Economics*: sums and shares of one document, without state or order; a property
  would repeat the formulas.
* *Scoped authorization, privacy and data access*: one pass over a subject, an object
  and a purpose that are given. Who reads what of a hub is `HubAccess`.
* *Rate limits*: one counter with a fixed window, which only refuses. *Retention and
  the entry limit of the audit log*: `AuditedRoutes` has the log as a set.
* *Building, signing and parsing of provider messages*: one value in, one value out;
  `ProviderFetch` has the call around them.
* *Browser outbox*: rows are added and read in transactions of the browser, and
  delivery is disabled in the code. *User interface, content and localization*:
  presentation. *Canary observation*: read-only evidence of what `SessionShadow` has.
* *Evidence signatures and PostgreSQL configuration*: checks of one document, static
  tables and validators.

## 8. Plan

**Done**, in this order: the lease, the record store over it and its refinement; the
workflow intents; the gateway with its reconciliation; the ledger with the receiver;
the stores of `server_stores`; then the payment routes with their audit, the preorder
store, the snapshot shadow, onboarding and routing, and the evaluations of the hub.

**Proofs done**: every invariant of the runs and every action property, as section 5
lists them, and both refinements.

**Next, proofs**: liveness once a prover knows `ENABLED`.

**Abstract specifications still to state**: an attempt register (one grant per
transaction), which both payment stores implement, and a session registry (admitted,
removed) that the file and row pair implements.

**Next, modelling**: retention and the entry limit of the audit log; the event times
of a review case.

## 9. Running

`tlc -config MCLease.cfg LocalFileLease` and likewise for each `.cfg` (the run
list in `PROJECT.json` names the module of each); `tlapm <module>` for the eight
`…Proofs` modules. The longest run, `hub`, takes about four
minutes with two workers, `server_stores` about three. `HubProofs` and
`HubEvidenceProofs` take the longest to prove, up to twenty-five minutes each, more than half of which
goes into the definitions of the twenty modules they are about, and `ServerStoresProofs`
about six.
