-------------------------- MODULE OperationsTrace ---------------------------
(***************************************************************************)
(* Workflow events, the evidence manifest that is made of those of a run   *)
(* at some moment, and the traces that operations read, made later of the  *)
(* manifest and of whatever events the caller has by then: more, fewer, or *)
(* the same twice.  A digest stands for the whole content, so an event is  *)
(* its own digest, and a manifest carries what it was sealed with beside   *)
(* what it says since it was exported.  The time of an event is a text     *)
(* with an offset: `text` is its place in the order of the texts.          *)
(***************************************************************************)
EXTENDS Naturals, FiniteSets, FiniteSetsExt

CONSTANTS
  Events,      \* [event, correlation, run, scope, text, transport, authority, outcome, detail, links, limits]
  Runs,
  Artifacts,   \* declared with a manifest: [id, integrity, digest]
  Fixtures,    \* hub graphs: [members, routes, served]
  MaxCopies

VARIABLES
  emitted,
  manifest,    \* {} or {[content, sealed]}
  traces       \* of the last read model that was made; {} at first

vars == <<emitted, manifest, traces>>

Init == emitted = {} /\ manifest = {} /\ traces = {}

-----------------------------------------------------------------------------
TransportStates ==
  { "CAPTURED_SYNTHETIC", "QUEUED_SYNTHETIC", "SUBMITTED_SYNTHETIC", "PROVIDER_PENDING_SYNTHETIC",
    "PROVIDER_EVIDENCE_RECEIVED_SYNTHETIC", "TRANSPORT_FAILED_SYNTHETIC" }
AuthorityStates ==
  { "NO_AUTHORITY_ASSERTED", "PARTNER_REVIEW_REQUIRED", "PARTNER_AUTH_PENDING_SYNTHETIC",
    "PARTNER_AUTHORIZED_SYNTHETIC", "PARTNER_REJECTED_SYNTHETIC" }
Outcomes == {"RECORDED", "DEFERRED", "DENIED", "UNVERIFIED", "COMPLETED_SYNTHETIC"}

\* HubWorkflowEnvelopeContentSchema: references come in pairs and with the versions
\* that vouch for them, and who says that a partner authorized says also that this
\* settles nothing.
EnvelopeParses(e) ==
  /\ e.transport \in TransportStates /\ e.authority \in AuthorityStates /\ e.outcome \in Outcomes
  /\ "service" \in e.links <=> "capability" \in e.links
  /\ "route" \in e.links <=> "adapter" \in e.links
  /\ "service" \in e.links => "contractVersions" \in e.links
  /\ "route" \in e.links => "routeVersions" \in e.links
  /\ e.authority = "PARTNER_AUTHORIZED_SYNTHETIC" => "NO_SETTLEMENT_AUTHORITY" \in e.limits
  /\ e.limits # {}

\* createHubWorkflowEnvelope.
Emit(e) ==
  e \notin emitted /\ EnvelopeParses(e) /\ emitted' = emitted \cup {e} /\ UNCHANGED <<manifest, traces>>

-----------------------------------------------------------------------------
\* HubEvidenceArtifactSchema.
ArtifactParses(a) ==
  /\ a.integrity \in {"DIGEST_RECORDED", "PENDING", "UNKNOWN"}
  /\ a.integrity = "DIGEST_RECORDED" => a.digest

\* buildSyntheticHubFixtureGraph: the members of the hubs, what they serve and over
\* which routes; all must be known.
GraphIsComplete(g) ==
  /\ UNION {g.members[h] : h \in DOMAIN g.members} \subseteq DOMAIN g.served
  /\ UNION {g.served[p] : p \in UNION {g.members[h] : h \in DOMAIN g.members}} \subseteq g.routes

\* computeSyntheticHubFixtureGraphIdentity.
GraphIdentity(g) ==
  LET partners == UNION {g.members[h] : h \in DOMAIN g.members} IN
    [hubs |-> DOMAIN g.members, partners |-> partners, routes |-> UNION {g.served[p] : p \in partners}]

\* completenessForArtifacts: the fixture graph and the events have their digests.
Completeness(artifacts) ==
  CASE \E a \in artifacts : a.integrity = "UNKNOWN" -> "INCOMPLETE_UNKNOWN"
    [] (\E a \in artifacts : a.integrity = "PENDING")
         /\ ~\E a \in artifacts : a.integrity = "UNKNOWN" -> "INCOMPLETE_PENDING"
    [] OTHER -> "DIGEST_SET_COMPLETE"

\* The summary of the events, one digest each.
SummaryParses(m) == m.correlations = {e.correlation : e \in m.events}

\* HubEvidenceManifestContentSchema.
ManifestParses(m) ==
  /\ \A a, b \in m.artifacts : a.id = b.id => a = b
  /\ m.completeness = Completeness(m.artifacts)

\* createHubEvidenceManifest of the events that are there: one run, each id once.
Content(run, events, artifacts, graph) ==
  [run |-> run, events |-> events, correlations |-> {e.correlation : e \in events}, artifacts |-> artifacts,
   graph |-> GraphIdentity(graph), completeness |-> Completeness(artifacts)]
MakeManifest(run, events, artifacts, graph) ==
  LET content == Content(run, events, artifacts, graph) IN
    /\ events \subseteq emitted /\ \A e \in events : e.run = run
    /\ \A d, e \in events : d.event = e.event => d = e
    /\ GraphIsComplete(graph) /\ \A a \in artifacts : ArtifactParses(a)
    /\ ManifestParses(content)
    /\ manifest' = {[content |-> content, sealed |-> content]}
    /\ UNCHANGED <<emitted, traces>>

\* An exported manifest is a text: what it says may change, not what it was sealed
\* with.
Alter(e) ==
  /\ \E m \in manifest :
       /\ m.content = m.sealed /\ e \in m.content.events
       /\ manifest' = {[m EXCEPT !.content.events = @ \ {e}]}
  /\ UNCHANGED <<emitted, traces>>

\* verifyHubEvidenceManifest.
Verified(m) == SummaryParses(m.sealed) /\ ManifestParses(m.content) /\ m.content = m.sealed

-----------------------------------------------------------------------------
QueueState(transport) ==
  CASE transport = "CAPTURED_SYNTHETIC" -> "CAPTURED"
    [] transport = "QUEUED_SYNTHETIC" -> "QUEUED"
    [] transport = "SUBMITTED_SYNTHETIC" -> "SUBMITTED"
    [] transport = "PROVIDER_PENDING_SYNTHETIC" -> "PENDING_SYNTHETIC_PROVIDER_EVIDENCE"
    [] transport = "PROVIDER_EVIDENCE_RECEIVED_SYNTHETIC" -> "EVIDENCE_RECEIVED"
    [] transport = "TRANSPORT_FAILED_SYNTHETIC" -> "TRANSPORT_FAILED"

\* attentionStateFor, which does not ask for the reconciliation.
Attention(latest, conflict) ==
  CASE conflict -> "CONFLICT_REVIEW_REQUIRED"
    [] ~conflict /\ latest.outcome \in {"DENIED", "DEFERRED", "UNVERIFIED"} -> latest.outcome
    [] OTHER -> IF latest.authority = "PARTNER_REVIEW_REQUIRED" THEN latest.authority ELSE "NONE"

\* The order of the timeline is that of the texts, and of the ids.
Latest(events) ==
  CHOOSE e \in events : \A d \in events :
    d.text < e.text \/ (d.text = e.text /\ d.event <= e.event)

Detailed(events, detail) == \E e \in events : e.detail = detail

\* buildTrace, of copies of events; it names the manifest by its digest.
Trace(m, copies) ==
  LET events == {e \in DOMAIN copies : copies[e] > 0}
      conflict == Detailed(events, "CONFLICT_REVIEW_REQUIRED")
  IN [correlation |-> Latest(events).correlation, scope |-> Latest(events).scope,
      events |-> events, count |-> MapThenSumSet(LAMBDA e : copies[e], events), manifest |-> m.sealed,
      queue |-> QueueState(Latest(events).transport),
      retry |-> Detailed(events, "RETRY_OBSERVED"), conflict |-> conflict,
      reconciliation |-> \/ conflict \/ Detailed(events, "RECONCILIATION_REQUIRED")
                         \/ Latest(events).outcome = "UNVERIFIED",
      attention |-> Attention(Latest(events), conflict), latest |-> Latest(events)]

\* Mutant: every digest given must be one of the manifest's.
SameDigestsMut(m, copies) ==
  /\ {e \in DOMAIN copies : copies[e] > 0} \subseteq m.events
  /\ m.correlations = {e.correlation : e \in {d \in DOMAIN copies : copies[d] > 0}}

\* The digests of the manifest and of the events given, sorted, are the same, and so
\* are their correlations.
SameDigests(m, copies) ==
  /\ m.events = {e \in DOMAIN copies : copies[e] > 0}
  /\ \A e \in m.events : copies[e] = 1
  /\ m.correlations = {e.correlation : e \in m.events}

\* createHubOperationsTraceReadModel of the manifest and of copies of events: each
\* trace is of one scope.
ReadModel(m, copies) ==
  LET events == {e \in DOMAIN copies : copies[e] > 0} IN
    /\ \A e \in events : e.run = m.content.run
    /\ SameDigests(m.content, copies)
    /\ \A d, e \in events : d.correlation = e.correlation => d.scope = e.scope
    /\ traces' = {Trace(m, [e \in {x \in events : x.correlation = c} |-> copies[e]]) :
                    c \in {e.correlation : e \in events}}
    /\ UNCHANGED <<emitted, manifest>>

Next ==
  \/ \E e \in Events : Emit(e) \/ Alter(e)
  \/ \E run \in Runs, events \in SUBSET emitted, artifacts \in SUBSET Artifacts, graph \in Fixtures :
       MakeManifest(run, events, artifacts, graph)
  \/ \E m \in manifest : Verified(m) /\ \E copies \in [emitted -> 0..MaxCopies] : ReadModel(m, copies)

Spec == Init /\ [][Next]_vars

-----------------------------------------------------------------------------
QueueStates ==
  { "CAPTURED", "QUEUED", "SUBMITTED", "PENDING_SYNTHETIC_PROVIDER_EVIDENCE", "EVIDENCE_RECEIVED",
    "TRANSPORT_FAILED" }
Attentions ==
  { "NONE", "DEFERRED", "DENIED", "UNVERIFIED", "PARTNER_REVIEW_REQUIRED", "CONFLICT_REVIEW_REQUIRED" }

\* HubOperationsTraceProjectionSchema.
TraceParses(t) ==
  /\ t.queue \in QueueStates /\ t.attention \in Attentions
  /\ {t.retry, t.conflict, t.reconciliation} \subseteq BOOLEAN
  /\ t.count > 0 /\ t.events # {} /\ t.latest \in t.events

\* actionPlaceholdersFor, by role: all are reviews, and none may be done here.
Placeholders == {"REPROCESS_REVIEW", "RECONCILIATION_REVIEW", "CONFLICT_REVIEW", "RESOLUTION_REVIEW"}
Actions(t, role) ==
  (IF t.queue = "TRANSPORT_FAILED" \/ t.retry THEN {"REPROCESS_REVIEW"} ELSE {})
    \cup (IF t.reconciliation THEN {"RECONCILIATION_REVIEW"} ELSE {})
    \cup (IF t.conflict /\ role = "PARTNER_ADMIN" THEN {"CONFLICT_REVIEW", "RESOLUTION_REVIEW"} ELSE {})

\* projectHubOperationsTrace and searchHubOperationsTraces.
Visible(t, scope) == t.scope = scope
Search(scope, role) ==
  {[trace |-> t, actions |-> Actions(t, role)] : t \in {x \in traces : Visible(x, scope)}}

TypeOK ==
  /\ emitted \subseteq Events /\ Cardinality(manifest) <= 1
  /\ \A m \in manifest : m.sealed.events \subseteq emitted /\ ManifestParses(m.content)
  /\ \A t \in traces : TraceParses(t) /\ t.events \subseteq emitted
  /\ \A scope \in {e.scope : e \in emitted}, role \in {"OPERATIONS", "PARTNER_ADMIN"} :
       \A found \in Search(scope, role) : found.actions \subseteq Placeholders

\* An outcome that is unknown and that no later event of the timeline follows.
Unsettled(events) ==
  \E e \in events :
    e.outcome = "UNVERIFIED" /\ \A d \in events : d.text < e.text \/ (d.text = e.text /\ d.event <= e.event)

\* What operations read is what the manifest was sealed with, whole and counted once,
\* whatever became of its export and however often its events were handed in: the
\* traces have the sealed events and no others, each in the one trace of its
\* correlation, of the manifest's run and of one scope.  A conflict or a demand for
\* reconciliation asks for a review whatever came later, an unknown outcome as long as
\* nothing did.
TracesAreExact ==
  \A t \in traces :
    /\ UNION {u.events : u \in traces} = t.manifest.events
    /\ \A u \in traces : t.correlation = u.correlation => t = u
    /\ \A e \in t.events : e.run = t.manifest.run /\ e.scope = t.scope /\ e.correlation = t.correlation
    /\ t.count = Cardinality({e.event : e \in t.events})
    /\ (\E e \in t.events : e.detail \in {"CONFLICT_REVIEW_REQUIRED", "RECONCILIATION_REQUIRED"})
         \/ Unsettled(t.events) =>
           \A role \in {"OPERATIONS", "PARTNER_ADMIN"} : "RECONCILIATION_REVIEW" \in Actions(t, role)
=============================================================================
