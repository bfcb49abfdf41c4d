------------------------------- MODULE HubProofs ------------------------------
(***************************************************************************)
(* Proofs about parts of MCHub: for each part an inductive invariant over  *)
(* the variables it has for its own, one lemma for each of its actions,    *)
(* and the theorem that every behaviour of the hub keeps it.               *)
(***************************************************************************)
EXTENDS MCHub, Sequences, FiniteSetTheorems, TLAPS

-----------------------------------------------------------------------------
\* TelebirrPreorder.  A store never knows more than the file, and one of the file's
\* revision knows all of it: it is this that makes its look at its own memory one at
\* the file.
Unique(records) == \A a, b \in records : Te!Collides(a, b) => a = b

Follows(memory, file) ==
  /\ memory.revision \in Nat /\ memory.revision <= file.revision
  /\ memory.records \subseteq file.records
  /\ memory.revision = file.revision => memory.records = file.records

Reservations(file, store, told) ==
  /\ file.revision \in Nat
  /\ Unique(file.records)
  /\ store = [s \in PreorderStores |-> store[s]]
  /\ \A s \in PreorderStores : Follows(store[s], file)
  /\ told \subseteq file.records

LEMMA UniqueWithOneMore ==
  ASSUME NEW records, Unique(records), NEW request, \A r \in records : ~Te!Collides(r, request)
  PROVE  Unique(records \cup {request})
BY DEF Unique, Te!Collides

\* What a save writes is above every store that follows the file.
LEMMA SaveStep ==
  ASSUME Reservations(x1, x2, x3), NEW s \in PreorderStores, NEW request,
         \A r \in x2[s].records : ~Te!Collides(r, request), Te!Save(s, request)
  PROVE  /\ x1'.revision \in Nat /\ x1'.revision = x1.revision + 1
         /\ x1'.records = x1.records \cup {request}
         /\ Unique(x1'.records)
         /\ \A t \in PreorderStores : Follows(x2[t], x1')
<1>1. x2[s].records = x1.records /\ x1'.revision = x1.revision + 1 /\ x1'.records = x1.records \cup {request}
  BY DEF Reservations, Follows, Te!Save, Te!Candidate
<1>2. Unique(x1'.records)
  BY <1>1, UniqueWithOneMore DEF Reservations
<1>3. ASSUME NEW t \in PreorderStores PROVE Follows(x2[t], x1')
  BY <1>1 DEF Reservations, Follows
<1>. QED
  BY <1>1, <1>2, <1>3 DEF Reservations

LEMMA PreorderStep ==
  ASSUME Reservations(x1, x2, x3), Te!Next
  PROVE  Reservations(x1', x2', x3')
<1>1. PICK s \in PreorderStores :
        (\E request \in Preorders : Te!Reserve(s, request) \/ Te!ReserveFails(s, request) \/ Te!Answer(s, request))
        \/ Te!Reopen(s)
  BY DEF Te!Next
<1>2. ASSUME NEW request \in Preorders, Te!Reserve(s, request) PROVE Reservations(x1', x2', x3')
  <2>1. /\ x1'.revision \in Nat
        /\ x1'.records = x1.records \cup {request}
        /\ Unique(x1'.records)
        /\ \A t \in PreorderStores : Follows(x2[t], x1')
    BY <1>2, SaveStep DEF Te!Reserve
  <2>2. x2' = [x2 EXCEPT ![s] = x1'] /\ x3' = x3 \cup {request}
    BY <1>2 DEF Te!Reserve
  <2>3. Follows(x1', x1')
    BY <2>1 DEF Follows
  <2>. QED
    BY <2>1, <2>2, <2>3 DEF Reservations
<1>3. ASSUME NEW request \in Preorders, Te!ReserveFails(s, request) PROVE Reservations(x1', x2', x3')
  <2>1. CASE x1' = x1
    BY <1>3, <2>1 DEF Te!ReserveFails
  <2>2. CASE Te!Save(s, request)
    <3>1. /\ x1'.revision \in Nat
          /\ x1'.records = x1.records \cup {request}
          /\ Unique(x1'.records)
          /\ \A t \in PreorderStores : Follows(x2[t], x1')
      BY <1>3, <2>2, SaveStep DEF Te!ReserveFails
    <3>. QED
      BY <1>3, <3>1 DEF Reservations, Te!ReserveFails
  <2>. QED
    BY <1>3, <2>1, <2>2 DEF Te!ReserveFails
<1>4. ASSUME NEW request \in Preorders, Te!Answer(s, request) PROVE Reservations(x1', x2', x3')
  <2>1. x1' = x1 /\ x2' = x2 /\ x3' \subseteq x3 \cup x2[s].records
    BY <1>4 DEF Te!Answer
  <2>2. x2[s].records \subseteq x1.records
    BY DEF Reservations, Follows
  <2>. QED
    BY <2>1, <2>2 DEF Reservations
<1>5. CASE Te!Reopen(s)
  <2>1. x1' = x1 /\ x2' = [x2 EXCEPT ![s] = x1] /\ x3' = x3
    BY <1>5 DEF Te!Reopen
  <2>2. Follows(x1, x1)
    BY DEF Reservations, Follows
  <2>. QED
    BY <2>1, <2>2 DEF Reservations
<1>. QED
  BY <1>1, <1>2, <1>3, <1>4, <1>5

\* Preorders: what a caller was told of is on file, alone with its key, transaction,
\* order id and nonce, however many stores there are and however far they have fallen
\* behind the file.
THEOREM PreordersHold == HubSpec => []ReservationHolds
<1>. DEFINE Inv == moving = "preorders" => Reservations(x1, x2, x3)
<1>1. HubInit => Inv
  BY DEF HubInit, Te!Init, Reservations, Unique, Follows
<1>2. Inv /\ [HubNext]_hubVars => Inv'
  <2>. SUFFICES ASSUME Inv, [HubNext]_hubVars, moving' = "preorders" PROVE Reservations(x1', x2', x3')
    OBVIOUS
  <2>1. Reservations(x1, x2, x3) /\ (Te!Next \/ UNCHANGED <<x1, x2, x3>>)
    BY DEF HubNext, hubVars
  <2>. QED
    BY <2>1, PreorderStep
<1>3. Inv => ReservationHolds
  BY DEF ReservationHolds, Te!ReservationHolds, Reservations, Unique, Te!Collides
<1>. QED
  BY <1>1, <1>2, <1>3, PTL DEF HubSpec

-----------------------------------------------------------------------------
\* ProviderFetch.  What a stage says of the other variables: nothing is counted
\* before a body is read, and what is counted while it is read is held.
Bounded(stage, timer, aborted, body, total, held, outcome) ==
  /\ stage \in {"idle", "connecting", "reading", "over"}
  /\ aborted \in BOOLEAN /\ total \in Nat /\ held \in Nat
  /\ stage \in {"idle", "connecting"} => body = "none" /\ held = 0 /\ total = 0 /\ outcome = "none"
  /\ stage = "reading" => body = "open" /\ held = total /\ outcome = "none"
  /\ stage \in {"connecting", "reading"} => timer = "running" \/ aborted
  /\ held <= FetchBytes
  /\ stage = "over" => timer = "off" /\ (body = "discarded" => aborted) /\ body # "open"
  /\ outcome = "value" => body = "ended" /\ held = total

BoundedNow == Bounded(x1, x2, x3, x4, x5, x6, x7)

LEMMA ChunkStep ==
  ASSUME BoundedNow, NEW size \in FetchChunks, Fe!Chunk(size)
  PROVE  BoundedNow'
<1>1. size \in Nat /\ x5' = x5 + size /\ x5' \in Nat
  BY HubAssumption DEF BoundedNow, Bounded, Fe!Chunk
<1>2. CASE x5' > FetchBytes
  BY <1>1, <1>2 DEF BoundedNow, Bounded, Fe!Chunk, Fe!Settle
<1>3. CASE ~(x5' > FetchBytes)
  BY <1>1, <1>3, HubAssumption DEF BoundedNow, Bounded, Fe!Chunk
<1>. QED
  BY <1>2, <1>3

LEMMA FetchStep ==
  ASSUME BoundedNow, Fe!Next
  PROVE  BoundedNow'
<1>1. CASE Fe!Begin
  BY <1>1 DEF BoundedNow, Bounded, Fe!Begin, Fe!Settle
<1>2. CASE Fe!Fire
  BY <1>2 DEF BoundedNow, Bounded, Fe!Fire
<1>3. CASE Fe!FetchRejects
  BY <1>3 DEF BoundedNow, Bounded, Fe!FetchRejects, Fe!Settle
<1>4. CASE Fe!Headers
  BY <1>4 DEF BoundedNow, Bounded, Fe!Headers, Fe!Refuse, Fe!Settle
<1>5. CASE \E size \in FetchChunks : Fe!Chunk(size)
  BY <1>5, ChunkStep
<1>6. CASE Fe!End
  BY <1>6 DEF BoundedNow, Bounded, Fe!End, Fe!Settle
<1>7. CASE Fe!ReadFails
  BY <1>7 DEF BoundedNow, Bounded, Fe!ReadFails, Fe!Settle
<1>. QED
  BY <1>1, <1>2, <1>3, <1>4, <1>5, <1>6, <1>7 DEF Fe!Next

\* Provider calls: bounded in time and memory, with nothing left open, for every
\* limit and every sizes of chunks.
THEOREM CallsAreBounded == HubSpec => []CallIsBounded
<1>. DEFINE Inv == moving = "fetches" => BoundedNow
<1>1. HubInit => Inv
  <2>. SUFFICES ASSUME HubInit, moving = "fetches" PROVE BoundedNow
    OBVIOUS
  <2>1. Fe!Init
    BY DEF HubInit
  <2>2. x6 = 0 /\ x5 = 0 /\ x6 \in Nat /\ x6 <= FetchBytes
    BY <2>1, HubAssumption DEF Fe!Init
  <2>. QED
    BY <2>1, <2>2, Zenon DEF Fe!Init, BoundedNow, Bounded
<1>2. Inv /\ [HubNext]_hubVars => Inv'
  <2>. SUFFICES ASSUME Inv, [HubNext]_hubVars, moving' = "fetches" PROVE BoundedNow'
    OBVIOUS
  <2>1. BoundedNow /\ (Fe!Next \/ UNCHANGED <<x1, x2, x3, x4, x5, x6, x7>>)
    BY DEF HubNext, hubVars
  <2>2. CASE UNCHANGED <<x1, x2, x3, x4, x5, x6, x7>>
    BY <2>1, <2>2 DEF BoundedNow
  <2>. QED
    BY <2>1, <2>2, FetchStep
<1>3. Inv => CallIsBounded
  BY DEF CallIsBounded, Fe!CallIsBounded, BoundedNow, Bounded
<1>. QED
  BY <1>1, <1>2, <1>3, PTL DEF HubSpec

-----------------------------------------------------------------------------
\* PartnerOnboarding.  What a capability says of itself is what its trail of
\* decisions says.
Decisions == On!RuntimeModes \cup {"CERTIFIED", "SUSPENDED"}
CertifiedSince(trail) ==
  \E i \in 1..Len(trail) :
    trail[i] = "CERTIFIED" /\ \A k \in i..Len(trail) : trail[k] \notin On!RuntimeModes

CapabilityType == [state : On!CapabilityStates, binding : SUBSET On!RuntimeModes, certified : BOOLEAN, eligible : BOOLEAN]

Explained(capability, trail, environment) ==
  /\ capability \in CapabilityType
  /\ trail \in Seq(Decisions)
  /\ \A m, n \in capability.binding : m = n
  /\ On!LastBinding(trail) = capability.binding
  /\ capability.certified => CertifiedSince(trail)
  /\ capability.eligible => /\ trail # <<>> /\ On!Last(trail) = "CERTIFIED"
                            /\ capability.binding = {"EXECUTABLE"} /\ environment # "synthetic"

Onboarded(organization, capability, trail) ==
  /\ organization = [state |-> organization.state, path |-> organization.path,
                     environment |-> organization.environment, evidenced |-> organization.evidenced]
  /\ capability = [c \in OnboardingCapabilities |-> capability[c]]
  /\ trail = [c \in OnboardingCapabilities |-> trail[c]]
  /\ \A c \in OnboardingCapabilities : Explained(capability[c], trail[c], organization.environment)
  /\ organization.state = "SANDBOX_CERTIFIED" => \A c \in OnboardingCapabilities : capability[c].certified

LEMMA CertifiedCapability ==
  ASSUME NEW old \in CapabilityType, NEW e \in BOOLEAN,
         NEW next, next = [old EXCEPT !.state = "SANDBOX_CERTIFIED", !.certified = TRUE, !.eligible = e]
  PROVE  next \in CapabilityType /\ next.binding = old.binding /\ next.certified /\ next.eligible = e
BY DEF CapabilityType, On!CapabilityStates

LEMMA SuspendedCapability ==
  ASSUME NEW old \in CapabilityType,
         NEW next, next = [old EXCEPT !.state = "SUSPENDED", !.eligible = FALSE]
  PROVE  next \in CapabilityType /\ next.binding = old.binding /\ next.certified = old.certified /\ ~next.eligible
BY DEF CapabilityType, On!CapabilityStates

LEMMA BindingIsLast ==
  ASSUME NEW trail \in Seq(Decisions), NEW mode \in On!RuntimeModes
  PROVE  On!LastBinding(Append(trail, mode)) = {mode}
<1> DEFINE s == Append(trail, mode)
<1>1. Len(trail) \in Nat /\ Len(s) = Len(trail) + 1 /\ s[Len(s)] = mode OBVIOUS
<1> HIDE DEF s
<1>2. {n \in 1..Len(s) : s[n] \in On!RuntimeModes /\ \A k \in n + 1..Len(s) : s[k] \notin On!RuntimeModes}
        = {Len(s)}
  BY <1>1
<1>3. On!LastBinding(s) = {mode} BY <1>1, <1>2 DEF On!LastBinding
<1>4. QED BY <1>3 DEF s

LEMMA LastBindingStays ==
  ASSUME NEW trail \in Seq(Decisions), NEW decision \in {"CERTIFIED", "SUSPENDED"}
  PROVE  On!LastBinding(Append(trail, decision)) = On!LastBinding(trail)
BY DEF On!LastBinding, On!RuntimeModes

LEMMA CertificationStays ==
  ASSUME NEW trail \in Seq(Decisions), CertifiedSince(trail)
  PROVE  CertifiedSince(Append(trail, "SUSPENDED"))
BY DEF CertifiedSince, On!RuntimeModes

LEMMA CertifiedNow ==
  ASSUME NEW trail \in Seq(Decisions)
  PROVE  CertifiedSince(Append(trail, "CERTIFIED"))
<1>1. Append(trail, "CERTIFIED")[Len(trail) + 1] = "CERTIFIED" /\ Len(Append(trail, "CERTIFIED")) = Len(trail) + 1
  OBVIOUS
<1>. QED
  BY <1>1 DEF CertifiedSince, On!RuntimeModes

OnboardedNow == Onboarded(x1, x2, x4)

\* A decision about one capability: only that one has to be explained again.
LEMMA ChangeStep ==
  ASSUME OnboardedNow, NEW c \in OnboardingCapabilities, NEW next, NEW decision, On!Change(c, next, decision),
         Explained(next, Append(x4[c], decision), x1.environment),
         x1.state = "SANDBOX_CERTIFIED" /\ x2[c].certified => next.certified
  PROVE  OnboardedNow'
<1>1. x1' = x1 /\ x2' = [x2 EXCEPT ![c] = next] /\ x4' = [x4 EXCEPT ![c] = Append(x4[c], decision)]
  BY DEF On!Change
<1>2. \A d \in OnboardingCapabilities : d # c => x2'[d] = x2[d] /\ x4'[d] = x4[d]
  BY <1>1 DEF OnboardedNow, Onboarded
<1>3. x2'[c] = next /\ x4'[c] = Append(x4[c], decision)
  BY <1>1 DEF OnboardedNow, Onboarded
<1>4. \A d \in OnboardingCapabilities : Explained(x2'[d], x4'[d], x1'.environment)
  BY <1>1, <1>2, <1>3 DEF OnboardedNow, Onboarded
<1>5. x1'.state = "SANDBOX_CERTIFIED" => \A d \in OnboardingCapabilities : x2'[d].certified
  BY <1>1, <1>2, <1>3 DEF OnboardedNow, Onboarded
<1>. QED
  BY <1>1, <1>4, <1>5 DEF OnboardedNow, Onboarded

LEMMA BindStep ==
  ASSUME OnboardedNow, NEW role, NEW c \in OnboardingCapabilities, NEW mode \in On!RuntimeModes,
         On!Bind(role, c, mode)
  PROVE  OnboardedNow'
<1>. DEFINE next == [state |-> "CONFIGURED", binding |-> {mode}, certified |-> FALSE, eligible |-> FALSE]
<1>1. On!Change(c, next, mode) /\ x1.state = "TECHNICAL_CONFIGURATION"
  BY DEF On!Bind
<1>2. x4[c] \in Seq(Decisions) /\ mode \in Decisions
  BY DEF OnboardedNow, Onboarded, Explained, Decisions
<1>3. next \in CapabilityType /\ next.binding = {mode} /\ ~next.certified /\ ~next.eligible
  BY DEF CapabilityType, On!CapabilityStates
<1>4. Append(x4[c], mode) \in Seq(Decisions) /\ On!LastBinding(Append(x4[c], mode)) = {mode}
  BY <1>2, BindingIsLast
<1>. HIDE DEF next
<1>5. Explained(next, Append(x4[c], mode), x1.environment)
  BY <1>3, <1>4 DEF Explained
<1>. QED
  BY <1>1, <1>5, ChangeStep DEF next

LEMMA CertifyStep ==
  ASSUME OnboardedNow, NEW c \in OnboardingCapabilities, On!Certify(c)
  PROVE  OnboardedNow'
<1>. DEFINE old == x2[c]
            executable == "EXECUTABLE" \in old.binding /\ x1.environment # "synthetic"
            next == [old EXCEPT !.state = "SANDBOX_CERTIFIED", !.certified = TRUE, !.eligible = executable]
            trail == Append(x4[c], "CERTIFIED")
<1>1. On!Change(c, next, "CERTIFIED")
  BY DEF On!Certify
<1>2. Explained(old, x4[c], x1.environment)
  BY DEF OnboardedNow, Onboarded
<1>3. /\ old \in CapabilityType
      /\ x4[c] \in Seq(Decisions)
      /\ \A m, n \in old.binding : m = n
      /\ On!LastBinding(x4[c]) = old.binding
  BY <1>2 DEF Explained
<1>4. /\ next \in CapabilityType
      /\ next.binding = old.binding /\ next.certified
      /\ next.eligible = executable
  <2>1. executable \in BOOLEAN
    OBVIOUS
  <2>. HIDE DEF executable, old
  <2>. QED
    BY <1>3, <2>1, CertifiedCapability
<1>5. /\ trail \in Seq(Decisions) /\ trail # <<>> /\ On!Last(trail) = "CERTIFIED"
      /\ On!LastBinding(trail) = old.binding
      /\ CertifiedSince(trail)
  BY <1>3, LastBindingStays, CertifiedNow DEF On!Last, Decisions
<1>6. "EXECUTABLE" \in old.binding => old.binding = {"EXECUTABLE"}
  BY <1>3
<1>7. Explained(next, trail, x1.environment)
  BY <1>3, <1>4, <1>5, <1>6 DEF Explained
<1>. HIDE DEF next, trail
<1>. QED
  BY <1>1, <1>4, <1>7, ChangeStep DEF trail

LEMMA SuspendStep ==
  ASSUME OnboardedNow, NEW c \in OnboardingCapabilities, On!Suspend(c)
  PROVE  OnboardedNow'
<1>. DEFINE old == x2[c]
            next == [old EXCEPT !.state = "SUSPENDED", !.eligible = FALSE]
            trail == Append(x4[c], "SUSPENDED")
<1>1. On!Change(c, next, "SUSPENDED")
  BY DEF On!Suspend
<1>2. Explained(old, x4[c], x1.environment)
  BY DEF OnboardedNow, Onboarded
<1>3. /\ old \in CapabilityType
      /\ x4[c] \in Seq(Decisions)
      /\ \A m, n \in old.binding : m = n
      /\ On!LastBinding(x4[c]) = old.binding
      /\ old.certified => CertifiedSince(x4[c])
  BY <1>2 DEF Explained
<1>4. /\ next \in CapabilityType
      /\ next.binding = old.binding /\ next.certified = old.certified /\ ~next.eligible
  BY <1>3, SuspendedCapability
<1>5. /\ trail \in Seq(Decisions)
      /\ On!LastBinding(trail) = old.binding
      /\ old.certified => CertifiedSince(trail)
  BY <1>3, LastBindingStays, CertificationStays DEF Decisions
<1>6. Explained(next, trail, x1.environment)
  BY <1>3, <1>4, <1>5 DEF Explained
<1>. HIDE DEF next, trail
<1>. QED
  BY <1>1, <1>4, <1>6, ChangeStep DEF trail

\* The organization only becomes certified when every capability is.
LEMMA TransitionStep ==
  ASSUME OnboardedNow, NEW role, NEW target, On!Transition(role, target)
  PROVE  OnboardedNow'
<1>1. x1' = [x1 EXCEPT !.state = target] /\ x2' = x2 /\ x4' = x4 /\ On!EvidenceAllows(target)
  BY DEF On!Transition
<1>2. x1'.state = target /\ x1'.environment = x1.environment
      /\ x1' = [state |-> x1'.state, path |-> x1'.path, environment |-> x1'.environment, evidenced |-> x1'.evidenced]
  BY <1>1 DEF OnboardedNow, Onboarded
<1>3. target = "SANDBOX_CERTIFIED" => \A c \in OnboardingCapabilities : x2[c].certified
  BY <1>1 DEF On!EvidenceAllows
<1>. QED
  BY <1>1, <1>2, <1>3 DEF OnboardedNow, Onboarded

\* Onboarding: what may be activated was certified by the last decision about it, and
\* a certified organization has every capability certified after its last binding,
\* whatever is decided of the others in between.
THEOREM ActivationsAreCertified == HubSpec => []ActivationIsCertified
<1>. DEFINE Inv == moving = "onboarding" => OnboardedNow
<1>1. HubInit => Inv
  <2>. SUFFICES ASSUME HubInit, moving = "onboarding" PROVE OnboardedNow
    OBVIOUS
  <2>1. On!Init
    BY DEF HubInit
  <2>2. PICK environment \in {"synthetic", "sandbox"}, evidenced \in BOOLEAN, domain \in BOOLEAN, adapter \in BOOLEAN :
          x1 = [state |-> "DRAFT", path |-> On!Path(domain, TRUE, TRUE, adapter),
                environment |-> environment, evidenced |-> evidenced]
    BY <2>1 DEF On!Init
  <2>3. On!LastBinding(<<>>) = {} /\ <<>> \in Seq(Decisions)
    BY DEF On!LastBinding
  <2>4. On!Requested \in CapabilityType /\ On!Requested.binding = {} /\ ~On!Requested.certified /\ ~On!Requested.eligible
    BY DEF CapabilityType, On!CapabilityStates, On!Requested
  <2>5. Explained(On!Requested, <<>>, x1.environment)
    BY <2>3, <2>4 DEF Explained
  <2>. QED
    BY <2>1, <2>2, <2>5 DEF On!Init, OnboardedNow, Onboarded
<1>2. Inv /\ [HubNext]_hubVars => Inv'
  <2>. SUFFICES ASSUME Inv, [HubNext]_hubVars, moving' = "onboarding" PROVE OnboardedNow'
    OBVIOUS
  <2>1. OnboardedNow /\ (On!Next \/ UNCHANGED <<x1, x2, x4>>)
    BY DEF HubNext, hubVars
  <2>2. CASE UNCHANGED <<x1, x2, x4>>
    BY <2>1, <2>2 DEF OnboardedNow
  <2>3. CASE On!Next
    BY <2>1, <2>3, TransitionStep, BindStep, CertifyStep, SuspendStep DEF On!Next
  <2>. QED
    BY <2>1, <2>2, <2>3
<1>3. Inv => ActivationIsCertified
  BY DEF ActivationIsCertified, On!ActivationIsCertified, On!CertifiedAsAWhole, OnboardedNow, Onboarded,
         Explained, CertifiedSince
<1>. QED
  BY <1>1, <1>2, <1>3, PTL DEF HubSpec

-----------------------------------------------------------------------------
\* BrowserClient.  The page's token and role are of one session, and a command for a
\* privileged role keeps the token it was sent with, which is of a session of that role.
AnyKey == PageKeys \cup {PageAgentKey}
AnyRole == {k.role : k \in AnyKey}
Session == [role : AnyRole, live : BOOLEAN]
PageStages == {"idle", "joined", "starting", "started", "looking", "found", "sent", "over"}
PageCall ==
  [kind : {"none", "START", "AGENT", "AS"}, key : AnyKey, stage : PageStages, session : Nat, token : Nat,
   retried : BOOLEAN, on : SUBSET PageCalls, got : AnyRole \cup {"none"}]

InRole(call, sessions) ==
  /\ call \in PageCall
  /\ call.stage = "idle" => call.got = "none" /\ call.kind = "none"
  /\ call.stage \in {"started", "found"} => call.session \in DOMAIN sessions
  /\ call.kind = "AS" =>
       /\ call.stage \in {"sent", "over"}
       /\ call.token \in DOMAIN sessions /\ sessions[call.token].role = call.key.role
       /\ call.got \in {"none", call.key.role}

Paired(sessions, token, role) == token # 0 => token \in DOMAIN sessions /\ sessions[token].role = role

Page(sessions, cookie, token, role, flying, calls) ==
  /\ sessions \in Seq(Session) /\ cookie \in Nat /\ token \in Nat /\ flying \subseteq PageCalls
  /\ Paired(sessions, token, role)
  /\ calls = [c \in PageCalls |-> calls[c]]
  /\ \A c \in PageCalls : InRole(calls[c], sessions)

PageNow == Page(x1, x2, x3, x4, x5, x6)

LEMMA OverInRole ==
  ASSUME NEW call, NEW sessions, InRole(call, sessions)
  PROVE  InRole(Br!Over(call), sessions)
BY DEF InRole, PageCall, PageStages, Br!Over

LEMMA MoreSessions ==
  ASSUME NEW call, NEW sessions, NEW more, InRole(call, sessions), DOMAIN sessions \subseteq DOMAIN more,
         \A s \in DOMAIN sessions : more[s].role = sessions[s].role
  PROVE  InRole(call, more)
BY DEF InRole

\* One call changes.
LEMMA OneCall ==
  ASSUME PageNow, NEW c \in PageCalls, NEW new, x6' = [x6 EXCEPT ![c] = new], UNCHANGED <<x1, x2>>,
         InRole(new, x1), Paired(x1, x3', x4'), x3' \in Nat, x5' \subseteq PageCalls
  PROVE  PageNow'
<1>1. x6' = [d \in PageCalls |-> IF d = c THEN new ELSE x6[d]]
  BY DEF PageNow, Page
<1>2. \A d \in PageCalls : InRole(x6'[d], x1)
  BY <1>1 DEF PageNow, Page
<1>. QED
  BY <1>1, <1>2 DEF PageNow, Page

\* A call that starts a session or joins one that is started.
Starting(call) ==
  /\ \A on \in SUBSET PageCalls : InRole([call EXCEPT !.stage = "joined", !.on = on], x1)
  /\ InRole([call EXCEPT !.stage = "starting"], x1)

LEMMA StartStep ==
  ASSUME PageNow, NEW c \in PageCalls, NEW call, Br!Start(c, call), UNCHANGED <<x1, x2, x3>>, Starting(call)
  PROVE  PageNow'
<1>1. x4' = x4 /\ Paired(x1, x3, x4) /\ x3 \in Nat /\ x5' \subseteq PageCalls
  BY DEF Br!Start, PageNow, Page
<1>2. \/ x6' = [x6 EXCEPT ![c] = [call EXCEPT !.stage = "joined", !.on = x5]]
      \/ x6' = [x6 EXCEPT ![c] = [call EXCEPT !.stage = "starting"]]
  BY DEF Br!Start
<1>3. x5 \in SUBSET PageCalls
  BY DEF PageNow, Page
<1>. QED
  BY <1>1, <1>2, <1>3, OneCall DEF Starting

LEMMA StartingCall ==
  ASSUME NEW call \in PageCall, call.kind # "AS"
  PROVE  Starting(call)
BY DEF Starting, InRole, PageCall, PageStages

LEMMA BeginStep ==
  ASSUME PageNow, NEW c \in PageCalls, NEW key \in PageKeys, Br!Begin(c, key)
  PROVE  PageNow'
<1>. DEFINE call == [x6[c] EXCEPT !.kind = "START", !.key = key]
<1>1. x6[c] \in PageCall
  BY DEF PageNow, Page, InRole
<1>2. call \in PageCall /\ call.kind = "START"
  BY <1>1 DEF PageCall, AnyKey
<1>3. Br!Start(c, call) /\ UNCHANGED <<x1, x2, x3>>
  BY DEF Br!Begin
<1>. HIDE DEF call
<1>. QED
  BY <1>2, <1>3, StartingCall, StartStep

LEMMA LookInRole ==
  ASSUME PageNow, NEW c \in PageCalls, x6[c].kind # "AS", NEW retried \in BOOLEAN
  PROVE  /\ Br!Look(x6[c]) \in PageCall /\ InRole(Br!Look(x6[c]), x1)
         /\ InRole([Br!Look(x6[c]) EXCEPT !.retried = retried], x1)
<1>1. x6[c] \in PageCall /\ x2 \in Nat
  BY DEF PageNow, Page, InRole
<1>2. Br!Look(x6[c]) \in PageCall /\ Br!Look(x6[c]).kind = "AGENT" /\ Br!Look(x6[c]).stage = "looking"
  BY <1>1 DEF PageCall, PageStages, AnyKey, Br!Look
<1>. QED
  BY <1>2 DEF InRole, PageCall

LEMMA DemoApiStep ==
  ASSUME PageNow, NEW c \in PageCalls, Br!DemoApi(c)
  PROVE  PageNow'
<1>1. InRole(x6[c], x1) /\ x6[c].stage = "idle" /\ x6[c].kind # "AS" /\ Paired(x1, x3', x4')
      /\ UNCHANGED <<x1, x2, x3, x5>> /\ x2 \in Nat /\ x3 \in Nat /\ x5 \subseteq PageCalls
  BY DEF PageNow, Page, Br!DemoApi, InRole
<1>2. InRole(Br!Sent([x6[c] EXCEPT !.kind = "AGENT"]), x1)
  BY <1>1 DEF InRole, PageCall, PageStages, Br!Sent
<1>3. \/ x6' = [x6 EXCEPT ![c] = Br!Look(x6[c])]
      \/ x6' = [x6 EXCEPT ![c] = Br!Sent([x6[c] EXCEPT !.kind = "AGENT"])]
  BY DEF Br!DemoApi
<1>. QED
  BY <1>1, <1>2, <1>3, LookInRole, OneCall

\* The check of the page's role and the sending are one step: the token is of the
\* session whose role was looked at.
LEMMA DemoApiAsStep ==
  ASSUME PageNow, NEW c \in PageCalls, NEW key \in PageKeys, Br!DemoApiAs(c, key)
  PROVE  PageNow'
<1>. DEFINE new == Br!Sent([x6[c] EXCEPT !.kind = "AS", !.key = key])
<1>1. InRole(x6[c], x1) /\ x6[c].stage = "idle" /\ Paired(x1, x3, x4) /\ x3 # 0 /\ x4 = key.role
      /\ UNCHANGED <<x1, x2, x3, x4, x5>> /\ x6' = [x6 EXCEPT ![c] = new]
      /\ x2 \in Nat /\ x3 \in Nat /\ x5 \subseteq PageCalls
  BY DEF PageNow, Page, Br!DemoApiAs
<1>2. InRole(new, x1)
  BY <1>1 DEF InRole, PageCall, PageStages, AnyKey, Br!Sent, Paired
<1>. HIDE DEF new
<1>. QED
  BY <1>1, <1>2, OneCall

\* Sessions are only added, and keep their roles.
LEMMA AnswerStep ==
  ASSUME PageNow, NEW c \in PageCalls, Br!Answer(c)
  PROVE  PageNow'
<1>. DEFINE added == [role |-> x6[c].key.role, live |-> TRUE]
            new == [x6[c] EXCEPT !.stage = "started", !.session = Len(x1) + 1]
<1>1. InRole(x6[c], x1) /\ x6[c] \in PageCall /\ x1 \in Seq(Session) /\ x6[c].stage = "starting"
  BY DEF PageNow, Page, InRole, Br!Answer
<1>2. added \in Session
  BY <1>1 DEF PageCall, Session, AnyRole
<1>3. /\ x1' = Append(x1, added) /\ x2' = Len(x1) + 1 /\ UNCHANGED <<x3, x4, x5>>
      /\ x6' = [x6 EXCEPT ![c] = new]
  BY DEF Br!Answer
<1>4. /\ x1' \in Seq(Session) /\ DOMAIN x1 \subseteq DOMAIN x1' /\ Len(x1) + 1 \in DOMAIN x1'
      /\ Len(x1) + 1 \in Nat /\ x2' \in Nat
      /\ \A s \in DOMAIN x1 : x1'[s] = x1[s]
  BY <1>1, <1>2, <1>3
<1>5. InRole(new, x1')
  BY <1>1, <1>4 DEF InRole, PageCall, PageStages
<1>6. \A d \in PageCalls : InRole(x6[d], x1')
  BY <1>4, MoreSessions DEF PageNow, Page
<1>7. x6' = [d \in PageCalls |-> IF d = c THEN new ELSE x6[d]]
  BY <1>3 DEF PageNow, Page
<1>8. \A d \in PageCalls : InRole(x6'[d], x1')
  BY <1>5, <1>6, <1>7
<1>. HIDE DEF new, added
<1>. QED
  BY <1>3, <1>4, <1>7, <1>8 DEF PageNow, Page, Paired

LEMMA EndStep ==
  ASSUME PageNow, NEW s, Br!End(s)
  PROVE  PageNow'
<1>1. x1 \in Seq(Session) /\ s \in DOMAIN x1 /\ x1' = [x1 EXCEPT ![s].live = FALSE] /\ UNCHANGED <<x2, x3, x4, x5, x6>>
  BY DEF PageNow, Page, Br!End, Br!Live
<1>2. x1[s] \in Session
  BY <1>1
<1>3. [x1[s] EXCEPT !.live = FALSE] \in Session /\ [x1[s] EXCEPT !.live = FALSE].role = x1[s].role
  BY <1>2 DEF Session
<1>4. x1' \in Seq(Session) /\ DOMAIN x1' = DOMAIN x1 /\ \A n \in DOMAIN x1 : x1'[n].role = x1[n].role
  BY <1>1, <1>3
<1>5. \A d \in PageCalls : InRole(x6[d], x1')
  BY <1>4, MoreSessions DEF PageNow, Page
<1>. QED
  BY <1>1, <1>4, <1>5 DEF PageNow, Page, Paired

\* The page remembers a session's token with that session's role.
LEMMA RememberPairs ==
  ASSUME NEW s \in DOMAIN x1, Br!Remember(s), x1 \in Seq(Session)
  PROVE  Paired(x1, x3', x4') /\ x3' \in Nat
BY DEF Br!Remember, Paired

LEMMA GoOnInRole ==
  ASSUME PageNow, NEW call, InRole(call, x1), x3' \in Nat, call.kind # "AS" \/ call.stage \notin {"joined", "started", "found"}
  PROVE  InRole(Br!GoOn(call), x1)
<1>1. CASE call.kind = "AGENT"
  <2>1. x2 \in Nat
    BY DEF PageNow, Page
  <2>. QED
    BY <1>1, <2>1 DEF InRole, PageCall, PageStages, Br!GoOn
<1>2. CASE call.kind # "AGENT"
  BY <1>2, OverInRole DEF Br!GoOn
<1>. QED
  BY <1>1, <1>2

LEMMA StartedStep ==
  ASSUME PageNow, NEW c \in PageCalls, Br!Started(c)
  PROVE  PageNow'
<1>1. InRole(x6[c], x1) /\ x6[c].session \in DOMAIN x1 /\ x1 \in Seq(Session) /\ UNCHANGED <<x1, x2>>
  BY DEF PageNow, Page, InRole, Br!Started
<1>2. Paired(x1, x3', x4') /\ x3' \in Nat
  BY <1>1, RememberPairs DEF Br!Started
<1>3. \A d \in PageCalls : d = c \/ d \in Br!Waiting(c) => InRole(Br!GoOn(x6[d]), x1)
  <2>. SUFFICES ASSUME NEW d \in PageCalls, d = c \/ d \in Br!Waiting(c) PROVE InRole(Br!GoOn(x6[d]), x1)
    OBVIOUS
  <2>1. InRole(x6[d], x1) /\ x6[d].stage \in {"joined", "started"}
    BY DEF PageNow, Page, Br!Waiting, Br!Started
  <2>2. x6[d].kind # "AS"
    BY <2>1 DEF InRole
  <2>. QED
    BY <2>1, <2>2, <1>2, GoOnInRole
<1>4. /\ x6' = [d \in PageCalls |-> IF d = c \/ d \in Br!Waiting(c) THEN Br!GoOn(x6[d]) ELSE x6[d]]
      /\ x5' = x5 \ {c}
  BY DEF Br!Started, Br!Settled
<1>5. \A d \in PageCalls : InRole(x6'[d], x1)
  BY <1>3, <1>4 DEF PageNow, Page
<1>. QED
  BY <1>1, <1>2, <1>4, <1>5 DEF PageNow, Page

LEMMA StartFailsStep ==
  ASSUME PageNow, NEW c \in PageCalls, Br!StartFails(c)
  PROVE  PageNow'
<1>1. /\ x6' = [d \in PageCalls |-> IF d = c \/ d \in Br!Waiting(c) THEN Br!Over(x6[d]) ELSE x6[d]]
      /\ x5' = x5 \ {c} /\ UNCHANGED <<x1, x2, x3, x4>>
  BY DEF Br!StartFails, Br!Settled
<1>2. \A d \in PageCalls : InRole(x6[d], x1) /\ InRole(Br!Over(x6[d]), x1)
  BY OverInRole DEF PageNow, Page
<1>3. \A d \in PageCalls : InRole(x6'[d], x1)
  BY <1>1, <1>2
<1>. QED
  BY <1>1, <1>3 DEF PageNow, Page

LEMMA LookedStep ==
  ASSUME PageNow, NEW c \in PageCalls, Br!Looked(c)
  PROVE  PageNow'
<1>1. /\ InRole(x6[c], x1) /\ x6[c] \in PageCall /\ x6[c].kind # "AS" /\ UNCHANGED <<x1, x2, x3>>
      /\ x3 \in Nat /\ x5 \subseteq PageCalls /\ Paired(x1, x3, x4)
  BY DEF PageNow, Page, InRole, Br!Looked
<1>2. CASE Br!Live(x6[c].session)
  <2>. DEFINE new == [x6[c] EXCEPT !.stage = "found"]
  <2>1. x6' = [x6 EXCEPT ![c] = new] /\ UNCHANGED <<x4, x5>>
    BY <1>2 DEF Br!Looked
  <2>2. InRole(new, x1)
    BY <1>1, <1>2 DEF InRole, PageCall, PageStages, Br!Live
  <2>. HIDE DEF new
  <2>. QED
    BY <1>1, <2>1, <2>2, OneCall
<1>3. CASE ~Br!Live(x6[c].session)
  BY <1>1, <1>3, StartingCall, StartStep DEF Br!Looked
<1>. QED
  BY <1>2, <1>3

LEMMA FoundStep ==
  ASSUME PageNow, NEW c \in PageCalls, Br!Found(c)
  PROVE  PageNow'
<1>1. /\ InRole(x6[c], x1) /\ x6[c].kind # "AS" /\ x6[c].session \in DOMAIN x1
      /\ UNCHANGED <<x1, x2, x5>> /\ x1 \in Seq(Session) /\ x5 \subseteq PageCalls
  BY DEF PageNow, Page, InRole, Br!Found
<1>2. Paired(x1, x3', x4') /\ x3' \in Nat
  BY <1>1, RememberPairs DEF Br!Found
<1>3. \/ x6' = [x6 EXCEPT ![c] = Br!GoOn(x6[c])]
      \/ x6' = [x6 EXCEPT ![c] = Br!Over(x6[c])]
  BY DEF Br!Found
<1>4. InRole(Br!GoOn(x6[c]), x1) /\ InRole(Br!Over(x6[c]), x1)
  BY <1>1, <1>2, GoOnInRole, OverInRole
<1>. QED
  BY <1>1, <1>2, <1>3, <1>4, OneCall

\* What is served is served in the role of the session of the cookie, and only when
\* that session is the token's.
LEMMA HandleStep ==
  ASSUME PageNow, NEW c \in PageCalls, Br!Handle(c)
  PROVE  PageNow'
<1>. DEFINE call == x6[c]
            got == IF call.got = "none" /\ call.token = call.session THEN x1[call.session].role ELSE call.got
            served == [call EXCEPT !.got = got]
<1>1. /\ InRole(call, x1) /\ call \in PageCall /\ call.stage = "sent" /\ UNCHANGED <<x1, x2, x5>>
      /\ x3 \in Nat /\ x5 \subseteq PageCalls /\ Paired(x1, x3, x4) /\ x1 \in Seq(Session)
  BY DEF PageNow, Page, InRole, Br!Handle
<1>2. CASE Br!Live(call.session)
  <2>1. x6' = [x6 EXCEPT ![c] = Br!Over(served)] /\ UNCHANGED <<x3, x4>>
    BY <1>2 DEF Br!Handle
  <2>2. got \in AnyRole \cup {"none"}
    <3>1. x1[call.session] \in Session
      BY <1>1, <1>2 DEF Br!Live
    <3>. QED
      BY <1>1, <3>1 DEF PageCall, Session
  <2>3. call.kind = "AS" => got \in {"none", call.key.role}
    BY <1>1 DEF InRole
  <2>4. InRole(served, x1)
    <3>. HIDE DEF got, call
    <3>. QED
      BY <1>1, <2>2, <2>3 DEF InRole, PageCall
  <2>. HIDE DEF served
  <2>. QED
    BY <1>1, <2>1, <2>4, OverInRole, OneCall
<1>3. CASE ~Br!Live(call.session) /\ call.retried
  <2>1. x6' = [x6 EXCEPT ![c] = Br!Over(call)] /\ UNCHANGED <<x3, x4>>
    BY <1>3 DEF Br!Handle
  <2>. QED
    BY <1>1, <2>1, OverInRole, OneCall
<1>4. CASE ~Br!Live(call.session) /\ ~call.retried
  <2>1. x3' = 0 /\ x3' \in Nat /\ Paired(x1, x3', x4')
    BY <1>4 DEF Br!Handle, Paired
  <2>2. CASE call.kind = "AGENT"
    <3>1. x6' = [x6 EXCEPT ![c] = [Br!Look(call) EXCEPT !.retried = TRUE]]
      BY <1>4, <2>2 DEF Br!Handle
    <3>2. InRole([Br!Look(call) EXCEPT !.retried = TRUE], x1)
      BY <2>2, LookInRole
    <3>. QED
      BY <1>1, <2>1, <3>1, <3>2, OneCall
  <2>3. CASE call.kind # "AGENT"
    <3>1. x6' = [x6 EXCEPT ![c] = Br!Over(call)]
      BY <1>4, <2>3 DEF Br!Handle
    <3>. QED
      BY <1>1, <2>1, <3>1, OverInRole, OneCall
  <2>. QED
    BY <2>2, <2>3
<1>. QED
  BY <1>2, <1>3, <1>4

LEMMA RequestFailsStep ==
  ASSUME PageNow, NEW c \in PageCalls, Br!RequestFails(c)
  PROVE  PageNow'
<1>1. x6' = [x6 EXCEPT ![c] = Br!Over(x6[c])] /\ UNCHANGED <<x1, x2, x3, x4, x5>>
  BY DEF Br!RequestFails
<1>2. InRole(Br!Over(x6[c]), x1) /\ Paired(x1, x3, x4) /\ x3 \in Nat /\ x5 \subseteq PageCalls
  BY OverInRole DEF PageNow, Page
<1>. QED
  BY <1>1, <1>2, OneCall

LEMMA InitPage ==
  ASSUME Br!Init
  PROVE  PageNow
<1>1. InRole(Br!Idle, <<>>)
  BY DEF InRole, PageCall, PageStages, AnyKey, Br!Idle
<1>2. /\ x1 = <<>> /\ x1 \in Seq(Session) /\ x2 \in Nat /\ x3 = 0 /\ x3 \in Nat /\ x5 \subseteq PageCalls
      /\ x6 = [c \in PageCalls |-> Br!Idle]
  BY DEF Br!Init
<1>. QED
  BY <1>1, <1>2 DEF PageNow, Page, Paired

LEMMA PageStep ==
  ASSUME PageNow, Br!Next \/ UNCHANGED <<x1, x2, x3, x4, x5, x6>>
  PROVE  PageNow'
<1>1. CASE UNCHANGED <<x1, x2, x3, x4, x5, x6>>
  BY <1>1 DEF PageNow
<1>2. CASE Br!Next
  BY <1>2, BeginStep, DemoApiAsStep, DemoApiStep, AnswerStep, StartedStep, StartFailsStep,
     LookedStep, FoundStep, HandleStep, RequestFailsStep, EndStep DEF Br!Next
<1>. QED
  BY <1>1, <1>2

\* The browser: a command sent for a privileged role is served by a session of that
\* role or not at all, for every number of calls, keys and sessions.
THEOREM CommandsKeepTheirRole == HubSpec => []ActsInItsRole
<1>. DEFINE Inv == moving = "browser" => PageNow
<1>1. HubInit => Inv
  BY InitPage DEF HubInit
<1>2. Inv /\ [HubNext]_hubVars => Inv'
  <2>. SUFFICES ASSUME Inv, [HubNext]_hubVars, moving' = "browser" PROVE PageNow'
    OBVIOUS
  <2>1. PageNow /\ (Br!Next \/ UNCHANGED <<x1, x2, x3, x4, x5, x6>>)
    BY DEF HubNext, hubVars
  <2>. QED
    BY <2>1, PageStep
<1>3. Inv => ActsInItsRole
  BY DEF ActsInItsRole, Br!ActsInItsRole, PageNow, Page, InRole
<1>. QED
  BY <1>1, <1>2, <1>3, PTL DEF HubSpec

-----------------------------------------------------------------------------
\* The ledger with its receiver.
LEMMA InitLedger == HubInit => (moving = "ledger" => Tr!TInv)
BY HubAssumption, Tr!InitTInv DEF HubInit

LEMMA LedgerStep ==
  ASSUME moving = "ledger" => Tr!TInv, [HubNext]_hubVars
  PROVE  (moving = "ledger" => Tr!TInv)'
<1>. SUFFICES ASSUME moving' = "ledger" PROVE Tr!TInv'
  OBVIOUS
<1>1. Tr!TInv /\ (Tr!NextTransport \/ UNCHANGED hubVars)
  BY DEF HubNext, hubVars
<1>2. [Tr!NextTransport]_<<Tr!ledgerVars, Tr!receiverVars>>
  BY <1>1 DEF hubVars, Tr!ledgerVars, Tr!receiverVars
<1>. QED
  BY <1>1, <1>2, Tr!NextTInv

\* Receipts: a receipt says what the ledger says, numbers are posted in turn until a
\* save has failed, and no event is receipted again.
THEOREM ReceiptsHold == HubSpec => []ReceiptsHaveResults
<1>. DEFINE Inv == moving = "ledger" => Tr!TInv
<1>1. Inv /\ [HubNext]_hubVars => Inv'
  BY LedgerStep
<1>2. Inv => ReceiptsHaveResults
  BY Tr!TransportHolds DEF ReceiptsHaveResults
<1>. QED
  BY <1>1, <1>2, InitLedger, PTL DEF HubSpec

\* The ledger: what a caller was told of is on file until a save has failed.
THEOREM TellingIsDurable == HubSpec => []ToldIsDurable
<1>. DEFINE Inv == moving = "ledger" => Tr!TInv
<1>1. Inv /\ [HubNext]_hubVars => Inv'
  BY LedgerStep
<1>2. Inv => ToldIsDurable
  BY Tr!TransportHolds DEF ToldIsDurable
<1>. QED
  BY <1>1, <1>2, InitLedger, PTL DEF HubSpec

\* The ledger: the balances are those of the accepted results, and a transaction has one.
THEOREM BalancesAreExplained == HubSpec => []BalanceIsExplained
<1>. DEFINE Inv == moving = "ledger" => Tr!TInv
<1>1. Inv /\ [HubNext]_hubVars => Inv'
  BY LedgerStep
<1>2. Inv => BalanceIsExplained
  BY Tr!LedgerAccounted DEF BalanceIsExplained, Tr!TInv
<1>. QED
  BY <1>1, <1>2, InitLedger, PTL DEF HubSpec

-----------------------------------------------------------------------------
\* The gateway and the reconciliation beside it: their proofs are about this part as
\* it stands.
LEMMA GatewayBounds == Re!PaymentGatewayAssumption /\ Ro!PaymentGatewayAssumption
BY HubAssumption DEF Re!PaymentGatewayAssumption, Ro!PaymentGatewayAssumption

LEMMA InitStatuses == HubInit => (moving = "statuses" => Re!RInv)
BY Re!InitRInv, GatewayBounds DEF HubInit

LEMMA StatusesStep ==
  ASSUME moving = "statuses" => Re!RInv, [HubNext]_hubVars
  PROVE  /\ (moving = "statuses" => Re!RInv)'
         /\ [moving = "statuses" => Re!TerminalKept]_hubVars
<1>. SUFFICES ASSUME moving = "statuses", moving' = "statuses"
              PROVE  Re!RInv' /\ [Re!TerminalKept]_hubVars
  BY DEF HubNext, hubVars
<1>1. Re!RInv /\ (Re!NextReconciliation \/ UNCHANGED <<x1, x2, x3, x4, x5, x6, x7, x8, x9, x10>>)
  BY DEF HubNext, hubVars
<1>2. [Re!NextReconciliation]_(Re!allVars)
  BY <1>1 DEF Re!allVars, Re!vars, Re!statusVars
<1>3. Re!RInv'
  BY <1>1, <1>2, Re!NextRInv, GatewayBounds
<1>4. HubNext => Re!TerminalKept
  BY <1>1, Re!KeepsTerminal, GatewayBounds DEF HubNext
<1>. QED
  BY <1>3, <1>4

\* Statuses: what the service records as terminal is what the provider concluded,
\* whatever queries, faults and restarts there are.
THEOREM StatusesAreTrue == HubSpec => []TerminalIsTrue
<1>. DEFINE Inv == moving = "statuses" => Re!RInv
<1>1. Inv /\ [HubNext]_hubVars => Inv'
  BY StatusesStep
<1>2. Inv => TerminalIsTrue
  BY DEF TerminalIsTrue, Re!RInv
<1>. QED
  BY <1>1, <1>2, InitStatuses, PTL DEF HubSpec

\* A terminal status that is saved, with no query of its transaction under way, never
\* changes.
THEOREM StatusesStick == HubSpec => StickyOnceQuiet
<1>. DEFINE Inv == moving = "statuses" => Re!RInv
<1>1. Inv /\ [HubNext]_hubVars => Inv' /\ [moving = "statuses" => Re!TerminalKept]_hubVars
  BY StatusesStep
<1>. QED
  BY <1>1, InitStatuses, PTL DEF HubSpec, StickyOnceQuiet

\* Routes: the audit file and the gateway's never contradict each other, and what
\* reached the provider is announced.
THEOREM RoutesAreAudited == HubSpec => []AuditAgreesWithGateway
<1>. DEFINE Inv == moving = "routes" => Ro!AInv /\ Ro!OnlyEvents
<1>1. HubInit => Inv
  BY HubAssumption, Ro!InitAInv, GatewayBounds DEF HubInit, Ro!InitRoutes, Ro!OnlyEvents
<1>2. Inv /\ [HubNext]_hubVars => Inv'
  <2>. SUFFICES ASSUME Inv, [HubNext]_hubVars, moving' = "routes" PROVE Ro!AInv' /\ Ro!OnlyEvents'
    OBVIOUS
  <2>1. Ro!AInv /\ Ro!OnlyEvents /\ (Ro!NextRoutes \/ UNCHANGED hubVars)
    BY DEF HubNext, hubVars
  <2>2. [Ro!NextRoutes]_(Ro!routedVars)
    BY <2>1 DEF hubVars, Ro!routedVars, Ro!routeVars, Ro!allVars, Ro!vars, Ro!statusVars
  <2>. QED
    BY <2>1, <2>2, Ro!NextAInv, Ro!NextOnlyEvents, GatewayBounds
<1>3. Inv => AuditAgreesWithGateway
  BY Ro!AuditAgrees, GatewayBounds DEF AuditAgreesWithGateway
<1>. QED
  BY <1>1, <1>2, <1>3, PTL DEF HubSpec
-----------------------------------------------------------------------------
\* SnapshotShadow.  A row has one revision at a time and, until a rollback removes it,
\* its revisions go up: what a job loaded is the row as it is now or has been left
\* behind by it.
SnapshotRow == [revision : Nat, payload : Nat, kind : {Sn!FileKind, Sn!PostgresKind}]
SnapshotStages == {"idle", "discovering", "planning", "loading", "writing", "appending", "verifying"}
SnapshotJob ==
  [operation : Sn!Operations \cup {"none"}, stage : SnapshotStages, todo : SUBSET Sn!Stores,
   seen : [Sn!Stores -> Nat], loaded : [Sn!Stores -> SUBSET SnapshotRow], audit : SUBSET Nat]

Single(rows) == \A q, r \in rows : q = r
LeftBehind(loaded, rows) ==
  /\ Single(loaded)
  /\ loaded # {} => rows # {}
  /\ \A r \in loaded, q \in rows : r.revision <= q.revision /\ (r.revision = q.revision => r = q)

Snapshots(file, events, row, job, removed) ==
  /\ file \in [Sn!Stores -> Nat] /\ events \in Nat
  /\ row \in [Sn!Stores -> SUBSET SnapshotRow]
  /\ job \in [SnapshotWorkers -> SnapshotJob]
  /\ \A s \in Sn!Stores \ removed :
       Single(row[s]) /\ \A j \in SnapshotWorkers : LeftBehind(job[j].loaded[s], row[s])

SnapshotsNow == Snapshots(x1, x2, x3, x5, x6)

\* A job goes on without a row being written: it has loaded nothing new, or a row as
\* it is.
LEMMA JobStep ==
  ASSUME SnapshotsNow, NEW j \in SnapshotWorkers, NEW next \in SnapshotJob, x5' = [x5 EXCEPT ![j] = next],
         UNCHANGED <<x1, x2, x3, x6>>,
         \A s \in Sn!Stores : next.loaded[s] \in {{}, x5[j].loaded[s], x3[s]}
  PROVE  SnapshotsNow'
<1>1. x5' \in [SnapshotWorkers -> SnapshotJob]
  BY DEF SnapshotsNow, Snapshots
<1>2. ASSUME NEW s \in Sn!Stores \ x6, NEW i \in SnapshotWorkers PROVE LeftBehind(x5'[i].loaded[s], x3[s])
  <2>1. LeftBehind(x5[i].loaded[s], x3[s]) /\ Single(x3[s])
    BY DEF SnapshotsNow, Snapshots
  <2>2. LeftBehind({}, x3[s])
    BY DEF LeftBehind, Single
  <2>3. LeftBehind(x3[s], x3[s])
    <3>1. x3[s] \subseteq SnapshotRow
      BY DEF SnapshotsNow, Snapshots
    <3>. QED
      BY <2>1, <3>1 DEF LeftBehind, Single, SnapshotRow
  <2>4. x5'[i] = IF i = j THEN next ELSE x5[i]
    BY DEF SnapshotsNow, Snapshots
  <2>. QED
    BY <2>1, <2>2, <2>3, <2>4
<1>. QED
  BY <1>1, <1>2 DEF SnapshotsNow, Snapshots

\* A row is written above the one that is there.
LEMMA RowStep ==
  ASSUME SnapshotsNow, NEW s \in Sn!Stores, NEW new \in SnapshotRow, x3' = [x3 EXCEPT ![s] = {new}],
         s \notin x6 => \A q \in x3[s] : q.revision < new.revision,
         UNCHANGED <<x1, x2, x6>>, x5' \in [SnapshotWorkers -> SnapshotJob],
         \A j \in SnapshotWorkers : x5'[j].loaded = x5[j].loaded
  PROVE  SnapshotsNow'
<1>1. x3' \in [Sn!Stores -> SUBSET SnapshotRow]
  BY DEF SnapshotsNow, Snapshots
<1>2. ASSUME NEW t \in Sn!Stores \ x6 PROVE Single(x3'[t])
  <2>1. x3'[t] = x3[t] \/ x3'[t] = {new}
    BY DEF SnapshotsNow, Snapshots
  <2>. QED
    BY <2>1 DEF SnapshotsNow, Snapshots, Single
<1>3. ASSUME NEW t \in Sn!Stores \ x6, NEW j \in SnapshotWorkers PROVE LeftBehind(x5[j].loaded[t], x3'[t])
  <2>1. LeftBehind(x5[j].loaded[t], x3[t]) /\ Single(x3[t]) /\ x5[j] \in SnapshotJob
    BY DEF SnapshotsNow, Snapshots
  <2>2. CASE t # s
    BY <2>1, <2>2 DEF SnapshotsNow, Snapshots
  <2>3. CASE t = s
    <3>1. x3'[t] = {new}
      BY <2>3 DEF SnapshotsNow, Snapshots
    <3>2. x5[j].loaded[t] \subseteq SnapshotRow /\ x3[t] \subseteq SnapshotRow
      BY <2>1 DEF SnapshotJob, SnapshotsNow, Snapshots
    <3>3. ASSUME NEW r \in x5[j].loaded[t] PROVE r.revision < new.revision
      <4>1. PICK q \in x3[t] : r.revision <= q.revision
        BY <2>1 DEF LeftBehind
      <4>2. r.revision \in Nat /\ q.revision \in Nat /\ new.revision \in Nat
        BY <3>2, <4>1 DEF SnapshotRow
      <4>. QED
        BY <2>3, <4>1, <4>2
    <3>4. new.revision \in Nat /\ \A r \in x5[j].loaded[t] : r.revision \in Nat
      BY <3>2 DEF SnapshotRow
    <3>. QED
      BY <2>1, <3>1, <3>3, <3>4 DEF LeftBehind
  <2>. QED
    BY <2>2, <2>3
<1>4. \A t \in Sn!Stores \ x6 : Single(x3'[t]) /\ \A j \in SnapshotWorkers : LeftBehind(x5'[j].loaded[t], x3'[t])
  BY <1>2, <1>3
<1>. QED
  BY <1>1, <1>4 DEF SnapshotsNow, Snapshots

\* What a job may load, see or pass over keeps its type.
LEMMA JobTypes ==
  ASSUME SnapshotsNow, NEW j \in SnapshotWorkers
  PROVE  /\ x5[j] \in SnapshotJob /\ Sn!Present(j) \subseteq Sn!Stores
         /\ x5[j].loaded \in [Sn!Stores -> SUBSET SnapshotRow]
         /\ \A s : Sn!Done(j, s) \in SnapshotJob /\ Sn!Done(j, s).loaded = x5[j].loaded
<1>1. x5[j] \in SnapshotJob
  BY DEF SnapshotsNow, Snapshots
<1>. QED
  BY <1>1 DEF Sn!Present, Sn!Done, SnapshotJob

LEMMA ReadFileStep ==
  ASSUME SnapshotsNow, NEW j \in SnapshotWorkers, Sn!ReadFile(j)
  PROVE  SnapshotsNow'
<1>. DEFINE s == Sn!First(x5[j].todo)
            done == Sn!Done(j, s)
            next == [done EXCEPT !.seen[s] = x1[s]]
<1>1. x5' = [x5 EXCEPT ![j] = next] /\ UNCHANGED <<x1, x2, x3, x6>>
  BY DEF Sn!ReadFile, Sn!To
<1>2. done \in SnapshotJob /\ done.loaded = x5[j].loaded
  BY JobTypes
<1>3. x1 \in [Sn!Stores -> Nat]
  BY DEF SnapshotsNow, Snapshots
<1>. HIDE DEF done, s
<1>4. next \in SnapshotJob /\ next.loaded = done.loaded
  BY <1>2, <1>3 DEF SnapshotJob
<1>. HIDE DEF next
<1>. QED
  BY <1>1, <1>2, <1>4, JobStep

\* Loading a row as it is.
LEMMA LoadedRow ==
  ASSUME SnapshotsNow, NEW j \in SnapshotWorkers, NEW s, NEW job \in SnapshotJob, job.loaded = x5[j].loaded,
         NEW stage \in SnapshotStages
  PROVE  LET next == [job EXCEPT !.stage = stage, !.loaded[s] = x3[s]]
         IN  /\ next \in SnapshotJob
             /\ \A t \in Sn!Stores : next.loaded[t] \in {x5[j].loaded[t], x3[t]}
<1>1. x3 \in [Sn!Stores -> SUBSET SnapshotRow]
  BY DEF SnapshotsNow, Snapshots
<1>. QED
  BY <1>1 DEF SnapshotJob

LEMMA PlanStep ==
  ASSUME SnapshotsNow, NEW j \in SnapshotWorkers, Sn!Plan(j)
  PROVE  SnapshotsNow'
<1>. DEFINE s == Sn!First(x5[j].todo)
            done == Sn!Done(j, s)
            next == [done EXCEPT !.loaded[s] = x3[s]]
<1>1. x5' = [x5 EXCEPT ![j] = next] /\ UNCHANGED <<x1, x2, x3, x6>>
  BY DEF Sn!Plan, Sn!To
<1>2. done \in SnapshotJob /\ done.loaded = x5[j].loaded
  BY JobTypes
<1>3. x3 \in [Sn!Stores -> SUBSET SnapshotRow]
  BY DEF SnapshotsNow, Snapshots
<1>. HIDE DEF done, s
<1>4. next \in SnapshotJob /\ \A t \in Sn!Stores : next.loaded[t] \in {x5[j].loaded[t], x3[t]}
  BY <1>2, <1>3 DEF SnapshotJob
<1>. HIDE DEF next
<1>5. \A t \in Sn!Stores : next.loaded[t] \in {{}, x5[j].loaded[t], x3[t]}
  BY <1>4
<1>. QED
  BY <1>1, <1>4, <1>5, JobStep

LEMMA LoadStep ==
  ASSUME SnapshotsNow, NEW j \in SnapshotWorkers, Sn!Load(j)
  PROVE  SnapshotsNow'
<1>. DEFINE s == Sn!First(x5[j].todo)
            next == [x5[j] EXCEPT !.stage = "writing", !.loaded[s] = x3[s]]
<1>1. x5' = [x5 EXCEPT ![j] = next] /\ UNCHANGED <<x1, x2, x3, x6>>
  BY DEF Sn!Load, Sn!To
<1>2. x5[j] \in SnapshotJob /\ "writing" \in SnapshotStages
  BY JobTypes DEF SnapshotStages
<1>. HIDE DEF s
<1>3. next \in SnapshotJob /\ \A t \in Sn!Stores : next.loaded[t] \in {x5[j].loaded[t], x3[t]}
  BY <1>2, LoadedRow
<1>. HIDE DEF next
<1>5. \A t \in Sn!Stores : next.loaded[t] \in {{}, x5[j].loaded[t], x3[t]}
  BY <1>3
<1>. QED
  BY <1>1, <1>3, <1>5, JobStep

\* A write passes over a row that says what it would write, or is one above the row
\* that it has loaded.
LEMMA WriteStep ==
  ASSUME SnapshotsNow, NEW j \in SnapshotWorkers, Sn!Write(j)
  PROVE  SnapshotsNow' /\ \A s \in Sn!Stores \ x6 : x3'[s] # x3[s] => x3[s] = x5[j].loaded[s]
<1>. DEFINE s == Sn!First(x5[j].todo)
            done == Sn!Done(j, s)
            next == [done EXCEPT !.stage = Sn!Onward(j)]
<1>1. x5' = [x5 EXCEPT ![j] = next] /\ UNCHANGED <<x1, x2, x6>>
  BY DEF Sn!Write, Sn!To
<1>2. done \in SnapshotJob /\ done.loaded = x5[j].loaded /\ x5[j] \in SnapshotJob
  BY JobTypes
<1>3. \/ x3' = x3
      \/ Sn!CompareAndSwap(s, x5[j].loaded[s], x5[j].seen[s])
  BY DEF Sn!Write
<1>4. Sn!Onward(j) \in SnapshotStages
  BY DEF Sn!Onward, SnapshotStages
<1>. HIDE DEF done, s
<1>5. next \in SnapshotJob /\ next.loaded = x5[j].loaded
  BY <1>2, <1>4 DEF SnapshotJob
<1>. HIDE DEF next
<1>6. CASE x3' = x3
  BY <1>1, <1>5, <1>6, JobStep
<1>7. CASE Sn!CompareAndSwap(s, x5[j].loaded[s], x5[j].seen[s])
  <2>1. x3 \in [Sn!Stores -> SUBSET SnapshotRow]
    BY DEF SnapshotsNow, Snapshots
  <2>2. CASE s \notin Sn!Stores
    <3>1. x3' = x3
      BY <1>7, <2>1, <2>2 DEF Sn!CompareAndSwap
    <3>. QED
      BY <1>6, <3>1
  <2>3. CASE s \in Sn!Stores
    <3>1. x5[j].seen[s] \in Nat /\ x5[j].loaded[s] \subseteq SnapshotRow /\ x3[s] \subseteq SnapshotRow
      BY <1>2, <2>1, <2>3 DEF SnapshotJob
    <3>2. s \notin x6 => Single(x3[s]) /\ LeftBehind(x5[j].loaded[s], x3[s])
      BY <2>3 DEF SnapshotsNow, Snapshots
    <3>3. PICK new \in SnapshotRow :
            /\ x3' = [x3 EXCEPT ![s] = {new}]
            /\ s \notin x6 => x3[s] = x5[j].loaded[s] /\ \A q \in x3[s] : q.revision < new.revision
      <4>1. CASE x5[j].loaded[s] = {} /\ x3[s] = {} /\ x3' = [x3 EXCEPT ![s] = {Sn!Row(1, x5[j].seen[s], Sn!FileKind)}]
        <5>1. Sn!Row(1, x5[j].seen[s], Sn!FileKind) \in SnapshotRow
          BY <3>1 DEF Sn!Row, SnapshotRow
        <5>. QED
          BY <4>1, <5>1
      <4>2. ASSUME NEW r \in x5[j].loaded[s], NEW now \in x3[s], now.revision = r.revision,
                   x3' = [x3 EXCEPT ![s] = {Sn!Row(r.revision + 1, x5[j].seen[s], Sn!FileKind)}]
            PROVE  \E new \in SnapshotRow :
                     /\ x3' = [x3 EXCEPT ![s] = {new}]
                     /\ s \notin x6 => x3[s] = x5[j].loaded[s] /\ \A q \in x3[s] : q.revision < new.revision
        <5>. DEFINE new == Sn!Row(r.revision + 1, x5[j].seen[s], Sn!FileKind)
        <5>1. r.revision \in Nat /\ r.revision + 1 \in Nat /\ r.revision < r.revision + 1
          BY <3>1 DEF SnapshotRow
        <5>2. new \in SnapshotRow /\ new.revision = r.revision + 1
          BY <3>1, <5>1 DEF Sn!Row, SnapshotRow
        <5>3. s \notin x6 => r = now /\ x5[j].loaded[s] = {r} /\ x3[s] = {now}
          BY <3>2, <4>2 DEF LeftBehind, Single
        <5>. HIDE DEF new
        <5>4. s \notin x6 => x3[s] = x5[j].loaded[s] /\ \A q \in x3[s] : q.revision < new.revision
          BY <5>1, <5>2, <5>3
        <5>5. x3' = [x3 EXCEPT ![s] = {new}]
          BY <4>2 DEF new
        <5>. QED
          BY <5>2, <5>4, <5>5
      <4>. QED
        BY <1>7, <4>1, <4>2 DEF Sn!CompareAndSwap
    <3>4. x5' \in [SnapshotWorkers -> SnapshotJob] /\ \A i \in SnapshotWorkers : x5'[i].loaded = x5[i].loaded
      BY <1>1, <1>5 DEF SnapshotsNow, Snapshots
    <3>5. SnapshotsNow'
      BY <1>1, <2>3, <3>3, <3>4, RowStep
    <3>. QED
      BY <2>1, <3>3, <3>5
  <2>. QED
    BY <2>2, <2>3
<1>. QED
  BY <1>3, <1>6, <1>7

LEMMA RemoveStep ==
  ASSUME SnapshotsNow, NEW j \in SnapshotWorkers, Sn!Remove(j)
  PROVE  SnapshotsNow' /\ \A s \in Sn!Stores \ x6 : x3'[s] # x3[s] => x3[s] = x5[j].loaded[s]
<1>. DEFINE s == Sn!First(x5[j].todo)
            done == Sn!Done(j, s)
            next == [done EXCEPT !.stage = "loading"]
            gone == {now \in x3[s] : now.kind = Sn!FileKind /\ \E r \in x5[j].loaded[s] : r.revision = now.revision}
<1>1. /\ x5' = [x5 EXCEPT ![j] = next] /\ UNCHANGED <<x1, x2>>
      /\ x3' = [x3 EXCEPT ![s] = x3[s] \ gone]
      /\ x6' = IF gone = {} THEN x6 ELSE x6 \cup {s}
  BY DEF Sn!Remove, Sn!To
<1>2. done \in SnapshotJob /\ done.loaded = x5[j].loaded
  BY JobTypes
<1>3. x3 \in [Sn!Stores -> SUBSET SnapshotRow]
  BY DEF SnapshotsNow, Snapshots
<1>. HIDE DEF done, s
<1>4. next \in SnapshotJob /\ next.loaded = x5[j].loaded
  BY <1>2 DEF SnapshotJob, SnapshotStages
<1>. HIDE DEF next
<1>5. CASE gone = {} \/ s \notin Sn!Stores
  <2>1. x3' = x3 /\ x6 \subseteq x6'
    BY <1>1, <1>3, <1>5
  <2>2. SnapshotsNow'
    <3>1. CASE gone = {}
      BY <1>1, <1>4, <2>1, <3>1, JobStep
    <3>2. CASE s \notin Sn!Stores
      <4>1. x5' \in [SnapshotWorkers -> SnapshotJob] /\ \A i \in SnapshotWorkers : x5'[i].loaded = x5[i].loaded
        BY <1>1, <1>4 DEF SnapshotsNow, Snapshots
      <4>. HIDE DEF gone
      <4>. QED
        BY <1>1, <2>1, <4>1 DEF SnapshotsNow, Snapshots
    <3>. QED
      BY <1>5, <3>1, <3>2
  <2>. QED
    BY <2>1, <2>2
<1>6. CASE gone # {} /\ s \in Sn!Stores
  <2>1. x5' \in [SnapshotWorkers -> SnapshotJob] /\ \A i \in SnapshotWorkers : x5'[i].loaded = x5[i].loaded
    BY <1>1, <1>4 DEF SnapshotsNow, Snapshots
  <2>2. x3' \in [Sn!Stores -> SUBSET SnapshotRow] /\ \A t \in Sn!Stores : t # s => x3'[t] = x3[t]
    BY <1>1, <1>3
  <2>3. x6' = x6 \cup {s}
    BY <1>1, <1>6
  <2>4. SnapshotsNow'
    <3>. HIDE DEF gone
    <3>. QED
      BY <1>1, <2>1, <2>2, <2>3 DEF SnapshotsNow, Snapshots
  <2>5. s \notin x6 => x3[s] = x5[j].loaded[s]
    <3>1. PICK now \in x3[s] : \E r \in x5[j].loaded[s] : r.revision = now.revision
      BY <1>6
    <3>2. PICK r \in x5[j].loaded[s] : r.revision = now.revision
      BY <3>1
    <3>3. s \notin x6 => Single(x3[s]) /\ LeftBehind(x5[j].loaded[s], x3[s])
      BY <1>6 DEF SnapshotsNow, Snapshots
    <3>4. s \notin x6 => r = now /\ x5[j].loaded[s] = {r} /\ x3[s] = {now}
      BY <3>2, <3>3 DEF LeftBehind, Single
    <3>. QED
      BY <3>4
  <2>. QED
    BY <2>2, <2>4, <2>5
<1>. QED
  BY <1>5, <1>6

\* The steps that neither load nor write.
LEMMA QuietJobStep ==
  ASSUME SnapshotsNow, NEW j \in SnapshotWorkers,
         \/ \E operation \in Sn!Operations : Sn!Begin(j, operation)
         \/ Sn!ReadAudit(j) \/ Sn!Planned(j) \/ Sn!Written(j) \/ Sn!Append(j) \/ Sn!Appended(j)
         \/ Sn!Verify(j) \/ Sn!Throw(j)
  PROVE  SnapshotsNow' /\ x3' = x3
<1>1. /\ x5[j] \in SnapshotJob /\ Sn!Present(j) \subseteq Sn!Stores
      /\ \A s : Sn!Done(j, s) \in SnapshotJob /\ Sn!Done(j, s).loaded = x5[j].loaded
  BY JobTypes
<1>2. Sn!Idle \in SnapshotJob /\ \A s \in Sn!Stores : Sn!Idle.loaded[s] = {}
  BY DEF SnapshotJob, SnapshotStages, Sn!Idle, Sn!NothingSeen, Sn!NothingLoaded
<1>3. UNCHANGED <<x1, x2, x3, x6>>
  BY DEF Sn!Begin, Sn!ReadAudit, Sn!Planned, Sn!Written, Sn!Append, Sn!Appended, Sn!Verify, Sn!Throw
<1>4. PICK next \in SnapshotJob :
        x5' = [x5 EXCEPT ![j] = next] /\ \A s \in Sn!Stores : next.loaded[s] \in {{}, x5[j].loaded[s]}
  <2>1. ASSUME NEW operation \in Sn!Operations, Sn!Begin(j, operation)
        PROVE  \E next \in SnapshotJob :
                 x5' = [x5 EXCEPT ![j] = next] /\ \A s \in Sn!Stores : next.loaded[s] \in {{}, x5[j].loaded[s]}
    <3>. DEFINE next == [Sn!Idle EXCEPT !.operation = operation, !.stage = "discovering", !.todo = Sn!Stores]
    <3>1. x5' = [x5 EXCEPT ![j] = next]
      BY <2>1 DEF Sn!Begin, Sn!To
    <3>2. next \in SnapshotJob /\ next.loaded = Sn!Idle.loaded
      BY <1>2 DEF SnapshotJob, SnapshotStages
    <3>. HIDE DEF next
    <3>. QED
      BY <1>2, <3>1, <3>2
  <2>2. CASE Sn!ReadAudit(j)
    <3>. DEFINE stage == IF x5[j].operation = "sync" THEN "planning" ELSE "loading"
                next == [x5[j] EXCEPT !.stage = stage, !.todo = Sn!Present(j), !.audit = Sn!AuditFile]
    <3>1. x5' = [x5 EXCEPT ![j] = next]
      BY <2>2 DEF Sn!ReadAudit, Sn!To
    <3>2. Sn!AuditFile \subseteq Nat /\ stage \in SnapshotStages
      BY DEF SnapshotsNow, Snapshots, Sn!AuditFile, SnapshotStages
    <3>. HIDE DEF stage
    <3>3. next \in SnapshotJob /\ next.loaded = x5[j].loaded
      BY <1>1, <3>2 DEF SnapshotJob
    <3>. HIDE DEF next
    <3>. QED
      BY <3>1, <3>3
  <2>3. CASE Sn!Planned(j)
    <3>. DEFINE next == [x5[j] EXCEPT !.stage = "writing", !.todo = Sn!Present(j)]
    <3>1. x5' = [x5 EXCEPT ![j] = next]
      BY <2>3 DEF Sn!Planned, Sn!To
    <3>2. next \in SnapshotJob /\ next.loaded = x5[j].loaded
      BY <1>1 DEF SnapshotJob, SnapshotStages
    <3>. HIDE DEF next
    <3>. QED
      BY <3>1, <3>2
  <2>4. CASE Sn!Written(j)
    <3>. DEFINE next == IF x5[j].operation = "rollback" THEN Sn!Idle ELSE [x5[j] EXCEPT !.stage = "appending"]
    <3>1. x5' = [x5 EXCEPT ![j] = next]
      BY <2>4 DEF Sn!Written, Sn!To
    <3>2. [x5[j] EXCEPT !.stage = "appending"] \in SnapshotJob /\ [x5[j] EXCEPT !.stage = "appending"].loaded = x5[j].loaded
      BY <1>1 DEF SnapshotJob, SnapshotStages
    <3>3. next \in SnapshotJob /\ \A s \in Sn!Stores : next.loaded[s] \in {{}, x5[j].loaded[s]}
      BY <1>2, <3>2
    <3>. QED
      BY <3>1, <3>3
  <2>5. CASE Sn!Append(j)
    <3>1. PICK e \in x5[j].audit : x5' = [x5 EXCEPT ![j] = [x5[j] EXCEPT !.audit = x5[j].audit \ {e}]]
      BY <2>5 DEF Sn!Append, Sn!To
    <3>. DEFINE next == [x5[j] EXCEPT !.audit = x5[j].audit \ {e}]
    <3>2. next \in SnapshotJob /\ next.loaded = x5[j].loaded
      BY <1>1 DEF SnapshotJob
    <3>3. x5' = [x5 EXCEPT ![j] = next]
      BY <3>1
    <3>. HIDE DEF next
    <3>. QED
      BY <3>2, <3>3
  <2>6. CASE Sn!Appended(j)
    <3>. DEFINE more == [x5[j] EXCEPT !.stage = "verifying", !.todo = Sn!Present(j)]
                next == IF x5[j].operation = "import" THEN Sn!Idle ELSE more
    <3>1. x5' = [x5 EXCEPT ![j] = next]
      BY <2>6 DEF Sn!Appended, Sn!To
    <3>2. more \in SnapshotJob /\ more.loaded = x5[j].loaded
      BY <1>1 DEF SnapshotJob, SnapshotStages
    <3>. HIDE DEF more
    <3>3. next \in SnapshotJob /\ \A s \in Sn!Stores : next.loaded[s] \in {{}, x5[j].loaded[s]}
      BY <1>2, <3>2
    <3>. QED
      BY <3>1, <3>3
  <2>7. CASE Sn!Verify(j)
    <3>1. x5' = [x5 EXCEPT ![j] = Sn!Idle] \/ x5' = [x5 EXCEPT ![j] = Sn!Done(j, Sn!First(x5[j].todo))]
      BY <2>7 DEF Sn!Verify, Sn!To
    <3>2. \A s \in Sn!Stores : Sn!Idle.loaded[s] \in {{}, x5[j].loaded[s]}
      BY <1>2
    <3>. QED
      BY <1>1, <1>2, <3>1, <3>2
  <2>8. CASE Sn!Throw(j)
    <3>1. \A s \in Sn!Stores : Sn!Idle.loaded[s] \in {{}, x5[j].loaded[s]}
      BY <1>2
    <3>. QED
      BY <1>2, <2>8, <3>1 DEF Sn!Throw, Sn!To
  <2>. QED
    BY <2>1, <2>2, <2>3, <2>4, <2>5, <2>6, <2>7, <2>8
<1>5. \A s \in Sn!Stores : next.loaded[s] \in {{}, x5[j].loaded[s], x3[s]}
  BY <1>4
<1>. QED
  BY <1>3, <1>4, <1>5, JobStep

\* The server and PostgreSQL itself: no job changes.
LEMMA OthersStep ==
  ASSUME SnapshotsNow, \/ \E s \in Sn!Stores : Sn!SaveFile(s) \/ Sn!PostgresWrites(s)
                       \/ Sn!RecordEvent
  PROVE  SnapshotsNow' /\ x5' = x5
<1>1. ASSUME NEW s \in Sn!Stores, Sn!SaveFile(s) PROVE SnapshotsNow' /\ x5' = x5
  BY <1>1 DEF SnapshotsNow, Snapshots, Sn!SaveFile
<1>2. CASE Sn!RecordEvent
  BY <1>2 DEF SnapshotsNow, Snapshots, Sn!RecordEvent
<1>3. ASSUME NEW s \in Sn!Stores, Sn!PostgresWrites(s) PROVE SnapshotsNow' /\ x5' = x5
  <2>1. x3[s] \subseteq SnapshotRow /\ (s \notin x6 => Single(x3[s]))
    BY DEF SnapshotsNow, Snapshots
  <2>2. PICK new \in SnapshotRow :
          x3' = [x3 EXCEPT ![s] = {new}] /\ (s \notin x6 => \A q \in x3[s] : q.revision < new.revision)
    <3>1. CASE x3[s] = {} /\ x3' = [x3 EXCEPT ![s] = {Sn!Row(1, 0, Sn!PostgresKind)}]
      <4>1. Sn!Row(1, 0, Sn!PostgresKind) \in SnapshotRow
        BY DEF Sn!Row, SnapshotRow
      <4>. QED
        BY <3>1, <4>1
    <3>2. ASSUME NEW r \in x3[s], x3' = [x3 EXCEPT ![s] = {Sn!Row(r.revision + 1, 0, Sn!PostgresKind)}]
          PROVE  \E new \in SnapshotRow :
                   x3' = [x3 EXCEPT ![s] = {new}] /\ (s \notin x6 => \A q \in x3[s] : q.revision < new.revision)
      <4>. DEFINE new == Sn!Row(r.revision + 1, 0, Sn!PostgresKind)
      <4>1. r.revision \in Nat /\ r.revision + 1 \in Nat /\ r.revision < r.revision + 1
        BY <2>1 DEF SnapshotRow
      <4>2. new \in SnapshotRow /\ new.revision = r.revision + 1
        BY <4>1 DEF Sn!Row, SnapshotRow
      <4>3. s \notin x6 => x3[s] = {r}
        BY <2>1, <3>2 DEF Single
      <4>4. x3' = [x3 EXCEPT ![s] = {new}]
        BY <3>2
      <4>. HIDE DEF new
      <4>. QED
        BY <4>1, <4>2, <4>3, <4>4
    <3>. QED
      BY <1>3, <3>1, <3>2 DEF Sn!PostgresWrites
  <2>3. UNCHANGED <<x1, x2, x5, x6>>
    BY <1>3 DEF Sn!PostgresWrites
  <2>4. x5' \in [SnapshotWorkers -> SnapshotJob] /\ \A j \in SnapshotWorkers : x5'[j].loaded = x5[j].loaded
    BY <2>3 DEF SnapshotsNow, Snapshots
  <2>. QED
    BY <2>2, <2>3, <2>4, RowStep
<1>. QED
  BY <1>1, <1>2, <1>3

LEMMA SnapshotsStep ==
  ASSUME SnapshotsNow, Sn!Next
  PROVE  SnapshotsNow' /\ Sn!ReplacesLoaded
<1>1. CASE (\E s \in Sn!Stores : Sn!SaveFile(s) \/ Sn!PostgresWrites(s)) \/ Sn!RecordEvent
  BY <1>1, OthersStep DEF Sn!ReplacesLoaded
<1>2. ASSUME NEW j \in SnapshotWorkers,
             \/ \E operation \in Sn!Operations : Sn!Begin(j, operation)
             \/ Sn!ReadAudit(j) \/ Sn!Planned(j) \/ Sn!Written(j) \/ Sn!Append(j) \/ Sn!Appended(j)
             \/ Sn!Verify(j) \/ Sn!Throw(j)
      PROVE  SnapshotsNow' /\ Sn!ReplacesLoaded
  BY <1>2, QuietJobStep DEF Sn!ReplacesLoaded
<1>3. ASSUME NEW j \in SnapshotWorkers, Sn!ReadFile(j) \/ Sn!Plan(j) \/ Sn!Load(j)
      PROVE  SnapshotsNow' /\ Sn!ReplacesLoaded
  <2>1. SnapshotsNow'
    BY <1>3, ReadFileStep, PlanStep, LoadStep
  <2>2. x3' = x3
    BY <1>3 DEF Sn!ReadFile, Sn!Plan, Sn!Load
  <2>. QED
    BY <2>1, <2>2 DEF Sn!ReplacesLoaded
<1>4. ASSUME NEW j \in SnapshotWorkers, Sn!Write(j) \/ Sn!Remove(j)
      PROVE  SnapshotsNow' /\ Sn!ReplacesLoaded
  <2>1. SnapshotsNow' /\ \A s \in Sn!Stores \ x6 : x3'[s] # x3[s] => x3[s] = x5[j].loaded[s]
    BY <1>4, WriteStep, RemoveStep
  <2>2. \A i \in SnapshotWorkers : x5'[i] # x5[i] => i = j
    BY <1>4 DEF Sn!Write, Sn!Remove, Sn!To, SnapshotsNow, Snapshots
  <2>. QED
    BY <2>1, <2>2 DEF Sn!ReplacesLoaded
<1>. QED
  BY <1>1, <1>2, <1>3, <1>4 DEF Sn!Next

LEMMA InitSnapshots ==
  ASSUME Sn!Init
  PROVE  SnapshotsNow
<1>1. Sn!Idle \in SnapshotJob /\ \A s \in Sn!Stores : Sn!Idle.loaded[s] = {}
  BY DEF SnapshotJob, SnapshotStages, Sn!Idle, Sn!NothingSeen, Sn!NothingLoaded
<1>. QED
  BY <1>1 DEF Sn!Init, Sn!NothingSeen, Sn!NothingLoaded, SnapshotsNow, Snapshots, LeftBehind, Single

\* Shadow rows: the row a job replaces or removes is the one it loaded, as long as no
\* rollback has removed that store's row, however many jobs run at once.
THEOREM ReplacementsAreLoaded == HubSpec => ReplacesWhatItLoaded
<1>. DEFINE Inv == moving = "snapshots" => SnapshotsNow
<1>1. HubInit => Inv
  BY InitSnapshots DEF HubInit
<1>2. Inv /\ [HubNext]_hubVars => Inv' /\ [moving = "snapshots" => Sn!ReplacesLoaded]_hubVars
  <2>. SUFFICES ASSUME Inv, [HubNext]_hubVars, moving = "snapshots"
                PROVE  SnapshotsNow' /\ [Sn!ReplacesLoaded]_hubVars
    BY DEF HubNext, hubVars
  <2>1. SnapshotsNow /\ (Sn!Next \/ UNCHANGED hubVars)
    BY DEF HubNext
  <2>2. CASE UNCHANGED hubVars
    <3>1. UNCHANGED <<x1, x2, x3, x5, x6>>
      BY <2>2 DEF hubVars
    <3>. QED
      BY <2>1, <2>2, <3>1 DEF SnapshotsNow
  <2>. QED
    BY <2>1, <2>2, SnapshotsStep
<1>. QED
  BY <1>1, <1>2, PTL DEF HubSpec, ReplacesWhatItLoaded
-----------------------------------------------------------------------------
\* The sums are those of the receiver's proofs, which know finite sets by themselves.
LEMMA TrFinite == \A S : Tr!IsFiniteSet(S) <=> IsFiniteSet(S)
BY DEF Tr!IsFiniteSet, IsFiniteSet

\* What a quotient is at least.
LEMMA Floor ==
  ASSUME NEW a \in Nat, NEW b \in Nat, b > 0
  PROVE  a \div b \in Nat /\ \A n \in Nat : n <= a \div b <=> n * b <= a
<1>1. a \div b \in Nat /\ (a \div b) * b <= a /\ a < (a \div b) * b + b
  OBVIOUS
<1>. DEFINE q == a \div b
<1>. HIDE DEF q
<1>2. ASSUME NEW n \in Nat PROVE n <= q <=> n * b <= a
  <2>1. CASE n <= q
    <3>1. n * b <= q * b
      BY <1>1, <2>1 DEF q
    <3>. QED
      BY <1>1, <2>1, <3>1 DEF q
  <2>2. CASE n > q
    <3>1. n * b >= (q + 1) * b /\ (q + 1) * b = q * b + b
      BY <1>1, <2>2 DEF q
    <3>. QED
      BY <1>1, <2>2, <3>1 DEF q
  <2>. QED
    BY <1>1, <2>1, <2>2 DEF q
<1>. QED
  BY <1>1, <1>2 DEF q

-----------------------------------------------------------------------------
\* CorridorPlanning.  A plan's index of a dimension, and their sum.
Index(of, c) == [d \in CorridorDimensions |-> CHOOSE i \in of[c][d] : TRUE]

LEMMA CorridorCounts == \A S : Co!Cardinality(S) = Cardinality(S)
BY DEF Co!Cardinality, Cardinality

\* The module's sum is that of the function.
LEMMA TotalIsSum ==
  ASSUME NEW of, NEW c
  PROVE  Co!Total(of, c) = Tr!Sum(Index(of, c), CorridorDimensions)
<1>. DEFINE D == CorridorDimensions
            h == Index(of, c)
            Body(g) == [s \in SUBSET D |-> IF s = {} THEN 0
                                          ELSE (CHOOSE i \in of[c][Tr!First(s)] : TRUE) + g[s \ {Tr!First(s)}]]
            t == CHOOSE g : g = Body(g)
<1>1. Co!Total(of, c) = t[D]
  BY DEF Co!Total, Co!MapThenSumSet, Co!MapThenFoldSet, Tr!First
<1>2. \A s \in SUBSET D : s # {} => (CHOOSE i \in of[c][Tr!First(s)] : TRUE) = h[Tr!First(s)]
  BY Tr!FirstIn DEF Index
<1>3. \A g : g = Body(g) <=> Tr!Sums(h, D, g)
  <2>. HIDE DEF h
  <2>. QED
    BY <1>2 DEF Tr!Sums
<1>4. Tr!IsFiniteSet(D)
  BY HubAssumption, TrFinite
<1>5. \E g : g = Body(g)
  <2>. HIDE DEF Body, h, D
  <2>. QED
    BY <1>3, <1>4, Tr!SumsExist
<1>6. t = Body(t)
  BY <1>5
<1>. HIDE DEF t, Body, h
<1>7. Tr!Sums(h, D, t)
  BY <1>3, <1>6
<1>. QED
  BY <1>1, <1>4, <1>7, Tr!SumIs DEF h

\* A candidate that has all evidence.
Evidenced(c) == \A d \in CorridorDimensions : x1[c][d] # {}

LEMMA TotalOfWhole ==
  ASSUME x1 \in [CorridorCandidates -> Co!Indicators], NEW c \in CorridorCandidates, Evidenced(c)
  PROVE  Co!Total(x1, c) \in Nat
<1>1. \A d \in CorridorDimensions : Index(x1, c)[d] \in Nat
  <2>1. ASSUME NEW d \in CorridorDimensions PROVE Index(x1, c)[d] \in Nat
    <3>1. x1[c][d] # {} /\ x1[c][d] \in {{}} \cup {{i} : i \in CorridorIndices}
      BY DEF Evidenced, Co!Indicators
    <3>2. PICK i \in CorridorIndices : x1[c][d] = {i}
      BY <3>1
    <3>3. Index(x1, c)[d] = i
      BY <3>2 DEF Index
    <3>. QED
      BY <3>3, HubAssumption
  <2>. QED
    BY <2>1
<1>. DEFINE h == Index(x1, c)
<1>. HIDE DEF h
<1>2. Tr!Sum(h, CorridorDimensions) \in Int /\ Tr!Sum(h, CorridorDimensions) >= 0
  BY <1>1, HubAssumption, TrFinite, Tr!SumType DEF h
<1>. QED
  BY <1>2, TotalIsSum DEF h

LEMMA ReadinessOfWhole ==
  ASSUME x1 \in [CorridorCandidates -> Co!Indicators], NEW c \in CorridorCandidates, Evidenced(c)
  PROVE  /\ Co!Readiness(c) \in Nat
         /\ \A n \in Nat :
              n <= Co!Readiness(c) <=> n * (100 * Cardinality(CorridorDimensions)) <= Co!Total(x1, c) * 10000
<1>. DEFINE total == Co!Total(x1, c)
            k == Cardinality(CorridorDimensions)
<1>1. Co!Readiness(c) = (total * 10000) \div (100 * k)
  BY CorridorCounts DEF Co!Readiness, Co!Total
<1>2. total \in Nat /\ k \in 1..100
  BY TotalOfWhole, HubAssumption
<1>. HIDE DEF total, k
<1>3. total * 10000 \in Nat /\ 100 * k \in Nat /\ 100 * k > 0
  BY <1>2
<1>. DEFINE a == total * 10000
            b == 100 * k
<1>. HIDE DEF a, b
<1>4. a \div b \in Nat /\ \A n \in Nat : n <= a \div b <=> n * b <= a
  BY <1>3, Floor DEF a, b
<1>. QED
  BY <1>1, <1>4 DEF a, b, total, k

\* The threshold is reached by the sum, and the greater readiness has the greater sum.
LEMMA ReadyBySum ==
  ASSUME x1 \in [CorridorCandidates -> Co!Indicators], NEW c \in CorridorCandidates, Evidenced(c)
  PROVE  /\ \A n \in Nat :
              n <= Co!Readiness(c) <=> 100 * Co!Total(x1, c) >= n * Cardinality(CorridorDimensions)
         /\ \A d \in CorridorCandidates :
              Evidenced(d) /\ Co!Readiness(d) <= Co!Readiness(c) => Co!Total(x1, d) <= Co!Total(x1, c)
<1>. DEFINE k == Cardinality(CorridorDimensions)
            T(e) == Co!Total(x1, e)
            R(e) == Co!Readiness(e)
<1>1. k \in 1..100
  BY HubAssumption
<1>2. \A e \in CorridorCandidates :
        Evidenced(e) => T(e) \in Nat /\ R(e) \in Nat /\ \A n \in Nat : n <= R(e) <=> n * (100 * k) <= T(e) * 10000
  BY TotalOfWhole, ReadinessOfWhole
<1>. HIDE DEF k, T, R
<1>3. ASSUME NEW n \in Nat PROVE n <= R(c) <=> 100 * T(c) >= n * k
  <2>1. (n <= R(c) <=> n * (100 * k) <= T(c) * 10000) /\ T(c) \in Nat
    BY <1>2
  <2>2. n * (100 * k) = 100 * (n * k) /\ n * k \in Nat
    BY <1>1
  <2>. DEFINE m == n * k
  <2>. HIDE DEF m
  <2>3. 100 * m <= T(c) * 10000 <=> 100 * T(c) >= m
    BY <2>1, <2>2 DEF m
  <2>. QED
    BY <2>1, <2>2, <2>3 DEF m
<1>4. ASSUME NEW d \in CorridorCandidates, Evidenced(d), R(d) <= R(c) PROVE T(d) <= T(c)
  <2>1. T(c) \in Nat /\ T(d) \in Nat /\ R(c) \in Nat /\ R(d) \in Nat
    BY <1>2, <1>4
  <2>. DEFINE n == R(c) + 1
              m == R(c) * k
  <2>2. R(c) * (100 * k) <= T(c) * 10000 /\ ~(n * (100 * k) <= T(d) * 10000)
    <3>1. n \in Nat /\ ~(n <= R(d)) /\ R(c) <= R(c)
      BY <1>4, <2>1
    <3>. QED
      BY <1>2, <1>4, <2>1, <3>1
  <2>3. R(c) * (100 * k) = 100 * m /\ n * (100 * k) = 100 * m + 100 * k /\ m \in Nat
    BY <1>1, <2>1
  <2>. HIDE DEF n, m
  <2>4. 100 * m <= T(c) * 10000 /\ 100 * m + 100 * k > T(d) * 10000
    BY <1>1, <2>1, <2>2, <2>3
  <2>. QED
    BY <1>1, <2>1, <2>3, <2>4
<1>. QED
  BY <1>3, <1>4 DEF k, T, R

LEMMA WholeIsComplete ==
  ASSUME NEW c
  PROVE  /\ Co!Complete(c) <=> Evidenced(c)
         /\ Evidenced(c) => Co!Completeness(c) = (Cardinality(CorridorDimensions) * 10000) \div Cardinality(CorridorDimensions)
<1>1. Co!Complete(c) <=> Evidenced(c)
  BY DEF Co!Complete, Co!Present, Evidenced
<1>2. Co!Complete(c) => Co!Present(c) = CorridorDimensions
  BY DEF Co!Complete
<1>. QED
  BY <1>1, <1>2, CorridorCounts DEF Co!Completeness

\* Of candidates with all evidence one comes first, and none of them is readier.
LEMMA FirstIsReadiest ==
  ASSUME x1 \in [CorridorCandidates -> Co!Indicators], NEW S, S \subseteq CorridorCandidates, S # {},
         \A c \in S : Evidenced(c)
  PROVE  /\ Co!First(S) # {}
         /\ \A c \in Co!First(S) : c \in S /\ \A d \in S : Co!Readiness(d) <= Co!Readiness(c)
<1>. DEFINE v == (Cardinality(CorridorDimensions) * 10000) \div Cardinality(CorridorDimensions)
            f == [c \in S |-> Co!Readiness(c)]
<1>1. v \in Nat
  <2>1. Cardinality(CorridorDimensions) \in 1..100
    BY HubAssumption
  <2>. HIDE DEF v
  <2>2. Cardinality(CorridorDimensions) \in Nat /\ Cardinality(CorridorDimensions) > 0
        /\ Cardinality(CorridorDimensions) * 10000 \in Nat
    BY <2>1
  <2>. QED
    BY <2>2, Floor DEF v
<1>. HIDE DEF v
<1>2. \A c \in S : Co!Complete(c) /\ Co!Completeness(c) = v /\ Co!Readiness(c) \in Nat /\ c \in Nat
  <2>1. \A c \in S : Co!Complete(c) /\ Co!Completeness(c) = v
    BY WholeIsComplete DEF v
  <2>2. \A c \in S : Co!Readiness(c) \in Nat
    BY ReadinessOfWhole
  <2>3. S \subseteq Nat
    BY HubAssumption
  <2>. QED
    BY <2>1, <2>2, <2>3
<1>3. \A c, d \in S : Co!Before(c, d) <=>
        \/ Co!Readiness(c) > Co!Readiness(d)
        \/ Co!Readiness(c) = Co!Readiness(d) /\ c < d
  BY <1>1, <1>2 DEF Co!Before
<1>4. PICK c \in S : \A d \in S : f[d] <= f[c]
  <2>1. IsFiniteSet(S)
    BY HubAssumption, FS_Subset
  <2>2. \A d \in S : f[d] \in Int
    BY <1>2
  <2>. HIDE DEF f
  <2>. QED
    BY <2>1, <2>2, TrFinite, Tr!Greatest
<1>. DEFINE E == {d \in S : f[d] = f[c]}
<1>5. PICK e \in E : \A d \in E : e <= d
  <2>1. E \subseteq Nat /\ E # {}
    BY <1>2
  <2>. HIDE DEF E
  <2>. QED
    BY <2>1, Tr!LeastElement
<1>6. e \in Co!First(S)
  <2>1. e \in S /\ Co!Readiness(e) = Co!Readiness(c)
    OBVIOUS
  <2>2. ASSUME NEW d \in S, d # e PROVE Co!Before(e, d)
    <3>1. Co!Readiness(d) <= Co!Readiness(e)
      BY <1>4, <2>1
    <3>2. Co!Readiness(d) = Co!Readiness(e) => e <= d
      BY <1>5, <2>1
    <3>. QED
      BY <1>2, <1>3, <2>1, <2>2, <3>1, <3>2
  <2>. QED
    BY <2>1, <2>2 DEF Co!First
<1>7. ASSUME NEW b \in Co!First(S) PROVE b \in S /\ \A d \in S : Co!Readiness(d) <= Co!Readiness(b)
  BY <1>2, <1>3 DEF Co!First
<1>. QED
  BY <1>6, <1>7

\* What the property says of one read model.
Best(m) ==
  LET complete == \A c \in CorridorCandidates, d \in CorridorDimensions : m.of[c][d] # {}
      reaches(c) == 100 * Co!Total(m.of, c) >= m.threshold * Cardinality(CorridorDimensions)
  IN /\ m.recommendation.candidate # {} => complete
     /\ complete /\ m.recommendation.candidate = {} => \A c \in CorridorCandidates : ~reaches(c)
     /\ \A c \in m.recommendation.candidate :
          /\ reaches(c)
          /\ \A d \in CorridorCandidates : Co!Total(m.of, d) <= Co!Total(m.of, c)

Compared ==
  /\ x1 \in [CorridorCandidates -> Co!Indicators] /\ x4 \in CorridorThresholds
  /\ \A m \in x5 : Best(m)

LEMMA RecommendsBest ==
  ASSUME x1 \in [CorridorCandidates -> Co!Indicators], x4 \in CorridorThresholds,
         NEW m, m.of = x1, m.threshold = x4, m.recommendation = Co!Recommendation
  PROVE  Best(m)
<1>. DEFINE complete == \A c \in CorridorCandidates, d \in CorridorDimensions : x1[c][d] # {}
            review == {c \in CorridorCandidates : Co!State(c) = "CANDIDATE_FOR_BOUNDED_REVIEW"}
            reaches(c) == 100 * Co!Total(x1, c) >= x4 * Cardinality(CorridorDimensions)
<1>1. complete <=> \A c \in CorridorCandidates : Evidenced(c)
  BY DEF Evidenced
<1>2. CASE ~complete
  <2>1. Co!Recommendation.candidate = {}
    BY <1>1, <1>2, WholeIsComplete DEF Co!Recommendation
  <2>. QED
    BY <1>2, <2>1 DEF Best
<1>3. CASE complete
  <2>1. \A c \in CorridorCandidates : Evidenced(c) /\ Co!Complete(c)
    BY <1>1, <1>3, WholeIsComplete
  <2>2. x4 \in Nat
    BY HubAssumption
  <2>3. \A c \in CorridorCandidates : Co!Readiness(c) \in Nat /\ (x4 <= Co!Readiness(c) <=> reaches(c))
    BY <2>1, <2>2, ReadinessOfWhole, ReadyBySum
  <2>4. \A c \in CorridorCandidates : c \in review <=> x4 <= Co!Readiness(c)
    BY <2>1, <2>2, <2>3 DEF Co!State
  <2>5. Co!Recommendation.candidate = Co!First(review)
    BY <2>1 DEF Co!Recommendation
  <2>6. Co!First(review) = {} => review = {}
    BY <2>1, FirstIsReadiest
  <2>7. ASSUME NEW c \in Co!First(review)
        PROVE  /\ c \in CorridorCandidates /\ reaches(c)
               /\ \A d \in CorridorCandidates : Co!Total(x1, d) <= Co!Total(x1, c)
    <3>. HIDE DEF review
    <3>1. c \in review
      BY <2>7 DEF Co!First
    <3>2. c \in CorridorCandidates /\ \A d \in review : Co!Readiness(d) <= Co!Readiness(c)
      <4>1. review \subseteq CorridorCandidates /\ review # {}
        BY <3>1 DEF review
      <4>. QED
        BY <2>1, <2>7, <3>1, <4>1, FirstIsReadiest
    <3>. HIDE DEF reaches
    <3>3. \A d \in CorridorCandidates : Co!Readiness(d) <= Co!Readiness(c)
      BY <2>2, <2>3, <2>4, <3>1, <3>2
    <3>. QED
      BY <2>1, <2>3, <2>4, <3>1, <3>2, <3>3, ReadyBySum
  <2>. HIDE DEF review
  <2>8. m.recommendation.candidate = Co!First(review)
    BY <2>5
  <2>9. ASSUME m.recommendation.candidate = {}, NEW c \in CorridorCandidates PROVE ~reaches(c)
    BY <2>3, <2>4, <2>6, <2>8, <2>9
  <2>. QED
    BY <1>3, <2>7, <2>8, <2>9 DEF Best
<1>. QED
  BY <1>2, <1>3

LEMMA InitPlans == Co!Init => Compared
BY DEF Co!Init, Compared, Co!Indicators

LEMMA PlansStep ==
  ASSUME Compared, Co!Next \/ UNCHANGED <<x1, x2, x3, x4, x5>>
  PROVE  Compared'
<1>. USE DEF Compared
<1>1. ASSUME NEW c \in CorridorCandidates, NEW d \in CorridorDimensions, NEW i \in {{}} \cup {{j} : j \in CorridorIndices},
             x1' = [x1 EXCEPT ![c][d] = i]
      PROVE  x1' \in [CorridorCandidates -> Co!Indicators]
  BY <1>1 DEF Co!Indicators
<1>2. ASSUME NEW c \in CorridorCandidates, NEW d \in CorridorDimensions,
             Co!Withdraw(c, d) \/ \E index \in CorridorIndices : Co!Report(c, d, index)
      PROVE  Compared'
  <2>1. PICK i \in {{}} \cup {{j} : j \in CorridorIndices} : x1' = [x1 EXCEPT ![c][d] = i]
    <3>1. CASE Co!Withdraw(c, d)
      BY <3>1 DEF Co!Withdraw
    <3>2. ASSUME NEW index \in CorridorIndices, Co!Report(c, d, index)
          PROVE  x1' = [x1 EXCEPT ![c][d] = {index}]
      BY <3>2 DEF Co!Report
    <3>. QED
      BY <1>2, <3>1, <3>2
  <2>2. x1' \in [CorridorCandidates -> Co!Indicators]
    BY <1>1, <2>1
  <2>. QED
    BY <1>2, <2>2 DEF Co!Withdraw, Co!Report
<1>3. CASE Co!ChangePolicy
  BY <1>3 DEF Co!ChangePolicy
<1>4. CASE Co!Publish
  <2>. DEFINE m == [of |-> x1, threshold |-> x4, scope |-> x3,
                    candidates |-> {Co!Evaluation(c) : c \in CorridorCandidates},
                    recommendation |-> Co!Recommendation]
  <2>1. UNCHANGED <<x1, x4>> /\ x5' = x5 \cup {m}
    BY <1>4 DEF Co!Publish
  <2>2. m.of = x1 /\ m.threshold = x4 /\ m.recommendation = Co!Recommendation
    OBVIOUS
  <2>. HIDE DEF m
  <2>3. Best(m)
    BY <2>2, RecommendsBest
  <2>. QED
    BY <2>1, <2>3
<1>. QED
  BY <1>2, <1>3, <1>4 DEF Co!Next

\* Corridor plans: whatever evidence comes and goes and however the policy is set, a
\* recommendation is only published of candidates that were all complete, and the one
\* that is recommended reached the threshold and has the greatest sum of evidence: the
\* rounding to basis points never turns two candidates round.
THEOREM BestIsRecommended == HubSpec => []RecommendationIsBest
<1>. DEFINE Inv == moving = "corridor" => Compared
<1>1. HubInit => Inv
  BY InitPlans DEF HubInit
<1>2. Inv /\ [HubNext]_hubVars => Inv'
  <2>1. SUFFICES ASSUME moving = "corridor" => Compared, moving = "corridor", moving' = "corridor",
                        Co!Next \/ UNCHANGED <<x1, x2, x3, x4, x5>>
                 PROVE  Compared'
    BY DEF HubNext, hubVars
  <2>. QED
    BY <2>1, PlansStep
<1>3. Inv => RecommendationIsBest
  BY CorridorCounts DEF RecommendationIsBest, Co!RecommendationIsBest, Compared, Best
<1>. HIDE DEF Inv
<1>. QED
  BY <1>1, <1>2, <1>3, PTL DEF HubSpec

-----------------------------------------------------------------------------
\* OperationsTrace.
LEMMA TracesCount == \A S : Ot!Cardinality(S) = Cardinality(S)
BY DEF Ot!Cardinality, Cardinality

\* A sum of ones counts.
LEMMA OnesCount ==
  ASSUME NEW S, IsFiniteSet(S), NEW h, \A x \in S : h[x] = 1
  PROVE  Tr!Sum(h, S) = Cardinality(S)
<1>. DEFINE T == {s \in SUBSET S : Tr!Sum(h, s) # Cardinality(s)}
<1>1. SUFFICES ASSUME T # {} PROVE FALSE
  <2>1. S \in SUBSET S
    OBVIOUS
  <2>. QED
    BY <2>1
<1>2. PICK t \in T : \A u \in T : u \subseteq t => u = t
  <2>1. T \subseteq SUBSET S /\ Tr!IsFiniteSet(S)
    BY TrFinite
  <2>. HIDE DEF T
  <2>. QED
    BY <1>1, <2>1, Tr!LeastSubset
<1>3. t \subseteq S /\ Tr!Sum(h, t) # Cardinality(t)
  OBVIOUS
<1>4. t # {}
  BY <1>3, Tr!SumEmpty, FS_EmptySet
<1>5. PICK x \in t : TRUE
  BY <1>4
<1>. DEFINE u == t \ {x}
<1>6. u \in SUBSET S /\ u \subseteq t /\ u # t
  BY <1>3, <1>5
<1>7. Tr!Sum(h, u) = Cardinality(u)
  BY <1>2, <1>6
<1>8. IsFiniteSet(t) /\ Tr!IsFiniteSet(t) /\ \A y \in t : h[y] = 1
  BY <1>3, FS_Subset, TrFinite
<1>. HIDE DEF T
<1>9. Tr!Sum(h, t) = h[x] + Tr!Sum(h, u)
  <2>1. \A y \in t : h[y] \in Int
    BY <1>8
  <2>. QED
    BY <1>5, <1>8, <2>1, Tr!SumWithout
<1>10. Cardinality(u) = Cardinality(t) - 1 /\ Cardinality(t) \in Nat
  BY <1>5, <1>8, FS_RemoveElement, FS_CardinalityType
<1>. HIDE DEF u
<1>. QED
  BY <1>3, <1>5, <1>7, <1>8, <1>9, <1>10

\* Events with ids of their own are as many as their ids.
LEMMA IdsCount ==
  ASSUME NEW S, IsFiniteSet(S), \A d, e \in S : d.event = e.event => d = e
  PROVE  Cardinality({e.event : e \in S}) = Cardinality(S)
<1>. DEFINE T == {e.event : e \in S}
            f == [e \in S |-> e.event]
<1>1. f \in Bijection(S, T)
  BY DEF Bijection, Injection, Surjection, IsInjective
<1>2. ExistsBijection(S, T)
  BY <1>1 DEF ExistsBijection
<1>. HIDE DEF T, f
<1>3. Cardinality(T) = Cardinality(S)
  BY <1>2, FS_Bijection
<1>. QED
  BY <1>3 DEF T

\* In the order of the texts and ids one is the last.
LEMMA LastOfTimeline ==
  ASSUME NEW S, IsFiniteSet(S), S # {}, S \subseteq TraceEvents
  PROVE  /\ Ot!Latest(S) \in S
         /\ \A y \in S : y.text < Ot!Latest(S).text
                          \/ (y.text = Ot!Latest(S).text /\ y.event <= Ot!Latest(S).event)
<1>1. \A e \in S : e.text \in Nat /\ e.event \in Nat
  BY HubAssumption
<1>. DEFINE f == [e \in S |-> e.text]
            g == [e \in S |-> e.event]
<1>2. PICK x \in S : \A y \in S : f[y] <= f[x]
  <2>1. Tr!IsFiniteSet(S) /\ \A y \in S : f[y] \in Int
    BY <1>1, TrFinite
  <2>. HIDE DEF f
  <2>. QED
    BY <2>1, Tr!Greatest
<1>. DEFINE E == {y \in S : y.text = x.text}
<1>3. PICK z \in E : \A y \in E : g[y] <= g[z]
  <2>1. IsFiniteSet(E) /\ E # {}
    BY FS_Subset
  <2>2. Tr!IsFiniteSet(E) /\ \A y \in E : g[y] \in Int
    BY <1>1, <2>1, TrFinite
  <2>. HIDE DEF g, E
  <2>. QED
    BY <2>1, <2>2, Tr!Greatest
<1>4. \A y \in S : y.text < z.text \/ (y.text = z.text /\ y.event <= z.event)
  BY <1>1, <1>2, <1>3
<1>. QED
  BY <1>3, <1>4 DEF Ot!Latest

\* An unknown outcome that nothing follows is the last one.
LEMMA LastIsUnsettled ==
  ASSUME NEW S, IsFiniteSet(S), S \subseteq TraceEvents, \A d, e \in S : d.event = e.event => d = e,
         Ot!Unsettled(S)
  PROVE  Ot!Latest(S).outcome = "UNVERIFIED"
<1>1. PICK e \in S : /\ e.outcome = "UNVERIFIED"
                     /\ \A d \in S : d.text < e.text \/ (d.text = e.text /\ d.event <= e.event)
  BY DEF Ot!Unsettled
<1>. DEFINE l == Ot!Latest(S)
<1>2. l \in S /\ \A y \in S : y.text < l.text \/ (y.text = l.text /\ y.event <= l.event)
  BY <1>1, LastOfTimeline
<1>. HIDE DEF l
<1>3. {e.text, e.event, l.text, l.event} \subseteq Nat
  BY <1>1, <1>2, HubAssumption
<1>4. l.event = e.event
  BY <1>1, <1>2, <1>3
<1>5. l = e
  BY <1>1, <1>2, <1>4
<1>. QED
  BY <1>1, <1>5 DEF l

\* What a manifest was sealed with: events of one run that were emitted, each id once.
Sealed(m) ==
  /\ m = [content |-> m.content, sealed |-> m.sealed]
  /\ m.sealed.events \subseteq x1
  /\ \A e \in m.sealed.events : e.run = m.sealed.run
  /\ \A d, e \in m.sealed.events : d.event = e.event => d = e

TracedNow ==
  /\ x1 \subseteq TraceEvents /\ IsFiniteSet(x1)
  /\ \A m \in x2 : Sealed(m)
  /\ Ot!TracesAreExact

\* A review is asked for.
AsksForReview(S) ==
  \/ \E e \in S : e.detail \in {"CONFLICT_REVIEW_REQUIRED", "RECONCILIATION_REQUIRED"}
  \/ Ot!Unsettled(S)

\* What the code asks.
ReviewRequired(S) ==
  \/ Ot!Detailed(S, "CONFLICT_REVIEW_REQUIRED") \/ Ot!Detailed(S, "RECONCILIATION_REQUIRED")
  \/ Ot!Latest(S).outcome = "UNVERIFIED"

\* The trace of some events that were given once each.
LEMMA TraceFields ==
  ASSUME NEW m, NEW copies, NEW S, NEW t, t = Ot!Trace(m, copies), {e \in DOMAIN copies : copies[e] > 0} = S
  PROVE  /\ t.events = S
         /\ t.count = Tr!Sum(copies, S)
         /\ t.correlation = Ot!Latest(S).correlation
         /\ t.scope = Ot!Latest(S).scope
         /\ t.manifest = m.sealed
         /\ ReviewRequired(S) => t.reconciliation
<1>. DEFINE sum == Ot!MapThenSumSet(LAMBDA e : copies[e], S)
<1>1. sum = Tr!Sum(copies, S)
  BY DEF Ot!MapThenSumSet, Ot!MapThenFoldSet, Tr!Sum, Tr!MapThenSumSet, Tr!MapThenFoldSet
<1>2. t.count = sum
  BY DEF Ot!Trace
<1>3. /\ t.events = S
      /\ t.correlation = Ot!Latest(S).correlation
      /\ t.scope = Ot!Latest(S).scope
      /\ t.manifest = m.sealed
  BY DEF Ot!Trace
<1>4. ReviewRequired(S) => t.reconciliation
  BY DEF Ot!Trace, ReviewRequired
<1>. HIDE DEF sum
<1>. QED
  BY <1>1, <1>2, <1>3, <1>4

Traced(t, m, S) ==
  /\ t.events = S /\ t.manifest = m.sealed
  /\ t.count = Cardinality({e.event : e \in S})
  /\ \E l \in S : t.correlation = l.correlation /\ t.scope = l.scope
  /\ AsksForReview(S) => \A role : "RECONCILIATION_REVIEW" \in Ot!Actions(t, role)

LEMMA TraceOfOnce ==
  ASSUME NEW m, NEW S, S \subseteq TraceEvents, IsFiniteSet(S), S # {},
         \A d, e \in S : d.event = e.event => d = e,
         NEW copies, DOMAIN copies = S, \A e \in S : copies[e] = 1,
         NEW t, t = Ot!Trace(m, copies)
  PROVE  Traced(t, m, S)
<1>1. {e \in DOMAIN copies : copies[e] > 0} = S
  OBVIOUS
<1>2. /\ t.events = S /\ t.count = Tr!Sum(copies, S) /\ t.manifest = m.sealed
      /\ t.correlation = Ot!Latest(S).correlation /\ t.scope = Ot!Latest(S).scope
      /\ ReviewRequired(S) => t.reconciliation
  BY <1>1, TraceFields
<1>3. Ot!Latest(S) \in S
  BY LastOfTimeline
<1>4. t.count = Cardinality({e.event : e \in S})
  BY <1>2, OnesCount, IdsCount
<1>5. ASSUME AsksForReview(S), NEW role PROVE "RECONCILIATION_REVIEW" \in Ot!Actions(t, role)
  <2>1. t.reconciliation
    <3>1. CASE \E e \in S : e.detail \in {"CONFLICT_REVIEW_REQUIRED", "RECONCILIATION_REQUIRED"}
      BY <1>2, <3>1 DEF Ot!Detailed, ReviewRequired
    <3>2. CASE Ot!Unsettled(S)
      BY <1>2, <3>2, LastIsUnsettled DEF ReviewRequired
    <3>. QED
      BY <1>5, <3>1, <3>2 DEF AsksForReview
  <2>. QED
    BY <2>1 DEF Ot!Actions
<1>. QED
  BY <1>2, <1>3, <1>4, <1>5 DEF Traced

LEMMA ReadTraces ==
  ASSUME TracedNow, NEW m \in x2, Ot!Verified(m), NEW copies \in [x1 -> 0..TraceCopies], Ot!ReadModel(m, copies)
  PROVE  Ot!TracesAreExact'
<1>. DEFINE S == {e \in DOMAIN copies : copies[e] > 0}
            Among(c) == {x \in S : x.correlation = c}
            Once(c) == [e \in Among(c) |-> copies[e]]
<1>1. /\ S = m.sealed.events /\ \A e \in S : copies[e] = 1
      /\ \A e \in S : e.run = m.sealed.run
      /\ \A d, e \in S : d.correlation = e.correlation => d.scope = e.scope
      /\ x3' = {Ot!Trace(m, Once(c)) : c \in {e.correlation : e \in S}}
  BY DEF Ot!ReadModel, Ot!SameDigests, Ot!Verified
<1>2. /\ S \subseteq TraceEvents /\ IsFiniteSet(S)
      /\ \A d, e \in S : d.event = e.event => d = e
  <2>1. S \subseteq x1 /\ \A d, e \in S : d.event = e.event => d = e
    BY <1>1 DEF TracedNow, Sealed
  <2>. QED
    BY <2>1, FS_Subset DEF TracedNow
<1>. HIDE DEF S
<1>. DEFINE Exact(t, c) ==
              /\ t.correlation = c /\ t.events = Among(c) /\ t.manifest = m.sealed
              /\ t.count = Cardinality({e.event : e \in Among(c)})
              /\ \A e \in Among(c) : e.scope = t.scope /\ e.correlation = t.correlation
              /\ AsksForReview(Among(c)) => \A role : "RECONCILIATION_REVIEW" \in Ot!Actions(t, role)
<1>3. ASSUME NEW c \in {e.correlation : e \in S}, NEW t, t = Ot!Trace(m, Once(c))
      PROVE  Exact(t, c)
  <2>1. /\ Among(c) \subseteq TraceEvents /\ IsFiniteSet(Among(c)) /\ Among(c) # {}
        /\ \A d, e \in Among(c) : d.event = e.event => d = e
    BY <1>2, FS_Subset
  <2>2. DOMAIN Once(c) = Among(c) /\ \A e \in Among(c) : Once(c)[e] = 1
    BY <1>1
  <2>3. \A e \in Among(c) : e \in S /\ e.correlation = c
    OBVIOUS
  <2>. HIDE DEF Among, Once
  <2>4. Traced(t, m, Among(c))
    BY <1>3, <2>1, <2>2, TraceOfOnce
  <2>. QED
    BY <1>1, <2>3, <2>4 DEF Traced
<1>4. \A t \in x3' : \E c \in {e.correlation : e \in S} : t = Ot!Trace(m, Once(c)) /\ Exact(t, c)
  <2>. HIDE DEF Once, Exact
  <2>. QED
    BY <1>1, <1>3
<1>5. ASSUME NEW t \in x3', NEW u \in x3', t.correlation = u.correlation PROVE t = u
  <2>. HIDE DEF Among, Once
  <2>1. PICK c \in {e.correlation : e \in S} : t = Ot!Trace(m, Once(c)) /\ t.correlation = c
    BY <1>4
  <2>2. PICK d \in {e.correlation : e \in S} : u = Ot!Trace(m, Once(d)) /\ u.correlation = d
    BY <1>4
  <2>. QED
    BY <1>5, <2>1, <2>2
<1>6. UNION {u.events : u \in x3'} = m.sealed.events
  <2>1. ASSUME NEW e \in S PROVE \E u \in x3' : e \in u.events
    <3>. DEFINE c == e.correlation
                t == Ot!Trace(m, Once(c))
    <3>1. e \in Among(c) /\ c \in {d.correlation : d \in S}
      OBVIOUS
    <3>. HIDE DEF Among, Once, c
    <3>2. t \in x3' /\ Exact(t, c)
      <4>. HIDE DEF Exact
      <4>. QED
        BY <1>1, <1>3, <3>1
    <3>. QED
      BY <3>1, <3>2
  <2>2. ASSUME NEW u \in x3' PROVE u.events \subseteq S
    BY <1>4
  <2>3. UNION {u.events : u \in x3'} = S
    BY Zenon, <2>1, <2>2
  <2>. QED
    BY <1>1, <2>3
<1>7. ASSUME NEW t \in x3'
      PROVE  /\ t.manifest = m.sealed
             /\ \A e \in t.events : e.run = t.manifest.run /\ e.scope = t.scope /\ e.correlation = t.correlation
             /\ t.count = Ot!Cardinality({e.event : e \in t.events})
             /\ AsksForReview(t.events) =>
                  \A role \in {"OPERATIONS", "PARTNER_ADMIN"} : "RECONCILIATION_REVIEW" \in Ot!Actions(t, role)
  <2>1. PICK c : Exact(t, c)
    BY <1>4
  <2>2. \A e \in Among(c) : e.run = m.sealed.run
    BY <1>1
  <2>. HIDE DEF Among
  <2>. QED
    BY <2>1, <2>2, TracesCount
<1>. QED
  BY <1>5, <1>6, <1>7 DEF Ot!TracesAreExact, AsksForReview, Ot!Actions, Ot!Unsettled

LEMMA InitTraced == Ot!Init => TracedNow
BY FS_EmptySet DEF Ot!Init, TracedNow, Ot!TracesAreExact

LEMMA TracedStep ==
  ASSUME TracedNow, Ot!Next \/ UNCHANGED <<x1, x2, x3>>
  PROVE  TracedNow'
<1>1. x1 \subseteq TraceEvents /\ IsFiniteSet(x1) /\ (\A m \in x2 : Sealed(m)) /\ Ot!TracesAreExact
  BY DEF TracedNow
<1>2. UNCHANGED x3 => Ot!TracesAreExact'
  BY <1>1 DEF Ot!TracesAreExact, Ot!Actions, Ot!Unsettled
<1>3. x1 \subseteq x1' => \A m \in x2 : Sealed(m)'
  BY <1>1 DEF Sealed
<1>4. ASSUME NEW e \in TraceEvents, Ot!Emit(e) PROVE TracedNow'
  <2>1. x1' = x1 \cup {e} /\ UNCHANGED <<x2, x3>>
    BY <1>4 DEF Ot!Emit
  <2>. QED
    BY <1>1, <1>2, <1>3, <2>1, FS_AddElement DEF TracedNow
<1>5. ASSUME NEW e, Ot!Alter(e) PROVE TracedNow'
  <2>1. PICK m \in x2 : x2' = {[m EXCEPT !.content.events = @ \ {e}]}
    BY <1>5 DEF Ot!Alter
  <2>2. UNCHANGED <<x1, x3>>
    BY <1>5 DEF Ot!Alter
  <2>. DEFINE n == [m EXCEPT !.content.events = @ \ {e}]
  <2>3. n.sealed = m.sealed /\ n = [content |-> n.content, sealed |-> n.sealed]
    <3>1. PICK was, sealed : m = [content |-> was, sealed |-> sealed]
      BY <1>1 DEF Sealed
    <3>2. n = [content |-> [was EXCEPT !.events = @ \ {e}], sealed |-> sealed]
      BY <3>1
    <3>. HIDE DEF n
    <3>. QED
      BY <3>1, <3>2
  <2>. HIDE DEF n
  <2>4. Sealed(n)'
    BY <1>1, <2>2, <2>3 DEF Sealed
  <2>. QED
    BY <1>1, <1>2, <2>1, <2>2, <2>4 DEF TracedNow, n
<1>6. ASSUME NEW run, NEW events, NEW artifacts, NEW graph, Ot!MakeManifest(run, events, artifacts, graph)
      PROVE  TracedNow'
  <2>. DEFINE content == Ot!Content(run, events, artifacts, graph)
              m == [content |-> content, sealed |-> content]
  <2>1. /\ x2' = {m} /\ UNCHANGED <<x1, x3>> /\ events \subseteq x1
        /\ \A e \in events : e.run = run
        /\ \A d, e \in events : d.event = e.event => d = e
    BY <1>6 DEF Ot!MakeManifest
  <2>2. content.run = run /\ content.events = events
    BY DEF Ot!Content
  <2>. HIDE DEF content
  <2>3. Sealed(m)'
    BY <2>1, <2>2 DEF Sealed
  <2>. QED
    BY <1>1, <1>2, <2>1, <2>3 DEF TracedNow
<1>7. ASSUME NEW m \in x2, Ot!Verified(m), NEW copies \in [x1 -> 0..TraceCopies], Ot!ReadModel(m, copies)
      PROVE  TracedNow'
  <2>1. UNCHANGED <<x1, x2>>
    BY <1>7 DEF Ot!ReadModel
  <2>. QED
    BY <1>1, <1>3, <1>7, <2>1, ReadTraces DEF TracedNow
<1>. QED
  BY <1>1, <1>2, <1>3, <1>4, <1>5, <1>6, <1>7 DEF Ot!Next, TracedNow

\* Operations traces: whatever was emitted, exported, altered or given twice, a read
\* model that was made has the events that its manifest was sealed with, all of them
\* and no others, each counted once in the one trace of its correlation, and asks for
\* a review of any conflict among them, of any demand for reconciliation and of an
\* unknown outcome that no later event follows.
THEOREM TracesStayExact == HubSpec => []TracesAreExact
<1>. DEFINE Inv == moving = "traces" => TracedNow
<1>1. HubInit => Inv
  BY InitTraced DEF HubInit
<1>2. Inv /\ [HubNext]_hubVars => Inv'
  <2>1. SUFFICES ASSUME moving = "traces" => TracedNow, moving = "traces", moving' = "traces",
                        Ot!Next \/ UNCHANGED <<x1, x2, x3>>
                 PROVE  TracedNow'
    BY DEF HubNext, hubVars
  <2>. QED
    BY <2>1, TracedStep
<1>3. Inv => TracesAreExact
  BY DEF TracesAreExact, TracedNow
<1>. HIDE DEF Inv
<1>. QED
  BY <1>1, <1>2, <1>3, PTL DEF HubSpec

-----------------------------------------------------------------------------
\* PlanningMatches.  The amounts of some matches, and what they come to.
AmountOf(mm) == [i \in DOMAIN mm |-> mm[i].amount]
AmountSum(mm, T) == Tr!Sum(AmountOf(mm), T)
PlannedOf(mm, n) == AmountSum(mm, {i \in DOMAIN mm : mm[i].needer = n})
GivenOf(mm, s) == AmountSum(mm, {i \in DOMAIN mm : mm[i].source = s})

LEMMA MatchesFinite ==
  ASSUME NEW mm \in Seq(Pl!MatchRecords)
  PROVE  /\ Len(mm) \in Nat /\ DOMAIN mm = 1..Len(mm)
         /\ \A i \in DOMAIN mm : mm[i] \in Pl!MatchRecords /\ AmountOf(mm)[i] = mm[i].amount /\ mm[i].amount \in Nat \ {0}
         /\ \A T : T \subseteq DOMAIN mm => Tr!IsFiniteSet(T) /\ AmountSum(mm, T) \in Nat
<1>1. Len(mm) \in Nat /\ DOMAIN mm = 1..Len(mm)
  OBVIOUS
<1>2. \A i \in DOMAIN mm : mm[i] \in Pl!MatchRecords
  BY <1>1
<1>3. \A i \in DOMAIN mm : AmountOf(mm)[i] = mm[i].amount /\ mm[i].amount \in Nat \ {0}
  BY <1>2 DEF AmountOf, Pl!MatchRecords
<1>4. ASSUME NEW T, T \subseteq DOMAIN mm PROVE Tr!IsFiniteSet(T) /\ AmountSum(mm, T) \in Nat
  <2>1. IsFiniteSet(T)
    <3>1. IsFiniteSet(1..Len(mm))
      BY <1>1, FS_Interval
    <3>. QED
      BY <1>1, <1>4, <3>1, FS_Subset
  <2>2. Tr!IsFiniteSet(T)
    BY <2>1, TrFinite
  <2>3. \A i \in T : AmountOf(mm)[i] \in Int /\ AmountOf(mm)[i] >= 0
    BY <1>3, <1>4
  <2>4. Tr!Sum(AmountOf(mm), T) \in Int /\ Tr!Sum(AmountOf(mm), T) >= 0
    BY <2>2, <2>3, Tr!SumType
  <2>. QED
    BY <2>2, <2>4 DEF AmountSum
<1>. QED
  BY <1>1, <1>2, <1>3, <1>4

\* The module's sum is that of the function.
LEMMA AmountedIsSum ==
  ASSUME NEW T, Tr!IsFiniteSet(T), T \subseteq DOMAIN x8
  PROVE  Pl!Amounted(T) = AmountSum(x8, T)
<1>. DEFINE h == AmountOf(x8)
            Body(g) == [s \in SUBSET T |-> IF s = {} THEN 0 ELSE x8[Tr!First(s)].amount + g[s \ {Tr!First(s)}]]
            t == CHOOSE g : g = Body(g)
<1>1. Pl!Amounted(T) = t[T]
  BY DEF Pl!Amounted, Pl!MapThenSumSet, Pl!MapThenFoldSet, Tr!First
<1>2. \A s \in SUBSET T : s # {} => x8[Tr!First(s)].amount = h[Tr!First(s)]
  BY Tr!FirstIn DEF AmountOf
<1>3. \A g : g = Body(g) <=> Tr!Sums(h, T, g)
  <2>. HIDE DEF h
  <2>. QED
    BY <1>2 DEF Tr!Sums
<1>4. \E g : g = Body(g)
  <2>. HIDE DEF Body, h
  <2>. QED
    BY <1>3, Tr!SumsExist
<1>5. t = Body(t)
  BY <1>4
<1>. HIDE DEF t, Body, h
<1>6. Tr!Sums(h, T, t)
  BY <1>3, <1>5
<1>. QED
  BY <1>1, <1>6, Tr!SumIs DEF AmountSum, h

LEMMA FunctionSum ==
  ASSUME NEW h, NEW T
  PROVE  Pl!SumFunctionOnSet(h, T) = Tr!Sum(h, T)
BY DEF Pl!SumFunctionOnSet, Pl!FoldFunctionOnSet, Pl!MapThenFoldSet, Tr!Sum, Tr!MapThenSumSet, Tr!MapThenFoldSet

LEMMA WholeFunctionSum ==
  ASSUME NEW h
  PROVE  Pl!SumFunction(h) = Tr!Sum(h, DOMAIN h)
BY FunctionSum DEF Pl!SumFunction

\* One match more.
LEMMA MatchAdded ==
  ASSUME NEW mm \in Seq(Pl!MatchRecords), NEW e \in Pl!MatchRecords
  PROVE  /\ Append(mm, e) \in Seq(Pl!MatchRecords)
         /\ AmountSum(Append(mm, e), DOMAIN Append(mm, e)) = AmountSum(mm, DOMAIN mm) + e.amount
         /\ PlannedOf(Append(mm, e), e.needer) = PlannedOf(mm, e.needer) + e.amount
         /\ \A n : n # e.needer => PlannedOf(Append(mm, e), n) = PlannedOf(mm, n)
         /\ GivenOf(Append(mm, e), e.source) = GivenOf(mm, e.source) + e.amount
         /\ \A s : s # e.source => GivenOf(Append(mm, e), s) = GivenOf(mm, s)
<1>. DEFINE nn == Append(mm, e)
            last == Len(mm) + 1
<1>1. /\ nn \in Seq(Pl!MatchRecords) /\ DOMAIN nn = DOMAIN mm \cup {last} /\ last \notin DOMAIN mm
      /\ nn[last] = e /\ \A i \in DOMAIN mm : nn[i] = mm[i]
  OBVIOUS
<1>2. AmountOf(nn)[last] = e.amount /\ \A i \in DOMAIN mm : AmountOf(nn)[i] = AmountOf(mm)[i]
  BY <1>1 DEF AmountOf
<1>3. e.amount \in Nat
  BY DEF Pl!MatchRecords
<1>. HIDE DEF nn, last
<1>4. ASSUME NEW T, T \subseteq DOMAIN mm
      PROVE  /\ AmountSum(nn, T) = AmountSum(mm, T)
             /\ AmountSum(nn, T \cup {last}) = AmountSum(mm, T) + e.amount
  <2>1. Tr!IsFiniteSet(T) /\ AmountSum(mm, T) \in Nat
    BY <1>4, MatchesFinite
  <2>2. \A i \in T : AmountOf(mm)[i] \in Int
    BY <1>4, MatchesFinite
  <2>3. AmountSum(nn, T) = AmountSum(mm, T)
    BY <1>2, <1>4, <2>1, Tr!SumSame DEF AmountSum
  <2>4. \A i \in T \cup {last} : AmountOf(nn)[i] \in Int
    BY <1>2, <1>3, <1>4, <2>2
  <2>5. last \notin T
    BY <1>1, <1>4
  <2>6. Tr!Sum(AmountOf(nn), T \cup {last}) = AmountOf(nn)[last] + Tr!Sum(AmountOf(nn), T)
    BY <2>1, <2>4, <2>5, Tr!SumWith
  <2>. QED
    BY <1>2, <1>3, <2>1, <2>3, <2>6 DEF AmountSum
<1>5. ASSUME NEW n
      PROVE  {i \in DOMAIN nn : nn[i].needer = n} =
               IF e.needer = n THEN {i \in DOMAIN mm : mm[i].needer = n} \cup {last} ELSE {i \in DOMAIN mm : mm[i].needer = n}
  BY <1>1
<1>6. ASSUME NEW s
      PROVE  {i \in DOMAIN nn : nn[i].source = s} =
               IF e.source = s THEN {i \in DOMAIN mm : mm[i].source = s} \cup {last} ELSE {i \in DOMAIN mm : mm[i].source = s}
  BY <1>1
<1>7. AmountSum(nn, DOMAIN nn) = AmountSum(mm, DOMAIN mm) + e.amount
  BY <1>1, <1>4
<1>8. PlannedOf(nn, e.needer) = PlannedOf(mm, e.needer) + e.amount
  BY <1>4, <1>5 DEF PlannedOf
<1>9. \A n : n # e.needer => PlannedOf(nn, n) = PlannedOf(mm, n)
  BY <1>4, <1>5 DEF PlannedOf
<1>10. GivenOf(nn, e.source) = GivenOf(mm, e.source) + e.amount
  BY <1>4, <1>6 DEF GivenOf
<1>11. \A s : s # e.source => GivenOf(nn, s) = GivenOf(mm, s)
  BY <1>4, <1>6 DEF GivenOf
<1>. QED
  BY <1>1, <1>7, <1>8, <1>9, <1>10, <1>11 DEF nn

\* What an agent or an item still lacks.
Gap(n) == Pl!Shortfall(n) - PlannedOf(x8, n)
Gaps == [n \in Pl!ToServe |-> Gap(n)]
Shortfalls == [n \in Pl!ToServe |-> Pl!Shortfall(n)]
Capacities == [s \in MatchSources |-> x5[s].capacity]

MatchTypes ==
  /\ x1 \in {"FLEET", "STOCK"} /\ x2 \in [MatchNeeders -> Nat] /\ x3 \in [MatchNeeders -> Nat \ {0}]
  /\ x5 \in [MatchSources -> Pl!Offers] /\ x6 \in [MatchSources -> Nat]
  /\ x7 \subseteq Pl!ToServe /\ x8 \in Seq(Pl!MatchRecords)

WithinLimits ==
  /\ \A s \in MatchSources : GivenOf(x8, s) + x6[s] = x5[s].capacity
  /\ \A n \in MatchNeeders : Gap(n) >= 0
  /\ \A n \in x7 : Gap(n) > 0
  /\ \A i \in DOMAIN x8 : x8[i].needer \in x5[x8[i].source].serves

\* Whoever is served and still lacks something had nothing left to take.
OutOfReach ==
  \A n \in Pl!ToServe \ x7 : Gap(n) > 0 =>
    \/ Pl!Eligible(n) = {}
    \/ x1 = "STOCK" /\ \E i \in DOMAIN x8 : x8[i].needer = n /\ x6[x8[i].source] = 0

TotalsAgree ==
  /\ AmountSum(x8, DOMAIN x8) + Tr!Sum(x6, MatchSources) = Tr!Sum(Capacities, MatchSources)
  /\ AmountSum(x8, DOMAIN x8) + Tr!Sum(Gaps, Pl!ToServe) = Tr!Sum(Shortfalls, Pl!ToServe)

MatchInv == MatchTypes /\ WithinLimits /\ OutOfReach /\ TotalsAgree

LEMMA GapFacts ==
  ASSUME MatchTypes
  PROVE  /\ \A n \in MatchNeeders : Pl!Shortfall(n) \in Nat /\ PlannedOf(x8, n) \in Nat /\ Gap(n) \in Int
         /\ \A s \in MatchSources : GivenOf(x8, s) \in Nat /\ x5[s].capacity \in Nat
         /\ AmountSum(x8, DOMAIN x8) \in Nat
         /\ Tr!IsFiniteSet(Pl!ToServe) /\ Tr!IsFiniteSet(MatchSources) /\ Tr!IsFiniteSet(MatchNeeders)
         /\ Pl!ToServe \subseteq MatchNeeders
<1>1. Pl!ToServe \subseteq MatchNeeders
  BY DEF Pl!ToServe
<1>2. IsFiniteSet(MatchNeeders) /\ IsFiniteSet(MatchSources) /\ MatchAmounts \subseteq Nat
  BY HubAssumption
<1>3. IsFiniteSet(Pl!ToServe)
  BY <1>1, <1>2, FS_Subset
<1>4. \A n \in MatchNeeders : Pl!Shortfall(n) \in Nat
  BY DEF MatchTypes, Pl!Shortfall
<1>5. x8 \in Seq(Pl!MatchRecords)
  BY DEF MatchTypes
<1>6. \A T : T \subseteq DOMAIN x8 => AmountSum(x8, T) \in Nat
  BY <1>5, MatchesFinite
<1>7. /\ \A n : {i \in DOMAIN x8 : x8[i].needer = n} \subseteq DOMAIN x8
      /\ \A s : {i \in DOMAIN x8 : x8[i].source = s} \subseteq DOMAIN x8
  OBVIOUS
<1>8. (\A n : PlannedOf(x8, n) \in Nat) /\ (\A s : GivenOf(x8, s) \in Nat) /\ AmountSum(x8, DOMAIN x8) \in Nat
  BY <1>6, <1>7 DEF PlannedOf, GivenOf
<1>9. \A s \in MatchSources : x5[s].capacity \in Nat
  BY <1>2 DEF MatchTypes, Pl!Offers
<1>10. \A n \in MatchNeeders : Gap(n) \in Int
  BY <1>4, <1>8 DEF Gap
<1>. QED
  BY <1>1, <1>2, <1>3, <1>4, <1>8, <1>9, <1>10, TrFinite

LEMMA ShortIsGap ==
  ASSUME MatchTypes, NEW n
  PROVE  Pl!Short(n) = Gap(n)
<1>. DEFINE T == {i \in DOMAIN x8 : x8[i].needer = n}
<1>1. T \subseteq DOMAIN x8 /\ x8 \in Seq(Pl!MatchRecords)
  BY DEF MatchTypes
<1>2. Tr!IsFiniteSet(T)
  <2>. HIDE DEF T
  <2>. QED
    BY <1>1, MatchesFinite
<1>3. Pl!Amounted(T) = AmountSum(x8, T)
  <2>. HIDE DEF T
  <2>. QED
    BY <1>1, <1>2, AmountedIsSum
<1>. QED
  BY <1>3 DEF Pl!Short, Pl!Planned, Gap, PlannedOf

LEMMA MatchInit ==
  ASSUME Pl!Init
  PROVE  MatchInv
<1>1. x8 = <<>> /\ DOMAIN x8 = {} /\ x8 \in Seq(Pl!MatchRecords)
  BY DEF Pl!Init
<1>2. MatchTypes
  <2>1. MatchAmounts \subseteq Nat \ {0}
    BY HubAssumption
  <2>2. x5 \in [MatchSources -> Pl!Offers] /\ x6 = [s \in MatchSources |-> x5[s].capacity]
    BY DEF Pl!Init
  <2>3. \A s \in MatchSources : x5[s].capacity \in Nat
    BY <2>1, <2>2 DEF Pl!Offers
  <2>4. x6 \in [MatchSources -> Nat]
    BY <2>2, <2>3
  <2>5. x2 \in [MatchNeeders -> Nat] /\ x3 \in [MatchNeeders -> Nat \ {0}]
    <3>1. x2 \in [MatchNeeders -> MatchAmounts \cup {0}]
      BY DEF Pl!Init
    <3>2. x3 \in [MatchNeeders -> MatchAmounts]
      BY DEF Pl!Init
    <3>3. MatchAmounts \cup {0} \subseteq Nat
      BY <2>1
    <3>. QED
      BY <2>1, <3>1, <3>2, <3>3
  <2>6. x1 \in {"FLEET", "STOCK"} /\ x7 = Pl!ToServe
    BY DEF Pl!Init, Pl!Fleet, Pl!Stock
  <2>. QED
    BY <1>1, <2>2, <2>4, <2>5, <2>6 DEF MatchTypes
<1>3. \A T : T \subseteq DOMAIN x8 => AmountSum(x8, T) = 0
  BY <1>1, Tr!SumEmpty DEF AmountSum
<1>4. (\A n : PlannedOf(x8, n) = 0) /\ (\A s : GivenOf(x8, s) = 0) /\ AmountSum(x8, DOMAIN x8) = 0
  BY <1>3 DEF PlannedOf, GivenOf
<1>5. \A n \in MatchNeeders : Gap(n) = Pl!Shortfall(n) /\ Gap(n) >= 0 /\ Gap(n) \in Int
  BY <1>2, <1>4, GapFacts DEF Gap
<1>6. x7 = Pl!ToServe /\ x6 = Capacities
  BY DEF Pl!Init, Capacities
<1>7. WithinLimits
  <2>1. \A n \in x7 : Gap(n) > 0
    BY <1>5, <1>6 DEF Pl!ToServe
  <2>2. \A s \in MatchSources : GivenOf(x8, s) + x6[s] = x5[s].capacity
    BY <1>2, <1>4, <1>6, GapFacts DEF Capacities
  <2>. QED
    BY <1>1, <1>5, <2>1, <2>2 DEF WithinLimits
<1>8. OutOfReach
  BY <1>6 DEF OutOfReach
<1>9. TotalsAgree
  <2>1. \A n \in Pl!ToServe : Gaps[n] = Shortfalls[n] /\ Gaps[n] \in Int
    BY <1>2, <1>5, GapFacts DEF Gaps, Shortfalls
  <2>2. Tr!Sum(Gaps, Pl!ToServe) = Tr!Sum(Shortfalls, Pl!ToServe) /\ Tr!Sum(Gaps, Pl!ToServe) \in Int
    BY <1>2, <2>1, GapFacts, Tr!SumSame, Tr!SumType
  <2>3. \A s \in MatchSources : x6[s] \in Int
    BY <1>2 DEF MatchTypes
  <2>4. Tr!Sum(x6, MatchSources) \in Int
    BY <1>2, <2>3, GapFacts, Tr!SumType
  <2>. QED
    BY <1>4, <1>6, <2>2, <2>4 DEF TotalsAgree
<1>. QED
  BY <1>2, <1>7, <1>8, <1>9 DEF MatchInv

\* A source gives what it can.
LEMMA MatchStep ==
  ASSUME MatchInv, NEW n \in x7, NEW s \in Pl!Eligible(n), Pl!Match(n, s), UNCHANGED <<x1, x2, x3, x4, x5>>
  PROVE  MatchInv'
<1>. DEFINE a == IF Gap(n) < x6[s] THEN Gap(n) ELSE x6[s]
            e == [needer |-> n, source |-> s, amount |-> a, short |-> Gap(n) - a]
<1>1. MatchTypes /\ WithinLimits /\ OutOfReach /\ TotalsAgree
  BY DEF MatchInv
<1>2. /\ n \in Pl!ToServe /\ n \in MatchNeeders /\ s \in MatchSources /\ n \in x5[s].serves
      /\ x6[s] \in Nat /\ x6[s] > 0 /\ Gap(n) \in Int /\ Gap(n) > 0
  BY <1>1, GapFacts DEF MatchTypes, WithinLimits, Pl!Eligible
<1>3. /\ x8' = Append(x8, e) /\ x6' = [x6 EXCEPT ![s] = x6[s] - a]
      /\ x7' = IF a = Gap(n) \/ x1 = "STOCK" THEN x7 \ {n} ELSE x7
  <2>1. Pl!Short(n) = Gap(n)
    BY <1>1, ShortIsGap
  <2>. QED
    BY <2>1 DEF Pl!Match
<1>4. a \in Nat \ {0} /\ a <= Gap(n) /\ a <= x6[s] /\ (a = Gap(n) \/ a = x6[s])
  BY <1>2
<1>5. e \in Pl!MatchRecords /\ e.needer = n /\ e.source = s /\ e.amount = a
  BY <1>2, <1>4 DEF Pl!MatchRecords
<1>. HIDE DEF e, a
<1>6. /\ x8' \in Seq(Pl!MatchRecords)
      /\ AmountSum(x8, DOMAIN x8)' = AmountSum(x8, DOMAIN x8) + a
      /\ PlannedOf(x8, n)' = PlannedOf(x8, n) + a
      /\ \A m : m # n => PlannedOf(x8, m)' = PlannedOf(x8, m)
      /\ GivenOf(x8, s)' = GivenOf(x8, s) + a
      /\ \A t : t # s => GivenOf(x8, t)' = GivenOf(x8, t)
  <2>1. x8 \in Seq(Pl!MatchRecords)
    BY <1>1 DEF MatchTypes
  <2>. QED
    BY <1>3, <1>5, <2>1, MatchAdded
<1>7. Pl!ToServe' = Pl!ToServe /\ \A m : Pl!Shortfall(m)' = Pl!Shortfall(m)
  BY DEF Pl!ToServe, Pl!Shortfall, Pl!LowStock
<1>8. MatchTypes'
  <2>1. x6' \in [MatchSources -> Nat]
    BY <1>1, <1>2, <1>3, <1>4 DEF MatchTypes
  <2>2. x7' \subseteq Pl!ToServe
    BY <1>1, <1>3 DEF MatchTypes
  <2>. QED
    BY <1>1, <1>6, <1>7, <2>1, <2>2 DEF MatchTypes
<1>9. /\ Gap(n)' = Gap(n) - a /\ Gap(n)' \in Int
      /\ \A m : m # n => Gap(m)' = Gap(m)
  <2>1. Pl!Shortfall(n) \in Nat /\ PlannedOf(x8, n) \in Nat
    BY <1>1, <1>2, GapFacts
  <2>. QED
    BY <1>4, <1>6, <1>7, <2>1 DEF Gap
<1>10. /\ x6'[s] = x6[s] - a /\ \A t \in MatchSources : t # s => x6'[t] = x6[t]
  BY <1>1, <1>2, <1>3 DEF MatchTypes
<1>11. WithinLimits'
  <2>1. \A t \in MatchSources : GivenOf(x8, t)' + x6'[t] = x5[t].capacity
    <3>1. \A t \in MatchSources :
            GivenOf(x8, t) \in Int /\ x6[t] \in Int /\ x5[t].capacity \in Int /\ GivenOf(x8, t) + x6[t] = x5[t].capacity
      BY <1>1, GapFacts DEF WithinLimits, MatchTypes
    <3>2. GivenOf(x8, s)' + x6'[s] = x5[s].capacity
      BY <1>2, <1>4, <1>6, <1>10, <3>1
    <3>3. \A t \in MatchSources : t # s => GivenOf(x8, t)' + x6'[t] = x5[t].capacity
      BY <1>6, <1>10, <3>1
    <3>. QED
      BY <3>2, <3>3
  <2>2. \A m \in MatchNeeders : Gap(m)' >= 0
    BY <1>1, <1>2, <1>4, <1>9 DEF WithinLimits
  <2>3. \A m \in x7' : Gap(m)' > 0
    BY <1>1, <1>2, <1>3, <1>4, <1>9 DEF WithinLimits
  <2>4. \A i \in DOMAIN x8' : x8'[i].needer \in x5[x8'[i].source].serves
    <3>1. x8 \in Seq(Pl!MatchRecords)
      BY <1>1 DEF MatchTypes
    <3>2. \A i \in DOMAIN x8' : x8'[i] = e \/ (i \in DOMAIN x8 /\ x8'[i] = x8[i])
      BY <1>3, <1>5, <3>1
    <3>. QED
      BY <1>1, <1>2, <1>5, <3>2 DEF WithinLimits
  <2>. QED
    BY <2>1, <2>2, <2>3, <2>4 DEF WithinLimits
<1>12. OutOfReach'
  <2>1. \A t \in MatchSources : x6[t] = 0 => x6'[t] = 0
    BY <1>1, <1>2, <1>10
  <2>2. \A m : Pl!Eligible(m) = {} => Pl!Eligible(m)' = {}
    <3>1. \A t \in MatchSources : x6'[t] > 0 => x6[t] > 0
      BY <1>1, <1>2, <1>4, <1>8, <1>10 DEF MatchTypes
    <3>. QED
      BY <3>1 DEF Pl!Eligible
  <2>3. \E i \in DOMAIN x8' : x8'[i] = e
    <3>1. x8 \in Seq(Pl!MatchRecords)
      BY <1>1 DEF MatchTypes
    <3>. QED
      BY <1>3, <1>5, <3>1
  <2>4. \A i \in DOMAIN x8 : i \in DOMAIN x8' /\ x8'[i] = x8[i] /\ x8[i].source \in MatchSources
    <3>1. x8 \in Seq(Pl!MatchRecords)
      BY <1>1 DEF MatchTypes
    <3>2. \A i \in DOMAIN x8 : x8[i] \in Pl!MatchRecords
      BY <3>1
    <3>. QED
      BY <1>3, <1>5, <3>1, <3>2 DEF Pl!MatchRecords
  <2>5. ASSUME NEW m \in Pl!ToServe \ x7', Gap(m)' > 0
        PROVE  \/ Pl!Eligible(m)' = {}
               \/ x1 = "STOCK" /\ \E i \in DOMAIN x8' : x8'[i].needer = m /\ x6'[x8'[i].source] = 0
    <3>1. CASE m = n
      <4>1. a # Gap(n) /\ a = x6[s]
        BY <1>2, <1>4, <1>9, <2>5, <3>1
      <4>2. x1 = "STOCK"
        BY <1>3, <2>5, <3>1, <4>1
      <4>3. x6'[s] = 0
        BY <1>2, <1>10, <4>1
      <4>. QED
        BY <1>5, <2>3, <3>1, <4>2, <4>3
    <3>2. CASE m # n
      <4>1. m \in Pl!ToServe \ x7 /\ Gap(m) > 0
        BY <1>3, <1>9, <2>5, <3>2
      <4>. QED
        BY <1>1, <2>1, <2>2, <2>4, <4>1 DEF OutOfReach
    <3>. QED
      BY <3>1, <3>2
  <2>. QED
    BY <1>7, <2>5 DEF OutOfReach
<1>13. TotalsAgree'
  <2>1. AmountSum(x8, DOMAIN x8) \in Int
    BY <1>1, GapFacts
  <2>2. Tr!Sum(x6, MatchSources)' = Tr!Sum(x6, MatchSources) - a /\ Tr!Sum(x6, MatchSources) \in Int
    <3>1. \A t \in MatchSources : x6[t] \in Int /\ x6'[t] \in Int
      BY <1>1, <1>8 DEF MatchTypes
    <3>2. Tr!IsFiniteSet(MatchSources)
      BY <1>1, GapFacts
    <3>3. Tr!Sum(x6', MatchSources) = Tr!Sum(x6, MatchSources) - x6[s] + x6'[s]
      BY <1>2, <1>10, <3>1, <3>2, Tr!SumChange
    <3>4. Tr!Sum(x6, MatchSources) \in Int
      BY <3>1, <3>2, Tr!SumType
    <3>. QED
      BY <1>2, <1>4, <1>10, <3>3, <3>4
  <2>3. Tr!Sum(Gaps, Pl!ToServe)' = Tr!Sum(Gaps, Pl!ToServe) - a /\ Tr!Sum(Gaps, Pl!ToServe) \in Int
    <3>1. Tr!IsFiniteSet(Pl!ToServe) /\ \A m \in Pl!ToServe : Gap(m) \in Int
      BY <1>1, GapFacts
    <3>2. \A m \in Pl!ToServe : Gaps[m] = Gap(m) /\ Gaps'[m] = Gap(m)'
      BY <1>7 DEF Gaps
    <3>3. \A m \in Pl!ToServe : Gaps[m] \in Int /\ Gaps'[m] \in Int /\ (m # n => Gaps'[m] = Gaps[m])
      BY <1>9, <3>1, <3>2
    <3>4. Gaps'[n] = Gaps[n] - a
      BY <1>2, <1>9, <3>2
    <3>5. Tr!Sum(Gaps', Pl!ToServe) = Tr!Sum(Gaps, Pl!ToServe) - Gaps[n] + Gaps'[n]
      BY <1>2, <3>1, <3>3, Tr!SumChange
    <3>6. Tr!Sum(Gaps, Pl!ToServe) \in Int
      BY <3>1, <3>3, Tr!SumType
    <3>7. Tr!Sum(Gaps', Pl!ToServe) = Tr!Sum(Gaps, Pl!ToServe) - a
      BY <1>2, <1>4, <3>3, <3>4, <3>5, <3>6
    <3>. QED
      BY <1>7, <3>6, <3>7
  <2>4. Capacities' = Capacities /\ Shortfalls' = Shortfalls
    BY <1>7 DEF Capacities, Shortfalls
  <2>5. a \in Int
    BY <1>4
  <2>6. /\ AmountSum(x8, DOMAIN x8)' + Tr!Sum(x6, MatchSources)' = AmountSum(x8, DOMAIN x8) + Tr!Sum(x6, MatchSources)
        /\ AmountSum(x8, DOMAIN x8)' + Tr!Sum(Gaps, Pl!ToServe)' = AmountSum(x8, DOMAIN x8) + Tr!Sum(Gaps, Pl!ToServe)
    BY <1>6, <2>1, <2>2, <2>3, <2>5
  <2>. QED
    BY <1>1, <1>7, <2>4, <2>6 DEF TotalsAgree
<1>. QED
  BY <1>8, <1>11, <1>12, <1>13 DEF MatchInv

\* A need is given up.
LEMMA GivenUp ==
  ASSUME MatchInv, NEW n \in x7, Pl!Eligible(n) = {}, x7' = x7 \ {n}, UNCHANGED <<x1, x2, x3, x4, x5, x6, x8>>
  PROVE  MatchInv'
<1>1. Pl!ToServe' = Pl!ToServe /\ \A m : Pl!Shortfall(m)' = Pl!Shortfall(m) /\ Gap(m)' = Gap(m) /\ Pl!Eligible(m)' = Pl!Eligible(m)
  BY DEF Pl!ToServe, Pl!Shortfall, Pl!LowStock, Gap, Pl!Eligible
<1>2. MatchTypes'
  BY <1>1 DEF MatchInv, MatchTypes
<1>3. WithinLimits'
  BY <1>1 DEF MatchInv, WithinLimits
<1>4. OutOfReach'
  <2>1. \A m \in Pl!ToServe \ x7' : m = n \/ m \in Pl!ToServe \ x7
    OBVIOUS
  <2>. QED
    BY <1>1, <2>1 DEF MatchInv, OutOfReach
<1>5. TotalsAgree'
  BY <1>1 DEF MatchInv, TotalsAgree, Gaps, Shortfalls, Capacities
<1>. QED
  BY <1>2, <1>3, <1>4, <1>5 DEF MatchInv

LEMMA MatchesStep ==
  ASSUME MatchInv, Pl!Next \/ UNCHANGED <<x1, x2, x3, x4, x5, x6, x7, x8>>
  PROVE  MatchInv'
<1>1. ASSUME NEW n \in MatchNeeders, Pl!Serve(n) PROVE MatchInv'
  <2>1. n \in x7 /\ UNCHANGED <<x1, x2, x3, x4, x5>>
    BY <1>1 DEF Pl!Serve
  <2>2. CASE \E s \in Pl!Eligible(n) : Pl!Match(n, s)
    BY <2>1, <2>2, MatchStep
  <2>3. CASE Pl!Eligible(n) = {} /\ x7' = x7 \ {n} /\ UNCHANGED <<x6, x8>>
    BY <2>1, <2>3, GivenUp
  <2>. QED
    BY <1>1, <2>2, <2>3 DEF Pl!Serve
<1>2. CASE UNCHANGED <<x1, x2, x3, x4, x5, x6, x7, x8>>
  <2>1. Pl!ToServe' = Pl!ToServe /\ \A m : Pl!Shortfall(m)' = Pl!Shortfall(m) /\ Gap(m)' = Gap(m) /\ Pl!Eligible(m)' = Pl!Eligible(m)
    BY <1>2 DEF Pl!ToServe, Pl!Shortfall, Pl!LowStock, Gap, Pl!Eligible
  <2>2. (MatchTypes /\ WithinLimits /\ OutOfReach)'
    BY <1>2, <2>1 DEF MatchInv, MatchTypes, WithinLimits, OutOfReach
  <2>3. TotalsAgree'
    BY <1>2, <2>1 DEF MatchInv, TotalsAgree, Gaps, Shortfalls, Capacities
  <2>. QED
    BY <2>2, <2>3 DEF MatchInv
<1>. QED
  BY <1>1, <1>2 DEF Pl!Next

LEMMA MatchesFeasible ==
  ASSUME MatchInv
  PROVE  Pl!PlanIsFeasible
<1>1. MatchTypes /\ WithinLimits /\ OutOfReach /\ TotalsAgree
  BY DEF MatchInv
<1>2. \A n : Pl!Short(n) = Gap(n)
  BY <1>1, ShortIsGap
<1>3. ASSUME NEW T, T \subseteq DOMAIN x8 PROVE Pl!Amounted(T) = AmountSum(x8, T)
  <2>1. x8 \in Seq(Pl!MatchRecords)
    BY <1>1 DEF MatchTypes
  <2>. QED
    BY <1>3, <2>1, MatchesFinite, AmountedIsSum
<1>4. (\A n : Pl!Planned(n) = PlannedOf(x8, n)) /\ (\A s : Pl!Given(s) = GivenOf(x8, s))
  <2>1. /\ \A n : {i \in DOMAIN x8 : x8[i].needer = n} \subseteq DOMAIN x8
        /\ \A s : {i \in DOMAIN x8 : x8[i].source = s} \subseteq DOMAIN x8
    OBVIOUS
  <2>. QED
    BY <1>3, <2>1 DEF Pl!Planned, Pl!Given, PlannedOf, GivenOf
<1>5. \A s \in MatchSources : Pl!Given(s) + x6[s] = x5[s].capacity
  BY <1>1, <1>4 DEF WithinLimits
<1>6. \A n \in MatchNeeders : Pl!Planned(n) <= Pl!Shortfall(n)
  BY <1>1, <1>4, GapFacts DEF WithinLimits, Gap
<1>7. x7 = {} =>
        \A n \in Pl!ToServe : Pl!Short(n) > 0 =>
          \/ Pl!Eligible(n) = {}
          \/ x1 = "STOCK" /\ \E i \in DOMAIN x8 : x8[i].needer = n /\ x6[x8[i].source] = 0
  BY <1>1, <1>2 DEF OutOfReach
<1>. DEFINE requested == Tr!Sum(Shortfalls, Pl!ToServe)
            planned == AmountSum(x8, DOMAIN x8)
            lacking == Tr!Sum(Gaps, Pl!ToServe)
            remaining == Tr!Sum(x6, MatchSources)
            capacity == Tr!Sum(Capacities, MatchSources)
<1>8. /\ Pl!SumFunction([n \in Pl!ToServe |-> Pl!Shortfall(n)]) = requested
      /\ Pl!Amounted(DOMAIN x8) = planned
      /\ Pl!SumFunctionOnSet(x6, MatchSources) = remaining
      /\ Pl!SumFunction([s \in MatchSources |-> x5[s].capacity]) = capacity
  BY <1>3, FunctionSum, WholeFunctionSum DEF Shortfalls, Capacities
<1>9. Pl!SumFunction([n \in Pl!ToServe |-> Pl!Draft(n).unmatched]) = lacking
  <2>1. [n \in Pl!ToServe |-> Pl!Draft(n).unmatched] = Gaps
    BY <1>2 DEF Pl!Draft, Gaps
  <2>2. DOMAIN Gaps = Pl!ToServe
    BY DEF Gaps
  <2>. QED
    BY <2>1, <2>2, WholeFunctionSum
<1>10. planned + remaining = capacity /\ planned + lacking = requested /\ planned \in Nat
  BY <1>1, GapFacts DEF TotalsAgree
<1>11. lacking \in Int /\ lacking >= 0
  <2>1. \A n \in Pl!ToServe : Gaps[n] \in Int /\ Gaps[n] >= 0
    BY <1>1, GapFacts DEF Gaps, WithinLimits
  <2>. QED
    BY <1>1, <2>1, GapFacts, Tr!SumType
<1>12. remaining \in Int
  <2>1. \A s \in MatchSources : x6[s] \in Int
    BY <1>1 DEF MatchTypes
  <2>. QED
    BY <1>1, <2>1, GapFacts, Tr!SumType
<1>. HIDE DEF requested, planned, lacking, remaining, capacity
<1>13. Pl!Plan = [requested |-> requested, planned |-> planned,
                  unmatched |-> IF requested > planned THEN requested - planned ELSE 0, remaining |-> remaining]
  BY <1>8 DEF Pl!Plan
<1>14. Pl!Plan.unmatched = lacking /\ Pl!Plan.remaining + Pl!Plan.planned = capacity
  BY <1>10, <1>11, <1>12, <1>13
<1>15. \A i \in DOMAIN x8 : x8[i].needer \in x5[x8[i].source].serves
  BY <1>1 DEF WithinLimits
<1>. QED
  BY <1>5, <1>6, <1>7, <1>8, <1>9, <1>14, <1>15 DEF Pl!PlanIsFeasible

\* A sum of smaller integers is smaller.
LEMMA SumStrict ==
  ASSUME NEW T, Tr!IsFiniteSet(T), T # {}, NEW h, NEW k, \A x \in T : h[x] \in Int /\ k[x] \in Int /\ h[x] < k[x]
  PROVE  Tr!Sum(h, T) < Tr!Sum(k, T)
<1>1. PICK y : y \in T
  OBVIOUS
<1>. DEFINE R == T \ {y}
<1>2. Tr!IsFiniteSet(R) /\ \A x \in R : h[x] \in Int /\ k[x] \in Int /\ h[x] <= k[x]
  BY TrFinite, FS_RemoveElement
<1>3. Tr!Sum(h, T) = h[y] + Tr!Sum(h, R) /\ Tr!Sum(k, T) = k[y] + Tr!Sum(k, R)
  BY <1>1, Tr!SumWithout
<1>. HIDE DEF R
<1>4. Tr!Sum(h, R) <= Tr!Sum(k, R) /\ Tr!Sum(h, R) \in Int /\ Tr!Sum(k, R) \in Int
  BY <1>2, Tr!SumLess, Tr!SumType
<1>. QED
  BY <1>1, <1>3, <1>4

\* The coverage of one agent.
LEMMA CoverageFloor ==
  ASSUME NEW h \in Nat, NEW w \in Nat \ {0}
  PROVE  /\ Pl!Coverage(h, w) \in Nat
         /\ \A q \in Nat : q <= Pl!Coverage(h, w) <=> q * (2 * w) <= 2000 * h + w
<1>1. 2 * 1000 * h + w = 2000 * h + w /\ 2000 * h + w \in Nat /\ 2 * w \in Nat /\ 2 * w > 0
  OBVIOUS
<1>2. Pl!Coverage(h, w) = (2000 * h + w) \div (2 * w)
  BY <1>1 DEF Pl!Coverage
<1>. QED
  BY <1>1, <1>2, Floor

LEMMA ClassesAgree ==
  ASSUME MatchInv
  PROVE  Pl!ClassAgreesWithShortfall
<1>. DEFINE agent(n) == Pl!Coverage(x2[n], x3[n])
            H == Tr!Sum(x2, MatchNeeders)
            W == Tr!Sum(x3, MatchNeeders)
            q == Pl!Coverage(H, W)
            A == [n \in MatchNeeders |-> 2000 * x2[n] + x3[n]]
            D == [n \in MatchNeeders |-> 2 * x3[n] + 0]
            B(p) == [n \in MatchNeeders |-> p * D[n] + 0]
            zero == [n \in MatchNeeders |-> 0]
<1>1. /\ \A n \in MatchNeeders : x2[n] \in Nat /\ x3[n] \in Nat \ {0}
      /\ Tr!IsFiniteSet(MatchNeeders)
  BY GapFacts DEF MatchInv, MatchTypes
<1>2. ASSUME NEW n \in MatchNeeders
      PROVE  /\ Pl!CoverageState(agent(n)) \in {"REBALANCE", "CRITICAL"} => Pl!Shortfall(n) > 0
             /\ Pl!CoverageState(agent(n)) \in {"HEALTHY", "WATCH"} => 2000 * Pl!Shortfall(n) <= x3[n]
  <2>. DEFINE c == agent(n)
              h == x2[n]
              w == x3[n]
  <2>1. h \in Nat /\ w \in Nat \ {0}
    BY <1>1
  <2>2. c \in Nat /\ (1000 <= c <=> 1000 * (2 * w) <= 2000 * h + w)
    <3>. HIDE DEF h, w
    <3>1. Pl!Coverage(h, w) \in Nat /\ (1000 <= Pl!Coverage(h, w) <=> 1000 * (2 * w) <= 2000 * h + w)
      BY <2>1, CoverageFloor
    <3>. QED
      BY <3>1 DEF h, w
  <2>3. Pl!Shortfall(n) = IF w > h THEN w - h ELSE 0
    BY DEF Pl!Shortfall
  <2>. HIDE DEF c, h, w
  <2>4. /\ Pl!CoverageState(c) \in {"REBALANCE", "CRITICAL"} => ~(1000 <= c)
        /\ Pl!CoverageState(c) \in {"HEALTHY", "WATCH"} => 1000 <= c
    BY <2>2 DEF Pl!CoverageState
  <2>5. ~(1000 <= c) => Pl!Shortfall(n) > 0
    BY <2>1, <2>2, <2>3
  <2>6. 1000 <= c => 2000 * Pl!Shortfall(n) <= w
    BY <2>1, <2>2, <2>3
  <2>. QED
    BY <2>4, <2>5, <2>6 DEF c, w
<1>3. H \in Nat /\ W \in Nat \ {0}
  <2>1. PICK n : n \in MatchNeeders
    BY HubAssumption
  <2>2. H \in Nat
    BY <1>1, Tr!SumType
  <2>3. Tr!Sum(x3, MatchNeeders) = x3[n] + Tr!Sum(x3, MatchNeeders \ {n})
    BY <1>1, <2>1, Tr!SumWithout
  <2>4. Tr!Sum(x3, MatchNeeders \ {n}) \in Nat
    <3>1. Tr!IsFiniteSet(MatchNeeders \ {n}) /\ \A m \in MatchNeeders \ {n} : x3[m] \in Nat
      BY <1>1, TrFinite, FS_RemoveElement
    <3>. QED
      BY <3>1, Tr!SumType
  <2>. QED
    BY <1>1, <2>1, <2>2, <2>3, <2>4
<1>4. Tr!Sum(A, MatchNeeders) = 2000 * H + W
  <2>1. \A n \in MatchNeeders : x2[n] \in Int /\ x3[n] \in Int /\ A[n] = 2000 * x2[n] + x3[n]
    BY <1>1
  <2>. HIDE DEF A
  <2>. QED
    BY <1>1, <2>1, Tr!SumLinear
<1>5. Tr!Sum(zero, MatchNeeders) = 0
  <2>1. \A n \in MatchNeeders : zero[n] \in Int /\ zero[n] = 1 * zero[n] + zero[n]
    OBVIOUS
  <2>. HIDE DEF zero
  <2>2. Tr!Sum(zero, MatchNeeders) = 1 * Tr!Sum(zero, MatchNeeders) + Tr!Sum(zero, MatchNeeders)
    BY <1>1, <2>1, Tr!SumLinear
  <2>3. Tr!Sum(zero, MatchNeeders) \in Int
    BY <1>1, <2>1, Tr!SumType
  <2>. DEFINE s == Tr!Sum(zero, MatchNeeders)
  <2>. HIDE DEF s
  <2>4. s \in Int /\ s = 1 * s + s
    BY <2>2, <2>3 DEF s
  <2>5. s = 0
    BY <2>4
  <2>. QED
    BY <2>5 DEF s
<1>6. Tr!Sum(D, MatchNeeders) = 2 * W /\ \A n \in MatchNeeders : D[n] = 2 * x3[n] /\ D[n] \in Int
  <2>1. \A n \in MatchNeeders : x3[n] \in Int /\ zero[n] = 0 /\ D[n] = 2 * x3[n] + zero[n]
    BY <1>1
  <2>2. \A n \in MatchNeeders : D[n] = 2 * x3[n] /\ D[n] \in Int
    BY <1>1
  <2>. HIDE DEF D, zero
  <2>3. Tr!Sum(D, MatchNeeders) = 2 * W + Tr!Sum(zero, MatchNeeders)
    BY <1>1, <2>1, Tr!SumLinear
  <2>. HIDE DEF W
  <2>. QED
    BY <1>3, <1>5, <2>2, <2>3
<1>. HIDE DEF D
<1>7. ASSUME NEW p \in Nat
      PROVE  /\ Tr!Sum(B(p), MatchNeeders) = p * (2 * W)
             /\ \A n \in MatchNeeders : B(p)[n] = p * (2 * x3[n]) /\ B(p)[n] \in Int
  <2>1. \A n \in MatchNeeders : D[n] \in Int /\ zero[n] \in Int /\ B(p)[n] = p * D[n] + zero[n]
    BY <1>6
  <2>2. \A n \in MatchNeeders : B(p)[n] = p * (2 * x3[n]) /\ B(p)[n] \in Int
    <3>1. \A m \in Int : p * m + 0 = p * m /\ p * m \in Int
      OBVIOUS
    <3>. QED
      BY <1>6, <3>1
  <2>. HIDE DEF B, zero
  <2>3. Tr!Sum(B(p), MatchNeeders) = p * Tr!Sum(D, MatchNeeders) + Tr!Sum(zero, MatchNeeders)
    BY <1>1, <2>1, Tr!SumLinear
  <2>. HIDE DEF W
  <2>4. p * (2 * W) \in Int /\ p * (2 * W) + 0 = p * (2 * W)
    BY <1>3
  <2>. QED
    BY <1>5, <1>6, <2>2, <2>3, <2>4
<1>8. q \in Nat /\ \A p \in Nat : p <= q <=> p * (2 * W) <= 2000 * H + W
  <2>. HIDE DEF H, W
  <2>. QED
    BY <1>3, CoverageFloor
<1>9. \A n \in MatchNeeders : agent(n) \in Nat /\ A[n] \in Int /\ \A p \in Nat : p <= agent(n) <=> B(p)[n] <= A[n]
  <2>1. ASSUME NEW n \in MatchNeeders
        PROVE  agent(n) \in Nat /\ A[n] \in Int /\ \A p \in Nat : p <= agent(n) <=> p * (2 * x3[n]) <= A[n]
    <3>. DEFINE h == x2[n]
                w == x3[n]
    <3>1. h \in Nat /\ w \in Nat \ {0} /\ A[n] = 2000 * h + w
      BY <1>1
    <3>. HIDE DEF h, w, A
    <3>2. Pl!Coverage(h, w) \in Nat /\ \A p \in Nat : p <= Pl!Coverage(h, w) <=> p * (2 * w) <= 2000 * h + w
      BY <3>1, CoverageFloor
    <3>. QED
      BY <3>1, <3>2 DEF h, w
  <2>. HIDE DEF B, agent, A
  <2>. QED
    BY <1>7, <2>1
<1>. HIDE DEF A, B, q, agent, H, W
<1>10. \E n \in MatchNeeders : agent(n) <= q
  <2>1. SUFFICES ASSUME \A n \in MatchNeeders : ~(agent(n) <= q) PROVE FALSE
    OBVIOUS
  <2>2. q + 1 \in Nat /\ \A n \in MatchNeeders : q + 1 <= agent(n)
    BY <1>8, <1>9, <2>1
  <2>3. \A n \in MatchNeeders : B(q + 1)[n] \in Int /\ A[n] \in Int /\ B(q + 1)[n] <= A[n]
    BY <1>7, <1>9, <2>2
  <2>4. Tr!Sum(B(q + 1), MatchNeeders) <= Tr!Sum(A, MatchNeeders)
    BY <1>1, <2>3, Tr!SumLess
  <2>5. (q + 1) * (2 * W) <= 2000 * H + W
    BY <1>4, <1>7, <2>2, <2>4
  <2>6. q + 1 <= q
    BY <1>8, <2>2, <2>5
  <2>. QED
    BY <1>8, <2>6
<1>11. \E n \in MatchNeeders : agent(n) >= q
  <2>1. SUFFICES ASSUME \A n \in MatchNeeders : ~(agent(n) >= q) PROVE FALSE
    OBVIOUS
  <2>2. \A n \in MatchNeeders : A[n] \in Int /\ B(q)[n] \in Int /\ A[n] < B(q)[n]
    BY <1>7, <1>8, <1>9, <2>1
  <2>3. Tr!Sum(A, MatchNeeders) < Tr!Sum(B(q), MatchNeeders)
    BY <1>1, <2>2, HubAssumption, SumStrict
  <2>4. 2000 * H + W < q * (2 * W)
    BY <1>4, <1>7, <1>8, <2>3
  <2>5. q * (2 * W) <= 2000 * H + W
    BY <1>8
  <2>6. q * (2 * W) \in Int /\ 2000 * H + W \in Int
    BY <1>3, <1>8
  <2>. QED
    BY <2>4, <2>5, <2>6
<1>12. Pl!NetworkCoverage = q
  BY FunctionSum DEF Pl!NetworkCoverage, q, H, W
<1>. QED
  BY <1>2, <1>10, <1>11, <1>12 DEF Pl!ClassAgreesWithShortfall, agent

\* Both planners, whatever the amounts: no source is planned beyond its capacity and no
\* need beyond its shortfall, whoever still lacks something could not be served by anyone,
\* the totals are those of the drafts, and the coverage that is rounded to a tenth of a
\* percent agrees with the shortfall, of the network no better and no worse than of its agents.
THEOREM PlansStayFeasible == HubSpec => []PlanIsFeasible
<1>. DEFINE Inv == moving = "matches" => MatchInv
<1>1. HubInit => Inv
  BY MatchInit DEF HubInit
<1>2. Inv /\ [HubNext]_hubVars => Inv'
  <2>1. SUFFICES ASSUME moving = "matches" => MatchInv, moving = "matches", moving' = "matches",
                        Pl!Next \/ UNCHANGED <<x1, x2, x3, x4, x5, x6, x7, x8>>
                 PROVE  MatchInv'
    BY DEF HubNext, hubVars
  <2>. QED
    BY <2>1, MatchesStep
<1>3. Inv => PlanIsFeasible
  BY MatchesFeasible, ClassesAgree DEF PlanIsFeasible
<1>. HIDE DEF Inv
<1>. QED
  BY <1>1, <1>2, <1>3, PTL DEF HubSpec
-----------------------------------------------------------------------------
\* The types of the parts.
LEMMA CountOfAtMostOne ==
  ASSUME NEW S, \A q, r \in S : q = r
  PROVE  Cardinality(S) <= 1
<1>1. CASE S = {}
  <2>1. Cardinality({}) = 0
    BY FS_EmptySet
  <2>. QED
    BY <1>1, <2>1
<1>2. ASSUME NEW r \in S PROVE Cardinality(S) <= 1
  <2>1. S = {r}
    BY <1>2
  <2>2. Cardinality({r}) = 1
    BY FS_Singleton
  <2>. QED
    BY <2>1, <2>2
<1>. QED
  BY <1>1, <1>2
-----------------------------------------------------------------------------
\* The types of the stores, calls and pages.
LEMMA PreorderTypes ==
  ASSUME Te!TypeOK, Te!Next
  PROVE  Te!TypeOK'
<1>. DEFINE Memory == [revision : Nat, records : SUBSET Preorders]
<1>1. x1 \in Memory /\ x2 \in [PreorderStores -> Memory] /\ x3 \subseteq Preorders /\ x4 \in 0..PreorderFaults
  BY DEF Te!TypeOK
<1>2. PreorderFaults \in Nat
  BY HubAssumption
<1>3. PICK s \in PreorderStores :
        (\E request \in Preorders : Te!Reserve(s, request) \/ Te!ReserveFails(s, request) \/ Te!Answer(s, request))
        \/ Te!Reopen(s)
  BY DEF Te!Next
<1>4. ASSUME NEW request \in Preorders, Te!Save(s, request) PROVE x1' \in Memory
  <2>1. x2[s] \in Memory
    BY <1>1
  <2>. QED
    BY <1>4, <2>1 DEF Te!Save, Te!Candidate
<1>5. ASSUME NEW request \in Preorders, Te!Reserve(s, request) PROVE Te!TypeOK'
  BY <1>1, <1>4, <1>5 DEF Te!Reserve, Te!TypeOK
<1>6. ASSUME NEW request \in Preorders, Te!ReserveFails(s, request) PROVE Te!TypeOK'
  <2>1. x1' \in Memory
    BY <1>1, <1>4, <1>6 DEF Te!ReserveFails
  <2>. QED
    BY <1>1, <1>2, <1>6, <2>1 DEF Te!ReserveFails, Te!TypeOK
<1>7. ASSUME NEW request \in Preorders, Te!Answer(s, request) PROVE Te!TypeOK'
  BY <1>1, <1>7 DEF Te!Answer, Te!TypeOK
<1>8. CASE Te!Reopen(s)
  BY <1>1, <1>2, <1>8 DEF Te!Reopen, Te!TypeOK
<1>. QED
  BY <1>3, <1>5, <1>6, <1>7, <1>8

LEMMA FetchTypes ==
  ASSUME Fe!TypeOK, Fe!Next
  PROVE  Fe!TypeOK'
<1>. USE DEF Fe!TypeOK, Fe!Errors
<1>1. CASE Fe!Begin
  BY <1>1 DEF Fe!Begin, Fe!Settle
<1>2. CASE Fe!Fire
  BY <1>2 DEF Fe!Fire
<1>3. CASE Fe!FetchRejects
  BY <1>3 DEF Fe!FetchRejects, Fe!Settle
<1>4. CASE Fe!Headers
  BY <1>4 DEF Fe!Headers, Fe!Refuse, Fe!Settle
<1>5. ASSUME NEW size \in FetchChunks, Fe!Chunk(size) PROVE Fe!TypeOK'
  <2>1. size \in Nat /\ x5' = x5 + size /\ x5' \in Nat /\ x6 + size \in Nat
    BY <1>5, HubAssumption DEF Fe!Chunk
  <2>. QED
    BY <1>5, <2>1 DEF Fe!Chunk, Fe!Settle
<1>6. CASE Fe!End
  BY <1>6 DEF Fe!End, Fe!Settle
<1>7. CASE Fe!ReadFails
  BY <1>7 DEF Fe!ReadFails, Fe!Settle
<1>. QED
  BY <1>1, <1>2, <1>3, <1>4, <1>5, <1>6, <1>7 DEF Fe!Next

LEMMA OnboardingTypes ==
  ASSUME On!TypeOK, On!Next
  PROVE  On!TypeOK'
<1>. DEFINE Organization == [state : On!OrganizationStates, path : On!Paths,
                             environment : {"synthetic", "sandbox"}, evidenced : BOOLEAN]
<1>1. /\ x1 \in Organization /\ x2 \in [OnboardingCapabilities -> CapabilityType]
      /\ x3 \in 1..OnboardingDecisions /\ x4 \in [OnboardingCapabilities -> Seq(Decisions)]
  BY DEF On!TypeOK, CapabilityType, Decisions
<1>2. On!Decide => x3' \in 1..OnboardingDecisions
  <2>. SUFFICES ASSUME x3 < OnboardingDecisions, x3' = x3 + 1 PROVE x3' \in 1..OnboardingDecisions
    BY DEF On!Decide
  <2>1. OnboardingDecisions \in Nat
    BY HubAssumption
  <2>2. x3 \in Nat /\ x3 >= 1
    BY <1>1
  <2>. HIDE DEF Organization
  <2>. QED
    BY <2>1, <2>2
<1>3. ASSUME NEW c \in OnboardingCapabilities, NEW next \in CapabilityType, NEW decision \in Decisions,
             On!Decide, On!Change(c, next, decision)
      PROVE  On!TypeOK'
  <2>1. Append(x4[c], decision) \in Seq(Decisions)
    BY <1>1
  <2>2. x2' \in [OnboardingCapabilities -> CapabilityType] /\ x4' \in [OnboardingCapabilities -> Seq(Decisions)]
    BY <1>1, <1>3, <2>1 DEF On!Change
  <2>. QED
    BY <1>1, <1>2, <1>3, <2>2 DEF On!Change, On!TypeOK, CapabilityType, Decisions
<1>4. ASSUME NEW role, NEW target \in On!OrganizationStates, On!Transition(role, target) PROVE On!TypeOK'
  <2>1. x1' = [x1 EXCEPT !.state = target] /\ x2' = x2 /\ x4' = x4 /\ On!Decide
    BY <1>4 DEF On!Transition
  <2>2. x1' \in Organization
    BY <1>1, <2>1
  <2>. QED
    BY <1>1, <1>2, <2>1, <2>2 DEF On!TypeOK, CapabilityType, Decisions
<1>5. ASSUME NEW role, NEW c \in OnboardingCapabilities, NEW mode \in On!RuntimeModes, On!Bind(role, c, mode)
      PROVE  On!TypeOK'
  <2>. DEFINE next == [state |-> "CONFIGURED", binding |-> {mode}, certified |-> FALSE, eligible |-> FALSE]
  <2>1. next \in CapabilityType /\ mode \in Decisions /\ On!Decide /\ On!Change(c, next, mode)
    BY <1>5 DEF On!Bind, CapabilityType, On!CapabilityStates, Decisions
  <2>. HIDE DEF next
  <2>. QED
    BY <1>3, <2>1
<1>6. ASSUME NEW c \in OnboardingCapabilities, On!Certify(c) PROVE On!TypeOK'
  <2>. DEFINE executable == "EXECUTABLE" \in x2[c].binding /\ x1.environment # "synthetic"
              next == [x2[c] EXCEPT !.state = "SANDBOX_CERTIFIED", !.certified = TRUE, !.eligible = executable]
  <2>1. On!Decide /\ On!Change(c, next, "CERTIFIED") /\ "CERTIFIED" \in Decisions
    BY <1>6 DEF On!Certify, Decisions
  <2>2. x2[c] \in CapabilityType /\ executable \in BOOLEAN
    BY <1>1
  <2>. HIDE DEF executable
  <2>3. next \in CapabilityType
    BY <2>2, CertifiedCapability
  <2>. HIDE DEF next
  <2>. QED
    BY <1>3, <2>1, <2>3
<1>7. ASSUME NEW c \in OnboardingCapabilities, On!Suspend(c) PROVE On!TypeOK'
  <2>. DEFINE next == [x2[c] EXCEPT !.state = "SUSPENDED", !.eligible = FALSE]
  <2>1. On!Decide /\ On!Change(c, next, "SUSPENDED") /\ "SUSPENDED" \in Decisions
    BY <1>7 DEF On!Suspend, Decisions
  <2>2. x2[c] \in CapabilityType
    BY <1>1
  <2>3. next \in CapabilityType
    BY <2>2, SuspendedCapability
  <2>. HIDE DEF next
  <2>. QED
    BY <1>3, <2>1, <2>3
<1>. QED
  BY <1>4, <1>5, <1>6, <1>7 DEF On!Next

\* The page remembers sessions that there are.
PageBounds ==
  /\ Len(x1) <= PageSessions /\ x2 \in 0..PageSessions
  /\ x3 # 0 => x3 \in DOMAIN x1
  /\ x4 \in AnyRole \cup {"none"}

LEMMA PageTypes ==
  ASSUME PageNow, PageBounds, Br!Next
  PROVE  PageBounds'
<1>1. /\ x1 \in Seq(Session) /\ \A c \in PageCalls : x6[c].stage \in {"started", "found"} => x6[c].session \in DOMAIN x1
      /\ PageSessions \in Nat
  BY HubAssumption DEF PageNow, Page, InRole
<1>2. ASSUME NEW s \in DOMAIN x1, Br!Remember(s) PROVE x3' \in DOMAIN x1 /\ x4' \in AnyRole
  <2>1. x1[s] \in Session
    BY <1>1, <1>2
  <2>. QED
    BY <1>2, <2>1 DEF Br!Remember, Session
<1>3. ASSUME NEW c \in PageCalls, Br!Started(c) \/ Br!Found(c) PROVE PageBounds'
  <2>1. x6[c].session \in DOMAIN x1 /\ Br!Remember(x6[c].session) /\ UNCHANGED <<x1, x2>>
    BY <1>1, <1>3 DEF Br!Started, Br!Found
  <2>. QED
    BY <1>2, <2>1 DEF PageBounds
<1>4. ASSUME NEW c \in PageCalls, Br!Answer(c) PROVE PageBounds'
  <2>1. /\ Len(x1) < PageSessions /\ x2' = Len(x1) + 1 /\ UNCHANGED <<x3, x4>>
        /\ x1' = Append(x1, [role |-> x6[c].key.role, live |-> TRUE])
    BY <1>4 DEF Br!Answer
  <2>2. Len(x1) \in Nat /\ Len(x1') = Len(x1) + 1 /\ DOMAIN x1 \subseteq DOMAIN x1'
    BY <1>1, <2>1
  <2>. QED
    BY <1>1, <2>1, <2>2 DEF PageBounds
<1>5. ASSUME NEW s, Br!End(s) PROVE PageBounds'
  <2>1. x1' = [x1 EXCEPT ![s].live = FALSE] /\ UNCHANGED <<x2, x3, x4>>
    BY <1>5 DEF Br!End
  <2>2. Len(x1') = Len(x1) /\ DOMAIN x1' = DOMAIN x1
    BY <1>1, <2>1
  <2>. QED
    BY <2>1, <2>2 DEF PageBounds
<1>6. ASSUME NEW c \in PageCalls, Br!Handle(c) PROVE PageBounds'
  <2>1. UNCHANGED <<x1, x2>> /\ (UNCHANGED <<x3, x4>> \/ (x3' = 0 /\ x4' = "none"))
    BY <1>6 DEF Br!Handle
  <2>. QED
    BY <2>1 DEF PageBounds
<1>7. ASSUME NEW c \in PageCalls,
             (\E key \in PageKeys : Br!Begin(c, key) \/ Br!DemoApiAs(c, key))
             \/ Br!DemoApi(c) \/ Br!StartFails(c) \/ Br!Looked(c) \/ Br!RequestFails(c)
      PROVE  PageBounds'
  <2>1. UNCHANGED <<x1, x2, x3, x4>>
    BY <1>7 DEF Br!Begin, Br!DemoApiAs, Br!DemoApi, Br!StartFails, Br!Looked, Br!RequestFails, Br!Start
  <2>. QED
    BY <2>1 DEF PageBounds
<1>. QED
  BY <1>3, <1>4, <1>5, <1>6, <1>7 DEF Br!Next

LEMMA PageTyped ==
  ASSUME PageNow, PageBounds
  PROVE  Br!TypeOK
<1>1. x1 \in Seq(Session) /\ Len(x1) \in Nat /\ PageSessions \in Nat /\ PageAgentKey \in PageKeys
  BY HubAssumption DEF PageNow, Page
<1>2. x2 \in Br!Sessions /\ x3 \in Br!Sessions
  BY <1>1 DEF PageBounds, Br!Sessions
<1>3. x4 \in Br!Roles \cup {"none"}
  BY <1>1 DEF PageBounds, AnyRole, AnyKey, Br!Roles
<1>4. x5 \subseteq PageCalls /\ \A c \in PageCalls : x6[c].stage \in PageStages
  BY DEF PageNow, Page, InRole, PageCall
<1>. QED
  BY <1>2, <1>3, <1>4 DEF Br!TypeOK, PageStages
-----------------------------------------------------------------------------
\* The types of the shadow: no job has seen what was not written, nor keeps events
\* that were not recorded.
LEMMA ShadowCounts == \A S : Sn!Cardinality(S) = Cardinality(S)
BY DEF Sn!Cardinality, Cardinality

JobBounds(job, recorded) == job.seen \in [Sn!Stores -> 0..SnapshotVersions] /\ job.audit \subseteq 1..recorded

ShadowTypes ==
  /\ x1 \in [Sn!Stores -> 0..SnapshotVersions] /\ x2 \in 0..SnapshotEvents
  /\ x3 \in [Sn!Stores -> SUBSET Sn!Rows] /\ \A s \in Sn!Stores : Single(x3[s])
  /\ x4 \subseteq 1..x2 /\ x6 \subseteq Sn!Stores
  /\ \A j \in SnapshotWorkers : JobBounds(x5[j], x2)

LEMMA ShadowBounds ==
  /\ SnapshotStores \in Nat /\ SnapshotVersions \in Nat /\ SnapshotEvents \in Nat /\ SnapshotRevisions \in Nat \ {0}
  /\ Sn!Stores \subseteq Nat
BY HubAssumption DEF Sn!Stores

\* A job goes on.
LEMMA JobBoundsStay ==
  ASSUME SnapshotsNow, ShadowTypes, NEW j \in SnapshotWorkers, NEW next, x5' = [x5 EXCEPT ![j] = next],
         UNCHANGED x2, JobBounds(next, x2)
  PROVE  \A i \in SnapshotWorkers : JobBounds(x5'[i], x2')
<1>1. \A i \in SnapshotWorkers : x5'[i] = IF i = j THEN next ELSE x5[i]
  BY DEF SnapshotsNow, Snapshots
<1>. QED
  BY <1>1 DEF ShadowTypes, JobBounds

LEMMA JobTypesStay ==
  ASSUME SnapshotsNow, ShadowTypes, NEW j \in SnapshotWorkers, NEW next, Sn!To(j, next),
         UNCHANGED <<x1, x2, x3, x4, x6>>, JobBounds(next, x2)
  PROVE  ShadowTypes'
<1>1. \A i \in SnapshotWorkers : JobBounds(x5'[i], x2')
  BY JobBoundsStay DEF Sn!To
<1>. QED
  BY <1>1 DEF ShadowTypes

\* Which of them a job has is a store.
LEMMA FirstStore ==
  ASSUME NEW S, S \subseteq Sn!Stores, S # {}
  PROVE  Sn!First(S) \in S
<1>1. \E n \in S : \A m \in S : n <= m
  BY ShadowBounds, Tr!LeastElement
<1>. QED
  BY <1>1 DEF Sn!First

LEMMA RowInRows ==
  ASSUME NEW n \in 1..SnapshotRevisions, NEW v \in 0..SnapshotVersions, NEW k \in {Sn!FileKind, Sn!PostgresKind}
  PROVE  Sn!Row(n, v, k) \in Sn!Rows
BY DEF Sn!Rows

LEMMA RowTypes ==
  ASSUME ShadowTypes, NEW s, NEW new \in Sn!Rows, x3' = [x3 EXCEPT ![s] = {new}]
  PROVE  x3' \in [Sn!Stores -> SUBSET Sn!Rows] /\ \A t \in Sn!Stores : Single(x3'[t])
<1>1. \A t \in Sn!Stores : x3'[t] = IF t = s THEN {new} ELSE x3[t]
  BY DEF ShadowTypes
<1>2. \A t \in Sn!Stores : Single(x3'[t])
  BY <1>1 DEF ShadowTypes, Single
<1>. QED
  BY <1>1, <1>2 DEF ShadowTypes

LEMMA OthersTypes ==
  ASSUME SnapshotsNow, ShadowTypes, (\E s \in Sn!Stores : Sn!SaveFile(s) \/ Sn!PostgresWrites(s)) \/ Sn!RecordEvent
  PROVE  ShadowTypes'
<1>1. ASSUME NEW s \in Sn!Stores, Sn!SaveFile(s) PROVE ShadowTypes'
  <2>1. x1' = [x1 EXCEPT ![s] = x1[s] + 1] /\ x1[s] < SnapshotVersions /\ UNCHANGED <<x2, x3, x4, x5, x6>>
    BY <1>1 DEF Sn!SaveFile
  <2>2. x1' \in [Sn!Stores -> 0..SnapshotVersions]
    BY <2>1, ShadowBounds DEF ShadowTypes
  <2>. QED
    BY <2>1, <2>2 DEF ShadowTypes, JobBounds
<1>2. CASE Sn!RecordEvent
  <2>1. x2' = x2 + 1 /\ x2 < SnapshotEvents /\ UNCHANGED <<x1, x3, x4, x5, x6>>
    BY <1>2 DEF Sn!RecordEvent
  <2>2. x2' \in 0..SnapshotEvents /\ 1..x2 \subseteq 1..x2'
    BY <2>1, ShadowBounds DEF ShadowTypes
  <2>. QED
    BY <2>1, <2>2 DEF ShadowTypes, JobBounds
<1>3. ASSUME NEW s \in Sn!Stores, Sn!PostgresWrites(s) PROVE ShadowTypes'
  <2>1. PICK new \in Sn!Rows : x3' = [x3 EXCEPT ![s] = {new}]
    <3>1. CASE x3' = [x3 EXCEPT ![s] = {Sn!Row(1, 0, Sn!PostgresKind)}]
      <4>1. 1 \in 1..SnapshotRevisions /\ 0 \in 0..SnapshotVersions
        BY ShadowBounds
      <4>. QED
        BY <3>1, <4>1, RowInRows
    <3>2. ASSUME NEW r \in x3[s], r.revision < SnapshotRevisions,
                 x3' = [x3 EXCEPT ![s] = {Sn!Row(r.revision + 1, 0, Sn!PostgresKind)}]
          PROVE  \E new \in Sn!Rows : x3' = [x3 EXCEPT ![s] = {new}]
      <4>1. r.revision \in 1..SnapshotRevisions
        BY DEF ShadowTypes, Sn!Rows, Sn!Row
      <4>2. r.revision + 1 \in 1..SnapshotRevisions /\ 0 \in 0..SnapshotVersions
        BY <3>2, <4>1, ShadowBounds
      <4>. QED
        BY <3>2, <4>2, RowInRows
    <3>. QED
      BY <1>3, <3>1, <3>2 DEF Sn!PostgresWrites
  <2>2. UNCHANGED <<x1, x2, x4, x5, x6>>
    BY <1>3 DEF Sn!PostgresWrites
  <2>. QED
    BY <2>1, <2>2, RowTypes DEF ShadowTypes, JobBounds
<1>. QED
  BY <1>1, <1>2, <1>3

LEMMA QuietTypes ==
  ASSUME SnapshotsNow, ShadowTypes, NEW j \in SnapshotWorkers,
         \/ \E operation \in Sn!Operations : Sn!Begin(j, operation)
         \/ Sn!ReadFile(j) \/ Sn!ReadAudit(j) \/ Sn!Plan(j) \/ Sn!Planned(j) \/ Sn!Load(j)
         \/ Sn!Written(j) \/ Sn!Appended(j) \/ Sn!Verify(j) \/ Sn!Throw(j)
  PROVE  ShadowTypes'
<1>1. x5[j] \in SnapshotJob /\ JobBounds(x5[j], x2) /\ x2 \in Nat /\ x1 \in [Sn!Stores -> 0..SnapshotVersions]
  BY JobTypes DEF ShadowTypes
<1>2. JobBounds(Sn!Idle, x2) /\ Sn!Idle \in SnapshotJob
  BY ShadowBounds DEF JobBounds, Sn!Idle, Sn!NothingSeen, Sn!NothingLoaded, SnapshotJob, SnapshotStages
<1>3. \A s : Sn!Done(j, s) \in SnapshotJob /\ JobBounds(Sn!Done(j, s), x2)
  BY <1>1, JobTypes DEF Sn!Done, JobBounds, SnapshotJob
<1>4. UNCHANGED <<x1, x2, x3, x4, x6>>
  BY DEF Sn!Begin, Sn!ReadFile, Sn!ReadAudit, Sn!Plan, Sn!Planned, Sn!Load, Sn!Written, Sn!Appended, Sn!Verify, Sn!Throw
<1>5. \E next : Sn!To(j, next) /\ JobBounds(next, x2)
  <2>1. ASSUME NEW operation \in Sn!Operations, Sn!Begin(j, operation) PROVE \E next : Sn!To(j, next) /\ JobBounds(next, x2)
    <3>. DEFINE next == [Sn!Idle EXCEPT !.operation = operation, !.stage = "discovering", !.todo = Sn!Stores]
    <3>1. JobBounds(next, x2)
      BY <1>2 DEF JobBounds, SnapshotJob
    <3>. QED
      BY <2>1, <3>1 DEF Sn!Begin
  <2>2. CASE Sn!ReadFile(j)
    <3>. DEFINE s == Sn!First(x5[j].todo)
                done == Sn!Done(j, s)
                next == [done EXCEPT !.seen[s] = x1[s]]
    <3>1. Sn!To(j, next)
      BY <2>2 DEF Sn!ReadFile
    <3>2. done \in SnapshotJob /\ JobBounds(done, x2)
      BY <1>3
    <3>. HIDE DEF done, s
    <3>3. JobBounds(next, x2)
      BY <1>1, <3>2 DEF JobBounds, SnapshotJob
    <3>. QED
      BY <3>1, <3>3
  <2>3. CASE Sn!ReadAudit(j)
    <3>. DEFINE stage == IF x5[j].operation = "sync" THEN "planning" ELSE "loading"
                next == [x5[j] EXCEPT !.stage = stage, !.todo = Sn!Present(j), !.audit = Sn!AuditFile]
    <3>1. Sn!To(j, next)
      BY <2>3 DEF Sn!ReadAudit
    <3>2. Sn!AuditFile \subseteq 1..x2
      BY DEF Sn!AuditFile
    <3>3. JobBounds(next, x2)
      BY <1>1, <3>2 DEF JobBounds, SnapshotJob
    <3>. QED
      BY <3>1, <3>3
  <2>4. CASE Sn!Plan(j)
    <3>. DEFINE s == Sn!First(x5[j].todo)
                done == Sn!Done(j, s)
                next == [done EXCEPT !.loaded[s] = x3[s]]
    <3>1. Sn!To(j, next)
      BY <2>4 DEF Sn!Plan
    <3>2. done \in SnapshotJob /\ JobBounds(done, x2)
      BY <1>3
    <3>. HIDE DEF done, s
    <3>3. JobBounds(next, x2)
      BY <3>2 DEF JobBounds, SnapshotJob
    <3>. QED
      BY <3>1, <3>3
  <2>5. CASE Sn!Load(j)
    <3>. DEFINE s == Sn!First(x5[j].todo)
                next == [x5[j] EXCEPT !.stage = "writing", !.loaded[s] = x3[s]]
    <3>1. Sn!To(j, next)
      BY <2>5 DEF Sn!Load
    <3>. HIDE DEF s
    <3>2. JobBounds(next, x2)
      BY <1>1 DEF JobBounds, SnapshotJob
    <3>. QED
      BY <3>1, <3>2
  <2>6. ASSUME NEW stage, NEW todo PROVE JobBounds([x5[j] EXCEPT !.stage = stage, !.todo = todo], x2)
    BY <1>1 DEF JobBounds, SnapshotJob
  <2>7. ASSUME NEW stage PROVE JobBounds([x5[j] EXCEPT !.stage = stage], x2)
    BY <1>1 DEF JobBounds, SnapshotJob
  <2>8. CASE Sn!Planned(j)
    BY <2>6, <2>8 DEF Sn!Planned
  <2>9. CASE Sn!Written(j)
    <3>1. Sn!To(j, Sn!Idle) \/ Sn!To(j, [x5[j] EXCEPT !.stage = "appending"])
      BY <2>9 DEF Sn!Written, Sn!To
    <3>. QED
      BY <1>2, <2>7, <3>1
  <2>10. CASE Sn!Appended(j)
    <3>1. Sn!To(j, Sn!Idle) \/ Sn!To(j, [x5[j] EXCEPT !.stage = "verifying", !.todo = Sn!Present(j)])
      BY <2>10 DEF Sn!Appended, Sn!To
    <3>. QED
      BY <1>2, <2>6, <3>1
  <2>11. CASE Sn!Verify(j)
    BY <1>2, <1>3, <2>11 DEF Sn!Verify
  <2>12. CASE Sn!Throw(j)
    BY <1>2, <2>12 DEF Sn!Throw
  <2>. QED
    BY <2>1, <2>2, <2>3, <2>4, <2>5, <2>8, <2>9, <2>10, <2>11, <2>12
<1>. QED
  BY <1>4, <1>5, JobTypesStay

LEMMA AppendTypes ==
  ASSUME SnapshotsNow, ShadowTypes, NEW j \in SnapshotWorkers, Sn!Append(j)
  PROVE  ShadowTypes'
<1>1. PICK e \in x5[j].audit : x4' = x4 \cup {e} /\ Sn!To(j, [x5[j] EXCEPT !.audit = x5[j].audit \ {e}])
  BY DEF Sn!Append
<1>. DEFINE next == [x5[j] EXCEPT !.audit = x5[j].audit \ {e}]
<1>2. UNCHANGED <<x1, x2, x3, x6>>
  BY DEF Sn!Append
<1>3. x5[j] \in SnapshotJob /\ JobBounds(x5[j], x2)
  BY JobTypes DEF ShadowTypes
<1>4. JobBounds(next, x2) /\ e \in 1..x2
  BY <1>3 DEF JobBounds, SnapshotJob
<1>5. \A i \in SnapshotWorkers : JobBounds(x5'[i], x2')
  BY <1>1, <1>2, <1>4, JobBoundsStay DEF Sn!To
<1>. QED
  BY <1>1, <1>2, <1>4, <1>5 DEF ShadowTypes

LEMMA WriteTypes ==
  ASSUME SnapshotsNow, ShadowTypes, NEW j \in SnapshotWorkers, Sn!Write(j)
  PROVE  ShadowTypes'
<1>. DEFINE s == Sn!First(x5[j].todo)
            done == Sn!Done(j, s)
            next == [done EXCEPT !.stage = Sn!Onward(j)]
<1>1. Sn!To(j, next) /\ UNCHANGED <<x1, x2, x4, x6>>
      /\ (x3' = x3 \/ Sn!CompareAndSwap(s, x5[j].loaded[s], x5[j].seen[s])) /\ x5[j].todo # {}
  BY DEF Sn!Write
<1>2. x5[j] \in SnapshotJob /\ JobBounds(x5[j], x2) /\ done \in SnapshotJob
  BY JobTypes DEF ShadowTypes
<1>3. s \in Sn!Stores
  BY <1>1, <1>2, FirstStore DEF SnapshotJob
<1>4. JobBounds(done, x2)
  BY <1>2 DEF Sn!Done, JobBounds, SnapshotJob
<1>. HIDE DEF done, s
<1>5. JobBounds(next, x2)
  BY <1>2, <1>4 DEF JobBounds, SnapshotJob
<1>6. \A i \in SnapshotWorkers : JobBounds(x5'[i], x2')
  BY <1>1, <1>5, JobBoundsStay DEF Sn!To
<1>7. x3' \in [Sn!Stores -> SUBSET Sn!Rows] /\ \A t \in Sn!Stores : Single(x3'[t])
  <2>1. CASE x3' = x3
    BY <2>1 DEF ShadowTypes
  <2>2. CASE Sn!CompareAndSwap(s, x5[j].loaded[s], x5[j].seen[s])
    <3>1. x5[j].seen[s] \in 0..SnapshotVersions
      BY <1>2, <1>3 DEF JobBounds
    <3>2. CASE x3' = [x3 EXCEPT ![s] = {Sn!Row(1, x5[j].seen[s], Sn!FileKind)}]
      <4>1. Sn!Row(1, x5[j].seen[s], Sn!FileKind) \in Sn!Rows
        BY <3>1, RowInRows, ShadowBounds
      <4>. QED
        BY <3>2, <4>1, RowTypes
    <3>3. ASSUME NEW r, NEW now \in x3[s], now.revision = r.revision, r.revision < SnapshotRevisions,
                 x3' = [x3 EXCEPT ![s] = {Sn!Row(r.revision + 1, x5[j].seen[s], Sn!FileKind)}]
          PROVE  x3' \in [Sn!Stores -> SUBSET Sn!Rows] /\ \A t \in Sn!Stores : Single(x3'[t])
      <4>1. now \in Sn!Rows
        BY <1>3, <3>3 DEF ShadowTypes
      <4>2. r.revision \in 1..SnapshotRevisions
        BY <3>3, <4>1 DEF Sn!Rows, Sn!Row
      <4>3. r.revision + 1 \in 1..SnapshotRevisions
        BY <3>3, <4>2, ShadowBounds
      <4>4. Sn!Row(r.revision + 1, x5[j].seen[s], Sn!FileKind) \in Sn!Rows
        BY <3>1, <4>3, RowInRows
      <4>. QED
        BY <3>3, <4>4, RowTypes
    <3>. QED
      BY <2>2, <3>2, <3>3 DEF Sn!CompareAndSwap
  <2>. QED
    BY <1>1, <2>1, <2>2
<1>. QED
  BY <1>1, <1>6, <1>7 DEF ShadowTypes

LEMMA RemoveTypes ==
  ASSUME SnapshotsNow, ShadowTypes, NEW j \in SnapshotWorkers, Sn!Remove(j)
  PROVE  ShadowTypes'
<1>. DEFINE s == Sn!First(x5[j].todo)
            done == Sn!Done(j, s)
            next == [done EXCEPT !.stage = "loading"]
<1>1. PICK gone : x3' = [x3 EXCEPT ![s] = x3[s] \ gone] /\ x6' \in {x6, x6 \cup {s}}
  BY DEF Sn!Remove
<1>2. Sn!To(j, next) /\ UNCHANGED <<x1, x2, x4>> /\ x5[j].todo # {}
  BY DEF Sn!Remove
<1>3. x5[j] \in SnapshotJob /\ JobBounds(x5[j], x2) /\ done \in SnapshotJob
  BY JobTypes DEF ShadowTypes
<1>4. s \in Sn!Stores
  BY <1>2, <1>3, FirstStore DEF SnapshotJob
<1>5. JobBounds(done, x2)
  BY <1>3 DEF Sn!Done, JobBounds, SnapshotJob
<1>. HIDE DEF done, s
<1>6. JobBounds(next, x2)
  BY <1>3, <1>5 DEF JobBounds, SnapshotJob
<1>7. \A i \in SnapshotWorkers : JobBounds(x5'[i], x2')
  BY <1>2, <1>6, JobBoundsStay DEF Sn!To
<1>8. \A t \in Sn!Stores : x3'[t] \subseteq x3[t]
  BY <1>1 DEF ShadowTypes
<1>9. x3' \in [Sn!Stores -> SUBSET Sn!Rows] /\ \A t \in Sn!Stores : Single(x3'[t])
  BY <1>1, <1>8 DEF ShadowTypes, Single
<1>. QED
  BY <1>1, <1>2, <1>4, <1>7, <1>9 DEF ShadowTypes

LEMMA ShadowStep ==
  ASSUME SnapshotsNow, ShadowTypes, Sn!Next
  PROVE  ShadowTypes'
BY OthersTypes, QuietTypes, AppendTypes, WriteTypes, RemoveTypes DEF Sn!Next

LEMMA InitShadow == Sn!Init => ShadowTypes
<1>. SUFFICES ASSUME Sn!Init PROVE ShadowTypes
  OBVIOUS
<1>1. JobBounds(Sn!Idle, x2)
  BY ShadowBounds DEF JobBounds, Sn!Idle, Sn!NothingSeen
<1>2. x5 = [j \in SnapshotWorkers |-> Sn!Idle] /\ x2 = 0 /\ x1 = Sn!NothingSeen /\ x3 = Sn!NothingLoaded /\ x4 = {} /\ x6 = {}
  BY DEF Sn!Init
<1>. QED
  BY <1>1, <1>2, ShadowBounds DEF ShadowTypes, Sn!NothingSeen, Sn!NothingLoaded, Single

LEMMA ShadowTyped ==
  ASSUME SnapshotsNow, ShadowTypes
  PROVE  Sn!TypeOK
<1>1. ASSUME NEW s \in Sn!Stores PROVE Sn!Cardinality(x3[s]) <= 1
  <2>1. \A q, r \in x3[s] : q = r
    BY DEF ShadowTypes, Single
  <2>. QED
    BY <2>1, CountOfAtMostOne, ShadowCounts
<1>2. \A j \in SnapshotWorkers : x5[j].todo \subseteq Sn!Stores /\ x5[j].audit \subseteq 1..x2
  BY JobTypes DEF ShadowTypes, JobBounds, SnapshotJob
<1>. QED
  BY <1>1, <1>2 DEF ShadowTypes, Sn!TypeOK
-----------------------------------------------------------------------------
\* The types of the corridor plans: what is published parses, its completeness and
\* readiness are of ten thousand, and one candidate at most is recommended.
LEMMA TotalAtMost ==
  ASSUME x1 \in [CorridorCandidates -> Co!Indicators], NEW c \in CorridorCandidates, Evidenced(c)
  PROVE  Co!Total(x1, c) <= 100 * Cardinality(CorridorDimensions)
<1>. DEFINE h == Index(x1, c)
            ones == [d \in CorridorDimensions |-> 1]
            k == [d \in CorridorDimensions |-> 99 * ones[d] + ones[d]]
<1>1. \A d \in CorridorDimensions : h[d] \in 0..100
  <2>. SUFFICES ASSUME NEW d \in CorridorDimensions PROVE h[d] \in 0..100
    OBVIOUS
  <2>1. x1[c][d] # {} /\ x1[c][d] \in {{}} \cup {{i} : i \in CorridorIndices}
    BY DEF Evidenced, Co!Indicators
  <2>2. PICK i \in CorridorIndices : x1[c][d] = {i}
    BY <2>1
  <2>3. h[d] = i
    BY <2>2 DEF Index
  <2>. QED
    BY <2>3, HubAssumption
<1>2. \A d \in CorridorDimensions : ones[d] = 1 /\ ones[d] \in Int /\ k[d] = 99 * ones[d] + ones[d] /\ k[d] = 100
  OBVIOUS
<1>3. Tr!IsFiniteSet(CorridorDimensions) /\ IsFiniteSet(CorridorDimensions)
  BY HubAssumption, TrFinite
<1>. HIDE DEF h, ones, k
<1>4. Tr!Sum(h, CorridorDimensions) <= Tr!Sum(k, CorridorDimensions)
  <2>1. \A d \in CorridorDimensions : h[d] \in Int /\ k[d] \in Int /\ h[d] <= k[d]
    BY <1>1, <1>2
  <2>. QED
    BY <1>3, <2>1, Tr!SumLess
<1>5. Tr!Sum(ones, CorridorDimensions) = Cardinality(CorridorDimensions)
  BY <1>2, <1>3, OnesCount
<1>6. Tr!Sum(k, CorridorDimensions) = 99 * Tr!Sum(ones, CorridorDimensions) + Tr!Sum(ones, CorridorDimensions)
  BY <1>2, <1>3, Tr!SumLinear
<1>7. Tr!Sum(h, CorridorDimensions) = Co!Total(x1, c) /\ Co!Total(x1, c) \in Nat
  BY TotalIsSum, TotalOfWhole DEF h
<1>8. Cardinality(CorridorDimensions) \in Nat
  BY HubAssumption
<1>. QED
  BY <1>4, <1>5, <1>6, <1>7, <1>8

\* A share of the whole is at most ten thousand.
Shares == 0..10000

LEMMA ShareAtMost ==
  ASSUME NEW a, NEW b, a \in Nat, b \in Nat, b > 0, a <= b * 10000
  PROVE  a \div b \in Shares
<1>1. a \div b \in Nat /\ \A n \in Nat : n <= a \div b <=> n * b <= a
  BY Floor
<1>. DEFINE q == a \div b
<1>. HIDE DEF q
<1>2. q \in Nat /\ (10001 <= q <=> 10001 * b <= a)
  BY <1>1 DEF q
<1>. QED
  BY <1>2 DEF q, Shares

LEMMA SharesCount == Shares \subseteq Nat
BY DEF Shares

LEMMA CompletenessTyped ==
  ASSUME NEW c
  PROVE  Co!Completeness(c) \in Shares
<1>. DEFINE a == Cardinality(Co!Present(c)) * 10000
            b == Cardinality(CorridorDimensions)
<1>1. Co!Completeness(c) = a \div b
  BY CorridorCounts DEF Co!Completeness
<1>2. IsFiniteSet(CorridorDimensions) /\ Co!Present(c) \subseteq CorridorDimensions
  BY HubAssumption DEF Co!Present
<1>3. Cardinality(Co!Present(c)) \in Nat /\ Cardinality(Co!Present(c)) <= Cardinality(CorridorDimensions)
  BY <1>2, FS_Subset, FS_CardinalityType
<1>4. b \in Nat /\ b > 0
  BY HubAssumption
<1>5. a \in Nat /\ b \in Nat /\ b > 0 /\ a <= b * 10000
  BY <1>3, <1>4
<1>. HIDE DEF a, b
<1>. QED
  BY <1>1, <1>5, ShareAtMost

LEMMA ReadinessTyped ==
  ASSUME x1 \in [CorridorCandidates -> Co!Indicators], NEW c \in CorridorCandidates, Evidenced(c)
  PROVE  Co!Readiness(c) \in Shares
<1>. DEFINE total == Co!Total(x1, c)
            k == Cardinality(CorridorDimensions)
            a == total * 10000
            b == 100 * k
<1>1. Co!Readiness(c) = a \div b
  BY CorridorCounts DEF Co!Readiness, Co!Total
<1>2. total \in Nat /\ k \in Nat /\ k > 0 /\ total <= 100 * k
  BY TotalOfWhole, TotalAtMost, HubAssumption
<1>. HIDE DEF total, k
<1>3. a \in Nat /\ b \in Nat /\ b > 0 /\ a <= b * 10000
  BY <1>2
<1>. HIDE DEF a, b
<1>. QED
  BY <1>1, <1>3, ShareAtMost

\* Of two complete candidates only one is before the other.
Indicated == x1 \in [CorridorCandidates -> Co!Indicators]

LEMMA OneOfEach ==
  ASSUME Indicated, NEW c \in CorridorCandidates, NEW d \in CorridorCandidates, Co!Complete(c), Co!Complete(d)
  PROVE  ~(Co!Before(c, d) /\ Co!Before(d, c))
<1>1. c \in Nat /\ d \in Nat
  BY HubAssumption
<1>2. ASSUME NEW p \in Nat, NEW q \in Nat, NEW r \in Nat, NEW s \in Nat,
             p = Co!Completeness(c), q = Co!Completeness(d), r = Co!Readiness(c), s = Co!Readiness(d)
      PROVE  ~(Co!Before(c, d) /\ Co!Before(d, c))
  <2>1. Co!Before(c, d) => p > q \/ (p = q /\ (r > s \/ (r = s /\ c < d)))
    BY <1>2 DEF Co!Before
  <2>2. Co!Before(d, c) => q > p \/ (q = p /\ (s > r \/ (s = r /\ d < c)))
    BY <1>2 DEF Co!Before
  <2>. QED
    BY <1>1, <2>1, <2>2
<1>3. Co!Completeness(c) \in Nat /\ Co!Completeness(d) \in Nat
  BY CompletenessTyped, SharesCount
<1>4. Co!Readiness(c) \in Nat /\ Co!Readiness(d) \in Nat
  <2>1. Evidenced(c) /\ Evidenced(d)
    BY WholeIsComplete DEF Indicated
  <2>2. Co!Readiness(c) \in Shares /\ Co!Readiness(d) \in Shares
    BY <2>1, ReadinessTyped DEF Indicated
  <2>. QED
    BY <2>2, SharesCount
<1>. QED
  BY <1>2, <1>3, <1>4

LEMMA EvaluationTyped ==
  ASSUME x1 \in [CorridorCandidates -> Co!Indicators], NEW c \in CorridorCandidates
  PROVE  Co!Evaluation(c) \in Co!Evaluations
<1>1. Co!Completeness(c) \in Shares
  BY CompletenessTyped
<1>2. (IF Co!Complete(c) THEN {Co!Readiness(c)} ELSE {}) \subseteq Shares
  BY ReadinessTyped, WholeIsComplete
<1>3. Co!State(c) \in {"RESEARCH_MORE", "HOLD_FOR_EVIDENCE", "CANDIDATE_FOR_BOUNDED_REVIEW"}
  BY DEF Co!State
<1>. DEFINE share == Co!Completeness(c)
            ready == IF Co!Complete(c) THEN {Co!Readiness(c)} ELSE {}
            state == Co!State(c)
            States == {"RESEARCH_MORE", "HOLD_FOR_EVIDENCE", "CANDIDATE_FOR_BOUNDED_REVIEW"}
<1>4. Co!Evaluation(c) = [candidate |-> c, completeness |-> share, readiness |-> ready, state |-> state]
  BY DEF Co!Evaluation
<1>5. Co!Evaluations =
        [candidate : CorridorCandidates, completeness : Shares, readiness : SUBSET Shares, state : States]
  BY DEF Co!Evaluations, Shares
<1>6. share \in Shares /\ ready \in SUBSET Shares /\ state \in States
  BY <1>1, <1>2, <1>3
<1>. HIDE DEF share, ready, state, States
<1>. QED
  BY <1>4, <1>5, <1>6

\* Two candidates are never each before the other.
LEMMA RecommendationTyped ==
  ASSUME x1 \in [CorridorCandidates -> Co!Indicators]
  PROVE  /\ Co!Recommendation \in [state : {"RESEARCH_MORE", "HOLD", "RECOMMEND_BOUNDED_REVIEW"},
                                   candidate : SUBSET CorridorCandidates]
         /\ \A c, d \in Co!Recommendation.candidate : c = d
<1>1. CASE \E c \in CorridorCandidates : ~Co!Complete(c)
  BY <1>1 DEF Co!Recommendation
<1>2. CASE \A c \in CorridorCandidates : Co!Complete(c)
  <2>. DEFINE review == {c \in CorridorCandidates : Co!State(c) = "CANDIDATE_FOR_BOUNDED_REVIEW"}
  <2>1. Co!Recommendation = [state |-> IF review = {} THEN "HOLD" ELSE "RECOMMEND_BOUNDED_REVIEW",
                             candidate |-> Co!First(review)]
    BY <1>2 DEF Co!Recommendation
  <2>2. Co!First(review) \subseteq CorridorCandidates
    BY DEF Co!First
  <2>3. ASSUME NEW c \in Co!First(review), NEW d \in Co!First(review), c # d PROVE FALSE
    <3>. HIDE DEF review
    <3>5. c \in review /\ d \in review /\ Co!Before(c, d) /\ Co!Before(d, c)
      BY <2>3 DEF Co!First
    <3>1. c \in CorridorCandidates /\ d \in CorridorCandidates
      BY <3>5 DEF review
    <3>2. Co!Complete(c) /\ Co!Complete(d)
      BY <1>2, <3>1
    <3>. QED
      BY <2>3, <3>1, <3>2, <3>5, OneOfEach DEF Indicated
  <2>. HIDE DEF review
  <2>. QED
    BY <2>1, <2>2, <2>3
<1>. QED
  BY <1>1, <1>2

PlansTyped ==
  /\ x1 \in [CorridorCandidates -> Co!Indicators] /\ x3 \in CorridorScopes /\ x4 \in CorridorThresholds
  /\ x5 \subseteq Co!ReadModels /\ \A m \in x5 : \A c, d \in m.recommendation.candidate : c = d

LEMMA InitPlansTyped == Co!Init => PlansTyped
BY DEF Co!Init, PlansTyped, Co!Indicators

LEMMA PlansTypes ==
  ASSUME PlansTyped, Compared', Co!Next \/ UNCHANGED <<x1, x2, x3, x4, x5>>
  PROVE  PlansTyped'
<1>. USE DEF PlansTyped
<1>1. x1' \in [CorridorCandidates -> Co!Indicators] /\ x4' \in CorridorThresholds
  BY DEF Compared
<1>2. CASE Co!Publish
  <2>. DEFINE m == [of |-> x1, threshold |-> x4, scope |-> x3,
                    candidates |-> {Co!Evaluation(c) : c \in CorridorCandidates},
                    recommendation |-> Co!Recommendation]
  <2>1. UNCHANGED <<x1, x3, x4>> /\ x5' = x5 \cup {m}
    BY <1>2 DEF Co!Publish
  <2>2. {Co!Evaluation(c) : c \in CorridorCandidates} \subseteq Co!Evaluations
    BY EvaluationTyped
  <2>3. m \in Co!ReadModels
    BY <2>2, RecommendationTyped DEF Co!ReadModels
  <2>4. m.recommendation = Co!Recommendation
    OBVIOUS
  <2>. HIDE DEF m
  <2>5. \A c, d \in m.recommendation.candidate : c = d
    BY <2>4, RecommendationTyped
  <2>. QED
    BY <2>1, <2>3, <2>5
<1>3. CASE UNCHANGED <<x3, x5>>
  BY <1>1, <1>3
<1>. QED
  BY <1>2, <1>3 DEF Co!Next, Co!Withdraw, Co!Report, Co!ChangePolicy

LEMMA PlansAreTyped == PlansTyped => Co!TypeOK
<1>. SUFFICES ASSUME PlansTyped, NEW m \in x5 PROVE Co!Cardinality(m.recommendation.candidate) <= 1
  BY DEF PlansTyped, Co!TypeOK
<1>1. \A c, d \in m.recommendation.candidate : c = d
  BY DEF PlansTyped
<1>. QED
  BY <1>1, CountOfAtMostOne, CorridorCounts

-----------------------------------------------------------------------------
\* The types of the traces: whatever was emitted, sealed or read parses.
LEMMA TraceStates ==
  ASSUME NEW m, NEW copies, NEW S, NEW t, t = Ot!Trace(m, copies), {e \in DOMAIN copies : copies[e] > 0} = S
  PROVE  /\ t.queue = Ot!QueueState(Ot!Latest(S).transport)
         /\ t.attention =
              Ot!Attention(Ot!Latest(S), Ot!Detailed(S, "CONFLICT_REVIEW_REQUIRED"))
         /\ t.latest = Ot!Latest(S)
         /\ {t.retry, t.conflict, t.reconciliation} \subseteq BOOLEAN
<1>1. /\ t.queue = Ot!QueueState(Ot!Latest(S).transport)
      /\ t.attention =
           Ot!Attention(Ot!Latest(S), Ot!Detailed(S, "CONFLICT_REVIEW_REQUIRED"))
      /\ t.latest = Ot!Latest(S)
  BY DEF Ot!Trace
<1>2. t.retry \in BOOLEAN
  BY DEF Ot!Trace, Ot!Detailed
<1>3. t.conflict \in BOOLEAN
  BY DEF Ot!Trace, Ot!Detailed
<1>4. t.reconciliation \in BOOLEAN
  BY DEF Ot!Trace
<1>. QED
  BY <1>1, <1>2, <1>3, <1>4

LEMMA QueueTyped ==
  ASSUME NEW transport \in Ot!TransportStates
  PROVE  Ot!QueueState(transport) \in Ot!QueueStates
BY DEF Ot!TransportStates, Ot!QueueState, Ot!QueueStates

LEMMA AttentionTyped ==
  ASSUME NEW latest, NEW conflict \in BOOLEAN
  PROVE  Ot!Attention(latest, conflict) \in Ot!Attentions
<1>1. CASE conflict
  BY <1>1 DEF Ot!Attention, Ot!Attentions
<1>2. CASE ~conflict /\ latest.outcome \in {"DENIED", "DEFERRED", "UNVERIFIED"}
  BY <1>2 DEF Ot!Attention, Ot!Attentions
<1>3. CASE ~conflict /\ latest.outcome \notin {"DENIED", "DEFERRED", "UNVERIFIED"}
  BY <1>3 DEF Ot!Attention, Ot!Attentions
<1>. QED
  BY <1>1, <1>2, <1>3

LEMMA TraceTyped ==
  ASSUME NEW m, NEW S, S \subseteq TraceEvents, IsFiniteSet(S), S # {}, \A e \in S : Ot!EnvelopeParses(e),
         NEW copies, DOMAIN copies = S, \A e \in S : copies[e] = 1
  PROVE  Ot!TraceParses(Ot!Trace(m, copies)) /\ Ot!Trace(m, copies).events = S
<1>. DEFINE t == Ot!Trace(m, copies)
            latest == Ot!Latest(S)
            conflict == Ot!Detailed(S, "CONFLICT_REVIEW_REQUIRED")
<1>1. {e \in DOMAIN copies : copies[e] > 0} = S
  OBVIOUS
<1>2. t.events = S /\ t.count = Tr!Sum(copies, S)
  BY <1>1, TraceFields
<1>3. /\ t.queue = Ot!QueueState(latest.transport) /\ t.attention = Ot!Attention(latest, conflict)
      /\ t.latest = latest /\ {t.retry, t.conflict, t.reconciliation} \subseteq BOOLEAN
  BY <1>1, TraceStates
<1>4. latest \in S
  BY LastOfTimeline
<1>5. conflict \in BOOLEAN
  BY DEF Ot!Detailed
<1>6. t.count > 0
  <2>1. t.count = Cardinality(S)
    BY <1>2, OnesCount
  <2>2. Cardinality(S) \in Nat /\ Cardinality(S) # 0
    BY FS_CardinalityType, FS_EmptySet
  <2>. QED
    BY <2>1, <2>2
<1>. HIDE DEF t, latest, conflict
<1>7. t.queue \in Ot!QueueStates
  <2>1. latest.transport \in Ot!TransportStates
    BY <1>4 DEF Ot!EnvelopeParses
  <2>. QED
    BY <1>3, <2>1, QueueTyped
<1>8. t.attention \in Ot!Attentions
  BY <1>3, <1>5, AttentionTyped
<1>. QED
  BY <1>2, <1>3, <1>4, <1>6, <1>7, <1>8 DEF Ot!TraceParses, t

\* A manifest's content has its fields, and parses.
Content(c) ==
  /\ c = [run |-> c.run, events |-> c.events, correlations |-> c.correlations, artifacts |-> c.artifacts,
          graph |-> c.graph, completeness |-> c.completeness]
  /\ Ot!ManifestParses(c)

TracesTyped ==
  /\ \A e \in x1 : Ot!EnvelopeParses(e)
  /\ (\A m, n \in x2 : m = n) /\ \A m \in x2 : Content(m.content)
  /\ \A t \in x3 : Ot!TraceParses(t) /\ t.events \subseteq x1

LEMMA InitTracesTyped == Ot!Init => TracesTyped
BY DEF Ot!Init, TracesTyped

LEMMA ReadTracesTyped ==
  ASSUME TracedNow, TracesTyped, NEW m \in x2, Ot!Verified(m), NEW copies \in [x1 -> 0..TraceCopies],
         Ot!ReadModel(m, copies)
  PROVE  \A t \in x3' : Ot!TraceParses(t) /\ t.events \subseteq x1
<1>. DEFINE S == {e \in DOMAIN copies : copies[e] > 0}
            Among(c) == {x \in S : x.correlation = c}
            Once(c) == [e \in Among(c) |-> copies[e]]
<1>1. /\ S = m.sealed.events /\ \A e \in S : copies[e] = 1
      /\ x3' = {Ot!Trace(m, Once(c)) : c \in {e.correlation : e \in S}}
  BY DEF Ot!ReadModel, Ot!SameDigests, Ot!Verified
<1>2. S \subseteq x1 /\ S \subseteq TraceEvents /\ IsFiniteSet(S) /\ \A e \in S : Ot!EnvelopeParses(e)
  <2>1. S \subseteq x1
    BY <1>1 DEF TracedNow, Sealed
  <2>. QED
    BY <2>1, FS_Subset DEF TracedNow, TracesTyped
<1>. HIDE DEF S
<1>3. ASSUME NEW c \in {e.correlation : e \in S}
      PROVE  Ot!TraceParses(Ot!Trace(m, Once(c))) /\ Ot!Trace(m, Once(c)).events \subseteq x1
  <2>1. /\ Among(c) \subseteq TraceEvents /\ IsFiniteSet(Among(c)) /\ Among(c) # {} /\ Among(c) \subseteq x1
        /\ \A e \in Among(c) : Ot!EnvelopeParses(e)
    BY <1>2, FS_Subset
  <2>2. DOMAIN Once(c) = Among(c) /\ \A e \in Among(c) : Once(c)[e] = 1
    BY <1>1
  <2>. HIDE DEF Among, Once
  <2>. QED
    BY <2>1, <2>2, TraceTyped
<1>. HIDE DEF Once
<1>. QED
  BY <1>1, <1>3

LEMMA TracesTypes ==
  ASSUME TracedNow, TracesTyped, Ot!Next \/ UNCHANGED <<x1, x2, x3>>
  PROVE  TracesTyped'
<1>1. /\ \A e \in x1 : Ot!EnvelopeParses(e)
      /\ (\A m, n \in x2 : m = n) /\ \A m \in x2 : Content(m.content)
      /\ \A t \in x3 : Ot!TraceParses(t) /\ t.events \subseteq x1
  BY DEF TracesTyped
<1>2. ASSUME NEW e \in TraceEvents, Ot!Emit(e) PROVE TracesTyped'
  <2>1. x1' = x1 \cup {e} /\ UNCHANGED <<x2, x3>> /\ Ot!EnvelopeParses(e)
    BY <1>2 DEF Ot!Emit
  <2>. QED
    BY <1>1, <2>1 DEF TracesTyped
<1>3. ASSUME NEW e, Ot!Alter(e) PROVE TracesTyped'
  <2>1. PICK m \in x2 : x2' = {[m EXCEPT !.content.events = @ \ {e}]}
    BY <1>3 DEF Ot!Alter
  <2>2. UNCHANGED <<x1, x3>>
    BY <1>3 DEF Ot!Alter
  <2>. DEFINE n == [m EXCEPT !.content.events = @ \ {e}]
  <2>3. PICK was, sealed : m = [content |-> was, sealed |-> sealed]
    BY DEF TracedNow, Sealed
  <2>4. Content(was)
    BY <1>1, <2>3
  <2>5. n = [content |-> [was EXCEPT !.events = @ \ {e}], sealed |-> sealed]
    BY <2>3
  <2>6. n.content = [was EXCEPT !.events = @ \ {e}]
    BY <2>5
  <2>7. Content([was EXCEPT !.events = @ \ {e}])
    <3>. DEFINE next == [was EXCEPT !.events = @ \ {e}]
    <3>1. PICK run, events, correlations, artifacts, graph, completeness :
            was = [run |-> run, events |-> events, correlations |-> correlations, artifacts |-> artifacts,
                   graph |-> graph, completeness |-> completeness]
      BY <2>4 DEF Content
    <3>2. next = [run |-> run, events |-> events \ {e}, correlations |-> correlations, artifacts |-> artifacts,
                  graph |-> graph, completeness |-> completeness]
      BY <3>1
    <3>3. Ot!ManifestParses(was)
      BY <2>4 DEF Content
    <3>. HIDE DEF next
    <3>4. Ot!ManifestParses(next)
      BY <3>1, <3>2, <3>3 DEF Ot!ManifestParses
    <3>5. Content(next)
      BY <3>2, <3>4 DEF Content
    <3>. QED
      BY <3>5 DEF next
  <2>8. Content(n.content)
    BY <2>6, <2>7
  <2>. HIDE DEF n
  <2>. QED
    BY <1>1, <2>1, <2>2, <2>8 DEF TracesTyped, n
<1>4. ASSUME NEW run, NEW events, NEW artifacts, NEW graph, Ot!MakeManifest(run, events, artifacts, graph)
      PROVE  TracesTyped'
  <2>. DEFINE content == Ot!Content(run, events, artifacts, graph)
              m == [content |-> content, sealed |-> content]
  <2>1. x2' = {m} /\ UNCHANGED <<x1, x3>> /\ Ot!ManifestParses(content)
    BY <1>4 DEF Ot!MakeManifest
  <2>2. Content(content)
    <3>1. content = [run |-> content.run, events |-> content.events, correlations |-> content.correlations,
                     artifacts |-> content.artifacts, graph |-> content.graph,
                     completeness |-> content.completeness]
      BY DEF Ot!Content
    <3>. HIDE DEF content
    <3>. QED
      BY <2>1, <3>1 DEF Content
  <2>. HIDE DEF content
  <2>. QED
    BY <1>1, <2>1, <2>2 DEF TracesTyped
<1>5. ASSUME NEW m \in x2, Ot!Verified(m), NEW copies \in [x1 -> 0..TraceCopies], Ot!ReadModel(m, copies)
      PROVE  TracesTyped'
  <2>1. UNCHANGED <<x1, x2>>
    BY <1>5 DEF Ot!ReadModel
  <2>. QED
    BY <1>1, <1>5, <2>1, ReadTracesTyped DEF TracesTyped
<1>6. CASE UNCHANGED <<x1, x2, x3>>
  BY <1>1, <1>6 DEF TracesTyped
<1>. QED
  BY <1>2, <1>3, <1>4, <1>5, <1>6 DEF Ot!Next

LEMMA TracesAreTyped ==
  ASSUME TracedNow, TracesTyped
  PROVE  Ot!TypeOK
<1>1. Ot!Cardinality(x2) <= 1
  BY CountOfAtMostOne, TracesCount DEF TracesTyped
<1>2. \A m \in x2 : m.sealed.events \subseteq x1 /\ Ot!ManifestParses(m.content)
  BY DEF TracedNow, Sealed, TracesTyped, Content
<1>3. \A t, role : Ot!Actions(t, role) \subseteq Ot!Placeholders
  BY DEF Ot!Actions, Ot!Placeholders
<1>4. \A scope, role : \A found \in Ot!Search(scope, role) : found.actions \subseteq Ot!Placeholders
  BY <1>3 DEF Ot!Search
<1>. QED
  BY <1>1, <1>2, <1>4 DEF Ot!TypeOK, TracedNow, TracesTyped


LEMMA MatchesTyped == MatchInv => Pl!TypeOK
BY DEF MatchInv, MatchTypes, Pl!TypeOK

-----------------------------------------------------------------------------
\* What each of these parts keeps, its types among it.
PartsTyped ==
  /\ moving = "ledger" => Tr!TInv
  /\ moving = "statuses" => Re!RInv
  /\ moving = "routes" => Ro!AInv /\ Ro!RoutesTyped
  /\ moving = "preorders" => Te!TypeOK
  /\ moving = "fetches" => Fe!TypeOK
  /\ moving = "snapshots" => SnapshotsNow /\ ShadowTypes
  /\ moving = "onboarding" => On!TypeOK
  /\ moving = "browser" => PageNow /\ PageBounds
  /\ moving = "corridor" => Compared /\ PlansTyped
  /\ moving = "traces" => TracedNow /\ TracesTyped
  /\ moving = "matches" => MatchInv

TypedParts == {"ledger", "statuses", "routes", "preorders", "fetches", "snapshots", "onboarding",
               "browser", "corridor", "traces", "matches"}

LEMMA InitParts == HubInit => PartsTyped
<1>. SUFFICES ASSUME HubInit PROVE PartsTyped
  OBVIOUS
<1>1. (moving = "ledger" => Tr!TInv) /\ (moving = "statuses" => Re!RInv)
  BY InitLedger, InitStatuses
<1>2. moving = "routes" => Ro!AInv /\ Ro!RoutesTyped
  BY HubAssumption, GatewayBounds, Ro!InitAInv, Ro!InitRoutesTyped DEF HubInit
<1>3. moving = "preorders" => Te!TypeOK
  BY HubAssumption DEF HubInit, Te!Init, Te!TypeOK
<1>4. moving = "fetches" => Fe!TypeOK
  <2>. SUFFICES ASSUME Fe!Init PROVE Fe!TypeOK
    BY DEF HubInit
  <2>1. x5 = 0 /\ x5 \in Nat /\ x6 = 0 /\ x6 \in Nat
    BY DEF Fe!Init
  <2>. QED
    BY <2>1, Zenon DEF Fe!Init, Fe!TypeOK
<1>5. moving = "snapshots" => SnapshotsNow /\ ShadowTypes
  BY InitSnapshots, InitShadow DEF HubInit
<1>6. moving = "onboarding" => On!TypeOK
  <2>. SUFFICES ASSUME On!Init PROVE On!TypeOK
    BY DEF HubInit
  <2>1. On!Requested \in CapabilityType
    BY DEF CapabilityType, On!CapabilityStates, On!Requested
  <2>2. <<>> \in Seq(On!RuntimeModes \cup {"CERTIFIED", "SUSPENDED"}) /\ 1 \in 1..OnboardingDecisions
    BY HubAssumption
  <2>3. PICK environment \in {"synthetic", "sandbox"}, evidenced \in BOOLEAN, domain \in BOOLEAN, adapter \in BOOLEAN :
        x1 = [state |-> "DRAFT", path |-> On!Path(domain, TRUE, TRUE, adapter),
              environment |-> environment, evidenced |-> evidenced]
    BY DEF On!Init
  <2>4. On!Path(domain, TRUE, TRUE, adapter) \in On!Paths
    BY DEF On!Path, On!Paths
  <2>5. x1 \in [state : On!OrganizationStates, path : On!Paths,
                environment : {"synthetic", "sandbox"}, evidenced : BOOLEAN]
    BY <2>3, <2>4 DEF On!OrganizationStates
  <2>. QED
    BY <2>1, <2>2, <2>5 DEF On!Init, On!TypeOK, CapabilityType
<1>7. moving = "browser" => PageNow /\ PageBounds
  <2>. SUFFICES ASSUME Br!Init PROVE PageNow /\ PageBounds
    BY DEF HubInit
  <2>1. PageSessions \in Nat /\ x1 = <<>> /\ Len(x1) = 0 /\ x2 = 0 /\ x3 = 0 /\ x4 = "none"
    BY HubAssumption DEF Br!Init
  <2>. QED
    BY <2>1, InitPage DEF PageBounds
<1>8. moving = "corridor" => Co!Init
  BY DEF HubInit
<1>9. moving = "traces" => Ot!Init
  BY DEF HubInit
<1>10. (Co!Init => Compared /\ PlansTyped) /\ (Ot!Init => TracedNow /\ TracesTyped)
  BY InitPlans, InitPlansTyped, InitTraced, InitTracesTyped
<1>11. moving = "matches" => MatchInv
  BY MatchInit DEF HubInit
<1>. QED
  BY <1>1, <1>2, <1>3, <1>4, <1>5, <1>6, <1>7, <1>8, <1>9, <1>10, <1>11 DEF PartsTyped

LEMMA PartsStep ==
  ASSUME PartsTyped, [HubNext]_hubVars
  PROVE  PartsTyped'
<1>0. moving' = moving
  BY DEF HubNext, hubVars
<1>1. (moving = "ledger" => Tr!TInv)' /\ (moving = "statuses" => Re!RInv)'
  BY LedgerStep, StatusesStep DEF PartsTyped
<1>2. ASSUME moving = "routes" PROVE (Ro!AInv /\ Ro!RoutesTyped)'
  <2>1. Ro!AInv /\ Ro!RoutesTyped /\ (Ro!NextRoutes \/ UNCHANGED hubVars)
    BY <1>2 DEF HubNext, hubVars, PartsTyped
  <2>2. [Ro!NextRoutes]_(Ro!routedVars)
    BY <2>1 DEF hubVars, Ro!routedVars, Ro!routeVars, Ro!allVars, Ro!vars, Ro!statusVars
  <2>3. Ro!AInv'
    BY <2>1, <2>2, Ro!NextAInv, GatewayBounds
  <2>. QED
    BY <2>1, <2>2, <2>3, Ro!NextRoutesTyped, GatewayBounds
<1>3. ASSUME moving = "preorders" PROVE Te!TypeOK'
  <2>1. Te!TypeOK /\ (Te!Next \/ UNCHANGED <<x1, x2, x3, x4>>)
    BY <1>3 DEF HubNext, hubVars, PartsTyped
  <2>2. CASE UNCHANGED <<x1, x2, x3, x4>>
    BY <2>1, <2>2 DEF Te!TypeOK
  <2>. QED
    BY <2>1, <2>2, PreorderTypes
<1>4. ASSUME moving = "fetches" PROVE Fe!TypeOK'
  <2>1. Fe!TypeOK /\ (Fe!Next \/ UNCHANGED <<x1, x2, x3, x4, x5, x6, x7>>)
    BY <1>4 DEF HubNext, hubVars, PartsTyped
  <2>2. CASE UNCHANGED <<x1, x2, x3, x4, x5, x6, x7>>
    BY <2>1, <2>2 DEF Fe!TypeOK
  <2>. QED
    BY <2>1, <2>2, FetchTypes
<1>5. ASSUME moving = "snapshots" PROVE (SnapshotsNow /\ ShadowTypes)'
  <2>1. SnapshotsNow /\ ShadowTypes /\ (Sn!Next \/ UNCHANGED <<x1, x2, x3, x4, x5, x6>>)
    BY <1>5 DEF HubNext, hubVars, PartsTyped
  <2>2. CASE UNCHANGED <<x1, x2, x3, x4, x5, x6>>
    BY <2>1, <2>2 DEF SnapshotsNow, ShadowTypes
  <2>3. CASE Sn!Next
    BY <2>1, <2>3, SnapshotsStep, ShadowStep
  <2>. QED
    BY <2>1, <2>2, <2>3
<1>6. ASSUME moving = "onboarding" PROVE On!TypeOK'
  <2>1. On!TypeOK /\ (On!Next \/ UNCHANGED <<x1, x2, x3, x4>>)
    BY <1>6 DEF HubNext, hubVars, PartsTyped
  <2>2. CASE UNCHANGED <<x1, x2, x3, x4>>
    BY <2>1, <2>2 DEF On!TypeOK
  <2>. QED
    BY <2>1, <2>2, OnboardingTypes
<1>7. ASSUME moving = "browser" PROVE (PageNow /\ PageBounds)'
  <2>1. PageNow /\ PageBounds /\ (Br!Next \/ UNCHANGED <<x1, x2, x3, x4, x5, x6>>)
    BY <1>7 DEF HubNext, hubVars, PartsTyped
  <2>2. CASE UNCHANGED <<x1, x2, x3, x4, x5, x6>>
    BY <2>1, <2>2, PageStep DEF PageBounds
  <2>. QED
    BY <2>1, <2>2, PageStep, PageTypes
<1>8. ASSUME moving = "corridor" PROVE (Compared /\ PlansTyped)'
  <2>1. Compared /\ PlansTyped /\ (Co!Next \/ UNCHANGED <<x1, x2, x3, x4, x5>>)
    BY <1>8 DEF HubNext, hubVars, PartsTyped
  <2>2. Compared'
    BY <2>1, PlansStep
  <2>. QED
    BY <2>1, <2>2, PlansTypes
<1>9. ASSUME moving = "traces" PROVE (TracedNow /\ TracesTyped)'
  <2>1. TracedNow /\ TracesTyped /\ (Ot!Next \/ UNCHANGED <<x1, x2, x3>>)
    BY <1>9 DEF HubNext, hubVars, PartsTyped
  <2>. QED
    BY <2>1, TracedStep, TracesTypes
<1>10. ASSUME moving = "matches" PROVE MatchInv'
  <2>1. MatchInv /\ (Pl!Next \/ UNCHANGED <<x1, x2, x3, x4, x5, x6, x7, x8>>)
    BY <1>10 DEF HubNext, hubVars, PartsTyped
  <2>. QED
    BY <2>1, MatchesStep
<1>. QED
  BY <1>0, <1>1, <1>2, <1>3, <1>4, <1>5, <1>6, <1>7, <1>8, <1>9, <1>10 DEF PartsTyped

LEMMA PartsAreTyped ==
  ASSUME PartsTyped, moving \in TypedParts
  PROVE  TypeOKHub
<1>1. moving = "ledger" => Tr!TypeOKTransport
  BY Tr!TransportHolds DEF PartsTyped
<1>2. moving = "statuses" => Re!TypeOKReconciliation
  BY DEF PartsTyped, Re!RInv
<1>3. moving = "routes" => Ro!TypeOKRoutes
  BY Ro!RoutesAreTyped, GatewayBounds DEF PartsTyped
<1>4. (moving = "snapshots" => Sn!TypeOK) /\ (moving = "browser" => Br!TypeOK)
  BY ShadowTyped, PageTyped DEF PartsTyped
<1>5. (moving = "corridor" => Co!TypeOK) /\ (moving = "traces" => Ot!TypeOK) /\ (moving = "matches" => Pl!TypeOK)
  BY PlansAreTyped, TracesAreTyped, MatchesTyped DEF PartsTyped
<1>6. (moving = "preorders" => Te!TypeOK) /\ (moving = "fetches" => Fe!TypeOK) /\ (moving = "onboarding" => On!TypeOK)
  BY DEF PartsTyped
<1>. USE DEF TypeOKHub
<1>7. CASE moving = "ledger"
  BY <1>1, <1>7
<1>8. CASE moving = "statuses"
  BY <1>2, <1>8
<1>9. CASE moving = "routes"
  BY <1>3, <1>9
<1>10. CASE moving = "snapshots"
  BY <1>4, <1>10
<1>11. CASE moving = "browser"
  BY <1>4, <1>11
<1>12. CASE moving = "corridor"
  BY <1>5, <1>12
<1>13. CASE moving = "traces"
  BY <1>5, <1>13
<1>14. CASE moving = "matches"
  BY <1>5, <1>14
<1>15. CASE moving = "preorders"
  BY <1>6, <1>15
<1>16. CASE moving = "fetches"
  BY <1>6, <1>16
<1>17. CASE moving = "onboarding"
  BY <1>6, <1>17
<1>. HIDE DEF TypeOKHub
<1>. QED
  BY <1>7, <1>8, <1>9, <1>10, <1>11, <1>12, <1>13, <1>14, <1>15, <1>16, <1>17 DEF TypedParts

\* Types: in each of these parts the variables keep their types, whatever the bounds; for
\* the ledger, the gateway and the jobs they need what else the part keeps.
THEOREM PartsKeepTypes == HubSpec => [](moving \in TypedParts => TypeOKHub)
<1>1. PartsTyped /\ [HubNext]_hubVars => PartsTyped'
  BY PartsStep
<1>2. PartsTyped => (moving \in TypedParts => TypeOKHub)
  BY PartsAreTyped
<1>. QED
  BY <1>1, <1>2, InitParts, PTL DEF HubSpec
==============================================================================
