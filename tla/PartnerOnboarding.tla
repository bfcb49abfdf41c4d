-------------------------- MODULE PartnerOnboarding -------------------------
(***************************************************************************)
(* The onboarding record of a partner: the state of the organization and,  *)
(* apart from it, the states of the capabilities it asked for, each bound, *)
(* certified and suspended by decisions of its own.  The record keeps its  *)
(* decisions; when it is full every further decision is refused.           *)
(***************************************************************************)
EXTENDS Naturals, Sequences

CONSTANTS
  Capabilities,
  MaxDecisions    \* 512 in the code

Roles == {"PARTNER_ADMIN", "OPERATIONS", "TECHNICAL_REVIEWER", "GOVERNANCE_ADMIN"}

OrganizationStates ==
  {"DRAFT", "CONTRACT_REVIEW", "TECHNICAL_CONFIGURATION", "SANDBOX_READY", "CERTIFICATION_PENDING",
   "SANDBOX_CERTIFIED", "STAGING_PENDING", "STAGING_APPROVED", "AUTHORIZED"}

\* Those that the code gives a capability.
CapabilityStates == {"REQUESTED", "CONFIGURED", "SANDBOX_CERTIFIED", "SUSPENDED"}

RuntimeModes == {"FOUNDATION_ONLY", "EXECUTABLE"}
Paths == {"CONFIGURATION_ONLY", "NEW_ADAPTER_REQUIRED", "NEW_DOMAIN_CAPABILITY_REQUIRED"}

VARIABLES
  organization,  \* [state, path, environment, evidenced]
  capability,    \* [Capabilities -> [state, binding, certified, eligible]]
  decided,       \* number of decisions
  trail          \* [Capabilities -> its decisions, in order]

vars == <<organization, capability, decided, trail>>

Requested == [state |-> "REQUESTED", binding |-> {}, certified |-> FALSE, eligible |-> FALSE]

\* classifyPartnerOnboardingPath.
Path(domain, services, capabilities, adapter) ==
  CASE ~(domain /\ services /\ capabilities) -> "NEW_DOMAIN_CAPABILITY_REQUIRED"
    [] domain /\ services /\ capabilities /\ ~adapter -> "NEW_ADAPTER_REQUIRED"
    [] OTHER -> "CONFIGURATION_ONLY"

\* createPartnerOnboardingRecord, with its first decision.
Init ==
  /\ \E environment \in {"synthetic", "sandbox"}, evidenced, domain, adapter \in BOOLEAN :
       organization = [state |-> "DRAFT", path |-> Path(domain, TRUE, TRUE, adapter),
                       environment |-> environment, evidenced |-> evidenced]
  /\ capability = [c \in Capabilities |-> Requested]
  /\ decided = 1
  /\ trail = [c \in Capabilities |-> <<>>]

-----------------------------------------------------------------------------
\* The only way on from each state.
TransitionFrom ==
  [DRAFT |-> "CONTRACT_REVIEW", CONTRACT_REVIEW |-> "TECHNICAL_CONFIGURATION",
   TECHNICAL_CONFIGURATION |-> "SANDBOX_READY", SANDBOX_READY |-> "CERTIFICATION_PENDING",
   CERTIFICATION_PENDING |-> "SANDBOX_CERTIFIED", SANDBOX_CERTIFIED |-> "STAGING_PENDING",
   STAGING_PENDING |-> "STAGING_APPROVED", STAGING_APPROVED |-> "AUTHORIZED"]

Blocked == {"STAGING_PENDING", "STAGING_APPROVED", "AUTHORIZED"}

RoleMay(role, target) ==
  /\ target \in {"SANDBOX_CERTIFIED"} \cup Blocked => role = "GOVERNANCE_ADMIN"
  /\ target = "CERTIFICATION_PENDING" => role # "PARTNER_ADMIN"

\* assertTransitionEvidence; no open finding is ever recorded.
EvidenceAllows(target) ==
  /\ target = "CONTRACT_REVIEW" => organization.evidenced
  /\ target = "SANDBOX_READY" =>
       organization.path = "CONFIGURATION_ONLY" /\ \A c \in Capabilities : capability[c].binding # {}
  /\ target = "CERTIFICATION_PENDING" => \A c \in Capabilities : capability[c].state = "CONFIGURED"
  /\ target = "SANDBOX_CERTIFIED" =>
       \A c \in Capabilities : capability[c].state = "SANDBOX_CERTIFIED" /\ capability[c].certified

\* Every decision is appended, if there is room for it.
Decide == decided < MaxDecisions /\ decided' = decided + 1

Transition(role, target) ==
  /\ organization.state \in DOMAIN TransitionFrom /\ target = TransitionFrom[organization.state]
  /\ RoleMay(role, target) /\ EvidenceAllows(target)
  /\ target \notin Blocked
  /\ Decide
  /\ organization' = [organization EXCEPT !.state = target]
  /\ UNCHANGED <<capability, trail>>

\* A decision about one capability leaves the others as they are.
Change(c, next, decision) ==
  /\ capability' = [capability EXCEPT ![c] = next]
  /\ trail' = [trail EXCEPT ![c] = Append(@, decision)]
  /\ UNCHANGED organization

Bind(role, c, mode) ==
  /\ organization.state = "TECHNICAL_CONFIGURATION" /\ role # "GOVERNANCE_ADMIN"
  /\ Decide
  /\ Change(c, [state |-> "CONFIGURED", binding |-> {mode}, certified |-> FALSE, eligible |-> FALSE], mode)

\* The state of the capability is not asked for, only its binding.
Certify(c) ==
  /\ organization.state = "CERTIFICATION_PENDING" /\ capability[c].binding # {}
  /\ Decide
  /\ Change(c, [capability[c] EXCEPT
                  !.state = "SANDBOX_CERTIFIED", !.certified = TRUE,
                  !.eligible = "EXECUTABLE" \in capability[c].binding
                                 /\ organization.environment # "synthetic"], "CERTIFIED")

\* Mutant: a suspended capability stays eligible.
SuspendMut(c) ==
  /\ Decide
  /\ Change(c, [capability[c] EXCEPT !.state = "SUSPENDED"], "SUSPENDED")

\* A capability may be suspended in every state, also after the organization was
\* certified.
Suspend(c) ==
  /\ Decide
  /\ Change(c, [capability[c] EXCEPT !.state = "SUSPENDED", !.eligible = FALSE], "SUSPENDED")

Next ==
  \/ \E role \in Roles, target \in OrganizationStates : Transition(role, target)
  \/ \E role \in Roles, c \in Capabilities, mode \in RuntimeModes : Bind(role, c, mode)
  \/ \E c \in Capabilities : Certify(c) \/ Suspend(c)

Spec == Init /\ [][Next]_vars

-----------------------------------------------------------------------------
TypeOK ==
  /\ organization \in [state : OrganizationStates, path : Paths,
                       environment : {"synthetic", "sandbox"}, evidenced : BOOLEAN]
  /\ capability \in [Capabilities -> [state : CapabilityStates, binding : SUBSET RuntimeModes,
                                      certified : BOOLEAN, eligible : BOOLEAN]]
  /\ decided \in 1..MaxDecisions
  /\ trail \in [Capabilities -> Seq(RuntimeModes \cup {"CERTIFIED", "SUSPENDED"})]

Last(s) == s[Len(s)]
LastBinding(s) == {s[i] : i \in {n \in 1..Len(s) : s[n] \in RuntimeModes
                                   /\ \A k \in n + 1..Len(s) : s[k] \notin RuntimeModes}}

\* A capability that may be activated was certified by the last decision about it,
\* for an executable binding outside the synthetic environment: what is decided of
\* another capability, of the organization, or in another order never makes it so.
ActivationIsCertified ==
  \A c \in Capabilities : capability[c].eligible =>
    /\ trail[c] # <<>> /\ Last(trail[c]) = "CERTIFIED"
    /\ LastBinding(trail[c]) = {"EXECUTABLE"} /\ organization.environment # "synthetic"

\* A certified organization had every capability it asked for certified after its
\* last binding; a later suspension of one does not change the organization.
CertifiedAsAWhole ==
  organization.state = "SANDBOX_CERTIFIED" =>
    \A c \in Capabilities : \E i \in 1..Len(trail[c]) :
      trail[c][i] = "CERTIFIED" /\ \A k \in i..Len(trail[c]) : trail[c][k] \notin RuntimeModes
=============================================================================
