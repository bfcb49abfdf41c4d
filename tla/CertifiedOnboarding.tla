-------------------------- MODULE CertifiedOnboarding -----------------------
(***************************************************************************)
(* The contract certification suite beside the onboarding record whose     *)
(* certification refers to its reports.  A report is made for a subject at *)
(* a level: common checks that the suite answers itself unless it is given *)
(* an observation for them, and the checks of a profile, which it is given *)
(* or which have not run.                                                  *)
(***************************************************************************)
EXTENDS PartnerOnboarding

CONSTANT ProfileChecks   \* required checks of a partner class's profile

VARIABLES
  report,   \* {} or the last report made, [capability, result]
  refs      \* [Capabilities -> the report its certification refers to, if any]

certifiedVars == <<vars, report, refs>>

Levels == {"L0_POLICY", "L1_SYNTHETIC", "L2_EXTERNAL_SANDBOX_TESTBED", "L3_STAGING", "L4_PRODUCTION_READINESS"}
Scopes == {"SCHEMA_POLICY", "FOUNDATION_OPERATION", "CAPABILITY_EXECUTION"}
Severities == {"BLOCKER", "HIGH", "MEDIUM", "LOW"}
CheckOutcomes == {"PASS", "FAIL", "NOT_RUN"}

\* The common checks that can fail; the others always pass.
CommonChecks == {"CERT.AUTH.PARTNER_SCOPE", "CERT.STATE.RUNTIME_MODE", "CERT.ENV.ISOLATION", "CERT.SECRETS.REFERENCE_ONLY"}

\* What is certified: whether its references are all of one partner, and free of
\* secrets, with the mode of the adapter, the environment and the scope.
Subjects ==
  [onePartner : BOOLEAN, clean : BOOLEAN, mode : RuntimeModes,
   environment : {"synthetic", "sandbox"}, scope : Scopes]

\* autoObservation.
AutoPasses(check, subject, level, controlled) ==
  CASE check = "CERT.AUTH.PARTNER_SCOPE" -> subject.onePartner
    [] check = "CERT.STATE.RUNTIME_MODE" ->
         ~(subject.mode = "FOUNDATION_ONLY" /\ subject.scope = "CAPABILITY_EXECUTION")
    [] check = "CERT.ENV.ISOLATION" ->
         \/ level = "L0_POLICY"
         \/ level = "L1_SYNTHETIC" /\ subject.environment = "synthetic"
         \/ level = "L2_EXTERNAL_SANDBOX_TESTBED" /\ subject.environment = "sandbox" /\ controlled
    [] check = "CERT.SECRETS.REFERENCE_ONLY" -> subject.clean

\* The observation of a check: the one supplied, whichever check it is for.
Outcome(check, supplied, subject, level, controlled) ==
  IF check \in DOMAIN supplied THEN supplied[check]
  ELSE IF check \in ProfileChecks THEN "NOT_RUN"
  ELSE IF AutoPasses(check, subject, level, controlled) THEN "PASS" ELSE "FAIL"

\* deriveResult.
Result(outcomes, findings) ==
  IF findings \cap {"BLOCKER", "HIGH"} # {} \/ "FAIL" \in outcomes THEN "FAIL"
  ELSE IF "NOT_RUN" \in outcomes THEN "INCOMPLETE" ELSE "PASS"

\* What the suite can say of a subject of the record, for all it may be given.
Results ==
  {Result({Outcome(k, supplied, subject, level, controlled) : k \in CommonChecks \cup ProfileChecks}, findings) :
     supplied \in UNION {[checks -> CheckOutcomes] :
                          checks \in SUBSET ProfileChecks \cup {{k} : k \in CommonChecks}},
     subject \in Subjects, level \in Levels, controlled \in BOOLEAN,
     findings \in {{}} \cup {{s} : s \in Severities}}

InitCertified == Init /\ report = {} /\ refs = [c \in Capabilities |-> {}]

-----------------------------------------------------------------------------
\* runContractCertification, for a capability of the record.
RunSuite(c) ==
  /\ \E result \in Results : report' = {[capability |-> c, result |-> result]}
  /\ UNCHANGED <<vars, refs>>

\* recordPartnerCapabilityCertification with the reference that the suite gives to
\* a report that passed, and that names its capability: nothing compares them.
CertifyWith(c) ==
  /\ \E r \in report : r.result = "PASS"
  /\ Certify(c)
  /\ refs' = [refs EXCEPT ![c] = report]
  /\ UNCHANGED report

BindAgain(role, c, mode) ==
  /\ Bind(role, c, mode)
  /\ refs' = [refs EXCEPT ![c] = {}]
  /\ UNCHANGED report

NextCertified ==
  \/ \E c \in Capabilities : RunSuite(c) \/ CertifyWith(c)
  \/ \E role \in Roles, c \in Capabilities, mode \in RuntimeModes : BindAgain(role, c, mode)
  \/ \E role \in Roles, target \in OrganizationStates :
       Transition(role, target) /\ UNCHANGED <<report, refs>>
  \/ \E c \in Capabilities : Suspend(c) /\ UNCHANGED <<report, refs>>

SpecCertified == InitCertified /\ [][NextCertified]_certifiedVars

-----------------------------------------------------------------------------
\* "onboarding cannot progress a different capability using another capability's
\* certification" (CONTRACT_CERTIFICATION_SUITE.md).
CertificationIsItsOwn ==
  \A c \in Capabilities : \A r \in refs[c] : r.capability = c
=============================================================================
