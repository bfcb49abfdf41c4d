SPECIFICATION SpecCertified
CONSTANTS
  Capabilities = {"c1", "c2"}
  MaxDecisions = 10
  ProfileChecks = {"PROFILE"}
INVARIANTS CertificationIsItsOwn
CHECK_DEADLOCK FALSE
