CONSTANTS
  Targets = {"t1"}
  Hosts = {"h1"}
  ScopeSets = {"guard"}
  Issuers = {i1, i2}
  NoIssuer = NoIssuer
  DeployKeys = {"k1"}
  NoKey = NoKey
  None = None
  Validity = 3
  Overlap = 2
  ClockLag = 1
  MaxTime = 3
  MaxGeneration = 3
SYMMETRY IssuerSymmetry
SPECIFICATION IdentitySpec
CHECK_DEADLOCK FALSE
INVARIANTS
  RotationWindow
  RevokedIsDead
  BundleMatchesLeaf
PROPERTIES
  GenerationNeverReused
