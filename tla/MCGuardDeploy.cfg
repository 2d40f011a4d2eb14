SPECIFICATION GuardSpec
CONSTANTS
  d1 = d1
  d2 = d2
  c1 = c1
  old = old
  none = none
  Deployers = {d1, d2}
  Closers = {c1}
  Old = old
  None = none
  Build <- MCBuild
  MaxTroubles = 2
SYMMETRY SymmetricDeployers
INVARIANTS
  FailedIsRestored
  HostIsWhole
PROPERTIES
  ActivatedIsWhole
  TeardownIsExact
