CONSTANTS
  Jobs = {1, 2, 3, 4}
  Targets <- MCTargets
  TargetOf <- MCTargetOf
  Guards = {}
  LegacyJobs = {3}
  KeyOf <- MCKeyOf
  NoKey = NoKey
  Slots = {s1, s2}
  NoSlot = NoSlot
  OwnerOf <- MCSameOwner
  Ops = {}
  NoOp = NoOp
  NoTarget = NoTarget
  MaxAttempts = 1
  MaxRunning = 1
  MaxJobs = 2
  LeaseTTL = 1
  RetryDelay = 1
  ClockLag = 0
  MaxTime = 2
  MaxEpoch = 2
SYMMETRY SlotSymmetry
SPECIFICATION Spec
CHECK_DEADLOCK FALSE
INVARIANTS
  RunningCapRespected
PROPERTIES
  HeadsSurvive
