CONSTANTS
  Jobs = {1, 2}
  Targets <- MCTargets
  TargetOf <- MCTargetOf
  Guards = {2}
  LegacyJobs = {}
  KeyOf <- MCKeyOf
  NoKey = NoKey
  Slots = {s1, s2}
  NoSlot = NoSlot
  OwnerOf <- MCDistinctOwners
  Ops = {"o1"}
  NoOp = NoOp
  NoTarget = NoTarget
  MaxAttempts = 2
  MaxRunning = 2
  MaxJobs = 0
  LeaseTTL = 2
  RetryDelay = 1
  ClockLag = 0
  MaxTime = 3
  MaxEpoch = 3
SYMMETRY SlotSymmetry
SPECIFICATION Spec
CHECK_DEADLOCK FALSE
INVARIANTS
  TargetSerialized
  OperationFencesJobs
  AttemptBudget
PROPERTIES
  CancellationSticks
  SuccessIsFinal
