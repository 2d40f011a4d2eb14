CONSTANTS
  s1 = s1
  s2 = s2
  Slots = {s1, s2}
  Procs = {s1, s2}
  NoSlot = NoSlot
  OwnerOf <- MCReplicas
  Jobs = {1}
  Targets <- MCTargets
  TargetOf <- MCTargetOf
  Guards = {}
  LegacyJobs = {}
  NoKey = NoKey
  KeyOf <- MCKeyOf
  Ops = {}
  NoOp = NoOp
  NoTarget = NoTarget
  MaxAttempts = 2
  MaxRunning = 2
  MaxJobs = 0
  LeaseTTL = 2
  RetryDelay = 0
  ClockLag = 0
  MaxTime = 3
  MaxEpoch = 3
  Faults = {"restart", "timeout", "error"}
SYMMETRY ReplicaSymmetry
SPECIFICATION WorkerSpec
CHECK_DEADLOCK FALSE
INVARIANTS
  SucceededWasStored
  OneCollectionPerTarget
  OneReportPerRequest
PROPERTIES
  ArtifactKept
