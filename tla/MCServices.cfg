SPECIFICATION ServicesSpec
CONSTANTS
  p1 = p1
  p2 = p2
  d1 = d1
  f1 = f1
  f2 = f2
  Alerts = {"a1"}
  Incidents = {"i1"}
  Members <- AllMembers
  Syncers = {p1, p2}
  Overlap = 1
  Lookback = 1
  LeaseTime = 2
  MaxTime = 3
  MaxMisses = 1
  Devices = {d1}
  Findings = {f1, f2}
  DeviceOf <- OneDevice
  VmSyncers = {p1, p2}
  Refresh = 2
  Horizon = 3
  DeltaOverlap = 1
  VmLeaseTime = 2
  MaxVmTime = 4
  MaxVmMisses = 1
  Keys = {p1, p2}
  MaxId <- RowBound
  Backends = {"sqlite", "jsonl"}
  MaxRows = 4
  PageSize = 2
  MaxTears = 1
  MaxBurst = 2
  ScheduleIds = {"a", "b"}
  Interval = 2
  MaxTickAge = 2
  Operators = {1}
  Transports = {"ssh", "winrm"}
  MaxPairs = 4
  Contents <- SmallContents
  MaxItems = 2
  MaxMatches = 2
  MaxBytes = 8
  EmptyBytes = 4
  IdExcess = 0
  MaxPosts = 2
  Payloads = {"a", "b", "broken", "large"}
  Batches = {"b", "large"}
  Size <- Sizes
  Invalid = {"broken"}
  Uploaders = {p1, p2}
  QueueBytes = 2
  DeadItems = 1
  DeadBytes = 2
  MaxMishaps = 1
SYMMETRY Same
CHECK_DEADLOCK FALSE
INVARIANTS
  WatermarkCovers
  MaterializedIsUpstream
  ActiveIsShown
  ReadMissesNothing
  ServedIsCurrent
  PeriodIsCovered
  NeverLockedOut
  RotationIsClean
  UploadIsWhole
  SpooledIsKept
PROPERTY
  SpacedRuns
  ReplayInOrder
