SPECIFICATION MdvmSpec
CONSTANTS
  d1 = d1
  Devices = {d1}
  Findings = {"f1"}
  DeviceOf <- OneDevice
  VmSyncers = {"p1"}
  Refresh = 2
  Horizon = 3
  DeltaOverlap = 1
  VmLeaseTime = 2
  MaxVmTime = 4
  MaxVmMisses = 0
CHECK_DEADLOCK FALSE
INVARIANT FixedIsShown
