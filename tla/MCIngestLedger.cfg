CONSTANTS
  Keys <- MCKeys
  Reports <- MCReports
  Payloads = {"d1", "d2"}
  Workers = {"w1"}
  Handlers = {"h1"}
  NoExecutor = NoExecutor
  MaxCompleted = 1
  Faults = {"crash", "error"}
  MaxFaults = 3
SPECIFICATION Spec
CHECK_DEADLOCK FALSE
INVARIANTS
  OutcomeIsBacked
  StoredOnce
PROPERTIES
  KeepsPromise
