CONSTANTS
  Keys <- MCKeys
  Reports <- MCReports
  Payloads = {"d1"}
  Workers = {"w1", "w2"}
  Handlers = {}
  NoExecutor = NoExecutor
  MaxCompleted = 1
  Faults = {"crash", "error", "heartbeat", "stall"}
  MaxFaults = 2
SPECIFICATION Spec
CHECK_DEADLOCK FALSE
PROPERTIES
  AcceptedIsFinished
  OutcomeIsFinal
