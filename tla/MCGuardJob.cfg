SPECIFICATION JobSpec
CONSTANTS
  Jobs = {"j1", "j2"}
  Workers = {"w1", "w2"}
  MaxAttempts = 2
  MaxGen = 4
  MaxTroubles = 3
  Prompt = TRUE
CHECK_DEADLOCK FALSE
PROPERTIES
  SucceededIsDeployed
  GivenUpIsTornDown
