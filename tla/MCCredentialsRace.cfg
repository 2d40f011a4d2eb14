SPECIFICATION CredentialSpec
CONSTANTS
  Operators = {1, 2}
  Transports = {"ssh"}
  MaxPairs = 3
CHECK_DEADLOCK FALSE
PROPERTY RotationKeepsAccess
