SPECIFICATION Spec
CONSTANTS
  Ports = {"11434", "9090"}
  Inputs <- MCInputs
  Calls <- MCCalls
  MaxTries = 3
INVARIANTS
  EnvOnlyListed
CHECK_DEADLOCK FALSE
