SPECIFICATION FairSpec
CONSTANTS
  Ports = {"11434", "9090"}
  Inputs <- MCInputs
  Calls <- MCCalls
  MaxTries = 3
INVARIANTS
  ProjectCannotWiden
  OnlyOwnHistory
  InPlace
  TiocstiDenied
PROPERTIES
  AgentStarts
CHECK_DEADLOCK FALSE
