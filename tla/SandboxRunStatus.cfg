SPECIFICATION Spec
CONSTANTS
  BlobSizes = {2}
  PipeCap = 2
  SigCap = 2
  MaxSignals = 0
  AgentExits = {0, 3}
  AgentSignals = {11, 15}
  BwrapExits = {1}
  KillSignals = {9, 15}
INVARIANTS
  NoStatusWithoutOptions
CHECK_DEADLOCK FALSE
