SPECIFICATION FairSpec
CONSTANTS
  BlobSizes = {2, 3}
  PipeCap = 2
  SigCap = 2
  MaxSignals = 3
  AgentExits = {0, 3}
  AgentSignals = {11, 15}
  BwrapExits = {1}
  KillSignals = {9, 15}
INVARIANTS
  TypeOK
  AgentHasAllOptions
  ReportedStatus
  NoDescriptorLeak
  PidOfLiveAgent
PROPERTIES
  GracefulFirst
  ExitReturns
  TwoSignalsReturn
CHECK_DEADLOCK FALSE
