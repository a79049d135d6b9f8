SPECIFICATION FairSpec
CONSTANTS
  NRelays = 2
  Capacity = 2
  MaxSent = 3
INVARIANTS
  TypeOK
  Conserved
  OpenWhileUsed
  CompleteResponse
PROPERTIES
  ChainCloses
CHECK_DEADLOCK FALSE
