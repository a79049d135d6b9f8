SPECIFICATION FairSpec
CONSTANTS
  NPorts = 2
  MaxDials = 2
INVARIANTS
  TypeOK
  ReadyBeforeRun
  NothingLeft
  FailureUndone
PROPERTIES
  NoHandlerAfterClose
  CloseEnds
CHECK_DEADLOCK FALSE
