SPECIFICATION FairSpec
CONSTANTS
  Conns = {"c1", "c2"}
  Scripts <- MCScripts
  Pieces = {1, 5}
  OutCap = 1
INVARIANTS
  TypeOK
PROPERTIES
  ServesCalls
  Served
CHECK_DEADLOCK FALSE
