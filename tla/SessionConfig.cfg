SPECIFICATION Spec
CONSTANTS
  NPorts = 1
  MaxDials = 1
INVARIANTS
  ConfigDeleted
CHECK_DEADLOCK FALSE
