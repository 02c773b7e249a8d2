CONSTANTS
  LogTries = 1
  NoStatus = NoStatus
SPECIFICATION Spec
CHECK_DEADLOCK FALSE
INVARIANTS
  RmCascades
