\* A client hangs up while a send to it is blocked.
SPECIFICATION Spec
CONSTANTS
  NConns = 1
  Capacity = 2
  Kinds = {"ping"}
  MaxReads = 2
  SendBlocks = TRUE
  SendFails = FALSE
  Quiet = TRUE
  NULL = NULL
CHECK_DEADLOCK FALSE
PROPERTIES
  LockExcludesOthers
