\* A send fails while the reader waits for the lock.
SPECIFICATION Spec
CONSTANTS
  NConns = 1
  Capacity = 2
  Kinds = {"ping"}
  MaxReads = 3
  SendBlocks = TRUE
  SendFails = TRUE
  Quiet = TRUE
  NULL = NULL
CHECK_DEADLOCK FALSE
PROPERTIES
  GracefulShutdown
