\* A delivery to a connection that is aborting.
SPECIFICATION Spec
CONSTANTS
  NConns = 2
  Capacity = 2
  Kinds = {"bad", "register", "deliver"}
  MaxReads = 3
  SendBlocks = FALSE
  SendFails = FALSE
  Quiet = TRUE
  NULL = NULL
CHECK_DEADLOCK FALSE
INVARIANTS
  SendsOnlyInSending
