\* Three connections whose sends may fail, but do not block.
SPECIFICATION Spec
CONSTANTS
  NConns = 3
  Capacity = 1
  Kinds = {"register", "unregister", "ping", "deliver"}
  MaxReads = 2
  SendBlocks = FALSE
  SendFails = TRUE
  Quiet = TRUE
  NULL = NULL
CHECK_DEADLOCK FALSE
INVARIANTS
  NoFault
  ClosedListSound
