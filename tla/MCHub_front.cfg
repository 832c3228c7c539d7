\* Two clients that hang up together.
SPECIFICATION Spec
CONSTANTS
  NConns = 2
  Capacity = 2
  Kinds = {"register", "ping", "deliver"}
  MaxReads = 3
  SendBlocks = FALSE
  SendFails = FALSE
  Quiet = TRUE
  NULL = NULL
CHECK_DEADLOCK FALSE
INVARIANTS
  FrontJustClosed
