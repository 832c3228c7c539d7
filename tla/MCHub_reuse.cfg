\* A client connects while another one leaves.
SPECIFICATION Spec
CONSTANTS
  NConns = 2
  Capacity = 2
  Kinds = {"ping"}
  MaxReads = 2
  SendBlocks = TRUE
  SendFails = FALSE
  Quiet = FALSE
  NULL = NULL
CHECK_DEADLOCK FALSE
INVARIANTS
  FinishedBeforeReuse
