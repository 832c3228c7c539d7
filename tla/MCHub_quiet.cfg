\* Sends may fail but do not block, messages are well formed, and nobody
\* connects while a connection closes.
SPECIFICATION Spec
CONSTANTS
  NConns = 2
  Capacity = 2
  Kinds = {"register", "unregister", "ping", "deliver"}
  MaxReads = 3
  SendBlocks = FALSE
  SendFails = TRUE
  Quiet = TRUE
  NULL = NULL
CHECK_DEADLOCK FALSE
INVARIANTS
  NoFault
  ClosedListSound
PROPERTIES
  GracefulShutdown
  QueuesDrain
