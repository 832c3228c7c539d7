\* Clients and sockets do what they like.
SPECIFICATION Spec
CONSTANTS
  NConns = 2
  Capacity = 1
  Kinds = {"bad", "badid", "refused", "register", "unregister", "ping", "deliver"}
  MaxReads = 3
  SendBlocks = TRUE
  SendFails = TRUE
  Quiet = FALSE
  NULL = NULL
CHECK_DEADLOCK FALSE
INVARIANTS
  TypeOK
  RoutedAreLive
  ExchangesExclude
