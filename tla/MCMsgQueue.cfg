SPECIFICATION Spec
CONSTANTS
  Messages = {m1, m2}
  Dim = 4
  NULL = NULL
  Garbage = Garbage
INVARIANTS
  TypeOK
  WindowHoldsMessages
  RefsMatchSlots
  HeldIsFirst
  NullOnlyWhenDead
  AsleepOnlyWhenIdle
PROPERTIES
  FifoSpec
  MessageIsServed
  LogoutCompletes
CHECK_DEADLOCK FALSE
