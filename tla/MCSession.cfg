SPECIFICATION Spec
CONSTANT
  MaxSent = 3
INVARIANTS
  TypeOK
  NeverRejected
  InStep
  HubIsLast
PROPERTY
  Establishes
\* Once both sides have left there is nothing more to do.
CHECK_DEADLOCK FALSE
