SPECIFICATION Spec
CONSTANT
  MaxSent = 1
INVARIANT
  SuccessMeansEstablished
CHECK_DEADLOCK FALSE
