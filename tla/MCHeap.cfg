\* Five elements: the array doubles twice and halves once.
SPECIFICATION Spec
CONSTANTS
  Addrs <- MCAddrs
  HEAP_SIZE = 2
  INT_HALF = 8
  MaxElements = 5
INVARIANTS
  TypeOK
  SearchNarrows
PROPERTIES
  BagSpec
