SPECIFICATION Spec
CONSTANTS
  Members = {m1, m2}
  Nodes <- MCNodes
  Internal <- MCInternal
  Skipped = Skipped
  MaxPath = 3
  MaxTimes = 2
  NULL = NULL
INVARIANTS
  TypeOK
  Mutual
  NoGhosts
PROPERTIES
  RoutesStay
