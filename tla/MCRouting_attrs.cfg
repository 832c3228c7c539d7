SPECIFICATION Spec
CONSTANTS
  Members = {m1, m2}
  Nodes <- MCManyAttributes
  Internal <- MCInternal
  Skipped = Skipped
  MaxPath = 3
  MaxTimes = 2
  NULL = NULL
INVARIANTS
  FoundAgain
