\* Structures of at most four nodes, in every shape; hate up to level 2 allowed.
SPECIFICATION Spec
CONSTANTS
  Attrs <- MCAttrs
  Words <- MCWords
  Numbers <- MCNumbers
  Floats <- MCFloats
  Strings <- MCStrings
  Blobs <- MCBlobs
  Levels <- MCLevels
  MaxHate = 2
  MaxNodes = 4
  MAX_TREE_DEEP = 8
INVARIANTS
  TypeOK
  RoundTrip
  MessageArrives
  FormatsAgree
  HateIsAnswered
  FreedOnce
CHECK_DEADLOCK FALSE
