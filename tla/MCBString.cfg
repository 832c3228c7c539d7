CONSTANTS
    Names = {x, y}
    Chars = {"a", "b", " "}
    Spaces = {" "}
    FILL = "b"
    Texts <- MCTexts
    Positions <- MCPositions
    Lengths <- MCLengths
    MIN_SIZE = 2
    INT_BITS = 6
    START_VSNBUFF = 2
    READ_STEP = 2
    BS_BUFF_SZ = 4
    MaxLen = 8
    MaxCalls = 3
SPECIFICATION Spec
SYMMETRY Symmetry
INVARIANT InBounds
PROPERTY StringCalls
CHECK_DEADLOCK FALSE
