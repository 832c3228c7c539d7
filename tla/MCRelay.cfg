CONSTANTS
    MaxFrames = 3
    SockCells = 2
    LowWater = 2
SPECIFICATION Spec
INVARIANT NothingLost
PROPERTY Delivered
CHECK_DEADLOCK FALSE
