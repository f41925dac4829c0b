SPECIFICATION Spec
CONSTANTS
    Engines <- SquareEngine
    PageSize = 2
    LocalCapacity = 2
    MayCancel = TRUE
INVARIANT
    RotaryPositions
CHECK_DEADLOCK FALSE
