SPECIFICATION Spec
CONSTANTS
    Engines <- DFlashPair
    PageSize = 2
    LocalCapacity = 2
    MayCancel = TRUE
INVARIANT
    DFlashSound
CHECK_DEADLOCK FALSE
