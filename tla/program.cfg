SPECIFICATION Spec
CONSTANTS
    Engines <- AllEngines
    PageSize = 2
    LocalCapacity = 2
    MayCancel = TRUE
INVARIANTS
    ContinuationSound
    CheckpointSound
    MtpSound
    DFlashSound
    ChecksHold
    WritesMapped
    WorkCovers
    PagesAccounted
CHECK_DEADLOCK FALSE
