SPECIFICATION FairBacklogSpec
CONSTANTS
    Requests = {1, 2, 3}
    Kinds <- BackKinds
    Capacity <- BackCapacity
    Need <- BackNeed
    MaxConcurrency = 3
    MaxPending = 2
    Prompt <- BackPrompt
    OutTokens <- LiveOutput
    Reusable <- BackReuse
    MaxAccept = 1
    BadPlan = {}
    MayCancel = {}
    MayExpire = {}
    MayAbandon = {2}
    MayStop = TRUE
    MayFault = TRUE
PROPERTY
    CapacityComesBack
CHECK_DEADLOCK FALSE
