SPECIFICATION BacklogSpec
CONSTANTS
    Requests = {1, 2, 3, 4}
    Kinds <- BackKinds
    Capacity <- BackCapacity
    Need <- BackNeed
    MaxConcurrency = 3
    MaxPending = 2
    Prompt <- BackPrompt
    OutTokens <- BackOutput
    Reusable <- BackReuse
    MaxAccept = 1
    BadPlan = {}
    MayCancel = {2}
    MayExpire = {}
    MayAbandon = {}
    MayStop = FALSE
    MayFault = FALSE
INVARIANTS
    NoInternalError
    PlansHold
    PrefillOwned
    HeadProtected
PROPERTY
    CreditNeverGrows
CHECK_DEADLOCK FALSE
