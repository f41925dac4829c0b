SPECIFICATION Spec
CONSTANTS
    Requests = {1, 2, 3}
    Kinds <- LifeKinds
    Capacity <- LifeCapacity
    Need <- LifeNeed
    MaxConcurrency = 1
    MaxPending = 1
    Prompt <- LifePrompt
    OutTokens <- LifeOutput
    Reusable <- LifeReuse
    MaxAccept = 1
    BadPlan = {3}
    MayCancel = {1}
    MayExpire = {2}
    MayAbandon = {2}
    MayStop = TRUE
    MayFault = TRUE
INVARIANTS
    TypeOK
    CapacityExact
    RequestPlaced
    ReturnComplete
PROPERTY
    ImplementsLifecycle
CHECK_DEADLOCK FALSE
