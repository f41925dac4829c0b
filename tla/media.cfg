SPECIFICATION FairSpec
CONSTANTS
    Requests = {1, 2, 3}
    Parts <- ShareParts
    Bytes <- ShareBytes
    Limit = 6
    CacheCapacity = 5
    MaxRequest = 3
    Threads = 1
    QueueCapacity = 1
    Broken = {"bad"}
    MayCancel = {1}
    MayExpire = {1}
    MaxStops = 1
INVARIANTS
    FrameOutlivesBuilder
    CacheExact
    LiveBounded
    Isolation
PROPERTY
    PreparationEnds
CHECK_DEADLOCK FALSE
