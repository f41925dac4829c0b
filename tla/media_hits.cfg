SPECIFICATION FairSpec
CONSTANTS
    Requests = {1, 2}
    Parts <- HitParts
    Bytes <- HitBytes
    Limit = 2
    CacheCapacity = 2
    MaxRequest = 2
    Threads = 1
    QueueCapacity = 1
    Broken = {}
    MayCancel = {}
    MayExpire = {}
    MaxStops = 0
PROPERTY
    AllocationEnds
CHECK_DEADLOCK FALSE
