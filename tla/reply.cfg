SPECIFICATION Spec
CONSTANTS
    MaxFree = 4
    MaxAround = 2
    Texts <- AllTexts
    Reasonings <- SomeReasoning
    Apis = {"responses", "messages", "chat"}
INVARIANTS
    NeverRetracted
    RepliesAssembled
