SPECIFICATION Spec
CONSTANTS
    Requests = {r1}
    Policies <- BothPolicies
    TokenBytes <- Vocabulary
    StopStrings <- OverlappingStops
INVARIANTS
    OutputExact
    StopsAtFirst
