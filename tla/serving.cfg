SPECIFICATION Spec
CONSTANTS
    Ids = {"a", "b", "c"}
    NodeBytes <- NodeSizes
    EnvelopeBytes <- EnvelopeSizes
    MaxRecords = 2
    MaxBytes = 9
    Shapes <- AllShapes
    MaxActive = 2
    MaxOthers = 1
    MaxDeltas = 1
    MaxLookups = 1
    MaxDepartures = 1
INVARIANTS
    StoreBounded
    StoredBeforeTerminal
    ContextWhole
    CapacityExact
    OneTerminal
PROPERTY
    EvictionInOrder
