SPECIFICATION Spec
CONSTANTS
    Pools <- TwoPools
    Handles = {h1, h2}
    PageGroupCount <- TwoPoolPages
    LogicalPageCapacity <- TwoPoolPages
    TableRows = 2
SYMMETRY HandleSymmetry
INVARIANTS
    TypeOK
    EntitlementHonoured
    NoPageAliased
    CountersExact
    TablePublished
    RowsExclusive
