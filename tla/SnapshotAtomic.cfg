SPECIFICATION Spec
CONSTANTS
    Snapshots = {s1, s2}
    NoSnapshot = NoSnapshot
    Null = Null
    Operators = {}
    RetentionWindow = 1
    RollbackWindow = 1
    LedgerColumns <- DeclaredColumns
    MaxRetries <- OnlyPromoteRetries
    MaxClock = 2
CHECK_DEADLOCK FALSE
INVARIANTS
    PromotionIsAtomic
