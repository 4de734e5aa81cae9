SPECIFICATION Spec
CONSTANTS
    Snapshots = {s1, s2}
    NoSnapshot = NoSnapshot
    Null = Null
    Operators = {o1}
    RetentionWindow = 1
    RollbackWindow = 1
    LedgerColumns <- ColumnsWithRunId
    MaxRetries <- OnlyPromoteRetries
    MaxClock = 2
SYMMETRY Symmetry
INVARIANTS
    TypeOK
    ActiveWasValidated
    RollbackAlwaysAvailable
    ActiveDeactivatedOnlyByOverlap
    SweepIsThorough
PROPERTY ImplementsRegistry
