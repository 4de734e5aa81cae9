SPECIFICATION FairSpec
CONSTANTS
    Snapshots = {s1, s2}
    NoSnapshot = NoSnapshot
    Null = Null
    Operators = {}
    RetentionWindow = 1
    RollbackWindow = 1
    LedgerColumns <- ColumnsWithRunId
    MaxRetries <- DeployedRetries
    MaxClock = 2
CHECK_DEADLOCK FALSE
PROPERTIES
    StampWrittenOnce
    RunTerminates
