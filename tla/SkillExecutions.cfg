SPECIFICATION FairSkillSpec
CONSTANTS
    Executions = {1, 2}
    Callers = {c1, c2}
    ToolFamilies = {"PySpark", "ML", "Code Convert"}
    NoFamily = NoFamily
    PoolSize = 1
    MaxAsked = 1
    Tags <- MCTags
    Hints <- MCHints
    MLUsecases <- MCMLUsecases
    Conversions <- MCConversions
INVARIANTS
    TypeOK
    DuplicatesOnlyByRace
    CompletedIsRecorded
    ProvenByOwnWork
    ApprovedIsTrainable
    
PROPERTY
    ExecutionsEnd
