SPECIFICATION Spec
CONSTANTS
    None = None
    Blank = Blank
    ChunkWords = 10
    OverlapWords = 1
    TopOrder <- MCTopOrder
    ReadVerbs <- MCReadVerbs
    WriteVerbs <- MCWriteVerbs
    PhaseByVerb <- MCPhaseByVerb
    SdkRules <- MCSdkRules
    SdkSlugs <- MCSdkSlugs
    PathRules <- MCPathRules
    OperationSlugs <- MCOperationSlugs
    SectionMeta <- MCSectionMeta
    DocsRules <- MCDocsRules
    PhaseMeta <- MCPhaseMeta
    LabsDefault = "migrate"
    Days <- MCDays
    World <- MCWorld
    SkillSettings <- MCSkillSettings
    SkillSetting <- MCSkillSetting
    SkipSettings <- MCSkip
    ExtensionOrder <- MCExtensionOrder
    BatchSize = 2
    UpsertSize = 3
    TokenCap = 5
    Outages <- MCOutages
    MaxRetries = 1
    QuietRuns = 2
    MaxFaults = 2
INVARIANTS
    ChunksOverlap
    BestSourceWins
    EdgesGrounded
    VectorsEncodeTexts
    MissingIsReported
    CatchesUp
