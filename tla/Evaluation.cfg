SPECIFICATION Spec
CONSTANTS
    q1 = q1
    blank = blank
    a1 = a1
    Questions <- MCQuestions
    Blank = blank
    Askers <- MCAskers
    Manifest <- MCManifest
    GateChoices <- MCGateChoices
    MinLive = 1
    JobRetries = 1
    Judged = TRUE
    MaxEvents = 3
    MaxJobs = 1
    MaxPages = 1
    MaxFaults = 1
INVARIANTS PassIsBacked GreenIsEarned RegisteredAfterSync
CHECK_DEADLOCK FALSE
