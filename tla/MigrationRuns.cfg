SPECIFICATION FairSpec
CONSTANTS
    r1 = r1
    r2 = r2
    Runs <- MCRuns
    Workflow <- MCWorkflow
    Found <- MCFound
    Pollers = {p1}
    PoolSize = 1
    MaxLate = 1
INVARIANTS
    InterruptedMeansLost
    ResultsNotHidden
PROPERTIES
    AnswersMoveForward
    RunsEnd
