SPECIFICATION Spec
CONSTANTS
    Workers = {w1, w2}
    Strategies = {"sql_only", "ai_agent"}
    Unset = Unset
    MaxRows <- SmallTables
    MaxLate = 1
SYMMETRY Symmetry
INVARIANTS
    PlanInputsWereSaved
    ReadyWasValidated
