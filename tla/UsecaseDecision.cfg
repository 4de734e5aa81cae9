SPECIFICATION Spec
CONSTANTS
    Workers = {w1}
    Strategies = {"sql_only"}
    Unset = Unset
    MaxRows <- SecondPlan
    MaxLate = 0
INVARIANTS
    ReadyIsForNewestPlan
