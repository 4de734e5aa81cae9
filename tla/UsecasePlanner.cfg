SPECIFICATION Spec
CONSTANTS
    Tables = {t1, t2}
    Values = {v1}
    Absent = Absent
    ProfileMax = 2
    MaxRetries = 1
    MaxObservations = 3
    MaxChanges = 1
    Requests = {p1}
    Snapshots = {s1, s2}
    Anchored = {s1, s2}
    NoSnapshot = NoSnapshot
SYMMETRY Symmetry
INVARIANTS
    ReadModelAudited
    RefreshIsComplete
    ViewIsBacked
    StatusTruthful
    BuiltOnRecheckedEvidence
