SPECIFICATION ReadSpec
CONSTANTS
    Snapshots = {s1, s2}
    NoSnapshot = NoSnapshot
    rows = rows
    pointer = pointer
    Tables = {rows, pointer}
    Pointer = pointer
    Verified = {rows}
    Order <- MCOrder
    MaxSyncRetries = 1
    ResetSettings = {TRUE, FALSE}
    Requests = {r1, r2}
    Connections = {c1, c2, c3}
    NoConnection = NoConnection
SYMMETRY Symmetry
INVARIANTS
    PublishedAgrees
    PointerHasRows
    NoHoleAfterSuccess
    CleanReadsAnswer
PROPERTIES
    StrikesDoNotSpread
