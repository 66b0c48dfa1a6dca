SPECIFICATION Spec
CHECK_DEADLOCK FALSE
CONSTANTS
    Nil = Nil
    i1 = i1
    i2 = i2
    i3 = i3
    i4 = i4
    i5 = i5
    m1 = m1
    m2 = m2
    Metrics <- MCMetrics
    Errors = {1, 2}
    Ops = {"LT", "GT"}
    Ids <- MCIds
    DefaultOp = "GT"
    FirstId <- MCFirstId
    OldIds <- MCOldIds
    MaxConditions = 2
INVARIANTS
    TypeOK
    VerdictExact
    SyncRealises
    NeverRefused
    UpdatesHaveIds
    LateInitSettles
