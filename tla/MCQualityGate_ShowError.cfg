SPECIFICATION Spec
\* Nothing is left to do once the MR is gone or waits for a human.
CHECK_DEADLOCK FALSE
CONSTANTS
    Nil = Nil
    NoName = NoName
    c1 = c1
    builtIn = builtIn
    g1 = g1
    g2 = g2
    i1 = i1
    i2 = i2
    i3 = i3
    i4 = i4
    i5 = i5
    i6 = i6
    m1 = m1
    m2 = m2
    MRs <- MCMRs
    GateNames <- OwnGateNames
    BuiltIn = builtIn
    DefaultOp = "GT"
    Metrics <- MCMetrics
    Errors = {1, 2}
    Ops = {"GT"}
    Ids <- MCIds
    SpecName <- MCSpecName
    Wants <- MCWants
    InitExt <- ImportOwn
    FaultyCalls = {"Show"}
    MaxEdits = 0
    MaxAdmin = 0
    MaxFaults = 1
    MaxCrashes = 0
INVARIANTS
    CreatedGatesTracked
