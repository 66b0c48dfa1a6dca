SPECIFICATION Spec
\* Nothing is left to do once the MRs are gone or wait for a human.
CHECK_DEADLOCK FALSE
CONSTANTS
    Nil = Nil
    NoName = NoName
    c1 = c1
    c2 = c2
    builtIn = builtIn
    g1 = g1
    i1 = i1
    i2 = i2
    i3 = i3
    i4 = i4
    m1 = m1
    MRs <- MCMRs
    GateNames <- MCGateNames
    BuiltIn = builtIn
    DefaultOp = "GT"
    Metrics <- MCMetrics
    Errors = {1, 2}
    Ops = {"GT"}
    Ids <- MCIds
    SpecName <- MCSpecName
    Wants <- MCWants
    InitExt <- MCInitExt
    FaultyCalls = {"Create", "SetAsDefault"}
    MaxEdits = 0
    MaxAdmin = 0
    MaxFaults = 1
    MaxCrashes = 1
INVARIANTS
    NoSharedGate
PROPERTIES
    KeepsLife
