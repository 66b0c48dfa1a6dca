SPECIFICATION FairSpec
\* Nothing is left to do once the MR is gone or waits for a human.
CHECK_DEADLOCK FALSE
CONSTANTS
    Nil = Nil
    NoKey = NoKey
    NoName = NoName
    Empty = Empty
    c1 = c1
    kb = kb
    k1 = k1
    k2 = k2
    k3 = k3
    k4 = k4
    builtIn = builtIn
    n1 = n1
    n2 = n2
    r1 = r1
    r2 = r2
    r3 = r3
    i1 = i1
    MRs <- MCMRs
    Keys <- MCKeys
    BuiltIn = kb
    Names <- MCNames
    BuiltInName = builtIn
    Rules <- MCRules
    KnownRules <- MCKnownRules
    Severities = {"MINOR", "MAJOR"}
    ImpactMaps <- MCImpactMaps
    ParamMaps = {}
    Fresh <- MCFresh
    Handmade <- MCHandmade
    Starts <- MCStarts
    Wants <- MCWants
    InitExt <- ImportHandmade
    FaultyCalls = {"Search", "CreateReply", "ActivateRule"}
    MaxEdits = 1
    MaxAdmin = 1
    MaxFaults = 1
    MaxCrashes = 1
INVARIANTS
    TypeOK
    CreatedProfilesTracked
PROPERTIES
    SyncedProfileUntouched
    KeepsLife
    ProfileConverges
    DeletionCompletes
