SPECIFICATION FairSpec
\* Nothing is left to do once the resource is gone.
CHECK_DEADLOCK FALSE
CONSTANTS
    Nil = Nil
    Empty = Empty
    c1 = c1
    k1 = k1
    k2 = k2
    k3 = k3
    s1 = s1
    s2 = s2
    l1 = l1
    MRs <- MCMRs
    Keys <- MCKeys
    Scalars <- MCScalars
    Lists <- MCLists
    Maps = {}
    Defaults <- MCDefaults
    Wants <- MCWants
    MaxEdits = 2
    MaxAdmin = 1
    MaxFaults = 1
    MaxCrashes = 1
INVARIANTS
    TypeOK
    NothingReset
PROPERTIES
    SettingsConverge
    DeletionCompletes
