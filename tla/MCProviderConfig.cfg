SPECIFICATION FairSpec
\* Nothing is left to do once the MRs and their configurations are gone.
CHECK_DEADLOCK FALSE
CONSTANTS
    Nil = Nil
    c1 = c1
    p1 = p1
    q1 = q1
    s1 = s1
    MRs <- MCMRs
    Configs <- MCConfigs
    Secrets <- MCSecrets
    Kind <- MCKind
    Specs <- MCSpecs
    Refs <- MCRefs
    MaxChanges = 2
INVARIANTS
    TypeOK
    UsedConfigKept
PROPERTIES
    ConnectSucceeds
    DeletionCompletes
    UnusedConfigGoes
