SPECIFICATION FairSpec
CONSTANTS
    r1 = r1
    r2 = r2
    r3 = r3
    r4 = r4
    r5 = r5
    r6 = r6
    Rules <- MCRules
    Listings <- MCListings
    PageSize = 2
    MaxChanges = 3
    MaxFaults = 1
INVARIANTS
    TypeOK
    PagesInRange
    ExactUndisturbed
PROPERTIES
    SettlesExact
