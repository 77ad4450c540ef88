SPECIFICATION FairSpec
CONSTANTS
    r1 = r1
    r2 = r2
    Regions <- MCRegions
    Versions <- MCVersions
    Listings <- MCListings
    Parallel = 1
    Params <- MCParams
    MaxCalls = 2
CHECK_DEADLOCK FALSE
INVARIANTS
    TypeOK
    OrderIndependent
    FailsForAReason
    NeverBlocks
PROPERTIES
    CallsReturn
    NoneLeaks
    ImplementsSource
