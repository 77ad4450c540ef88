SPECIFICATION Spec
CONSTANTS
    r1 = r1
    r2 = r2
    Regions <- MCRegions
    Versions <- OneVersion
    Listings <- FewListings
    Parallel = 1
    Params <- AllRegions
    MaxCalls = 1
CHECK_DEADLOCK FALSE
INVARIANT PresentEverywhere
