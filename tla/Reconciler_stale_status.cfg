SPECIFICATION Spec
CONSTANTS
    b1 = b1
    b2 = b2
    l1 = l1
    l2 = l2
    i1 = i1
    i2 = i2
    k1 = k1
    k2 = k2
    None = None
    N = 1
    Bases <- MCBases
    BasesWithImages <- MCBasesWithImages
    Listings <- MCListings
    Ids <- MCIds
    Releases <- MCReleases
    KubeUpdate = FALSE
    GCEnabled = TRUE
    MaxGen = 1
    MaxUpsets = 2
CHECK_DEADLOCK FALSE
PROPERTY
    LatestObservation
