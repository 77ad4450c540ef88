SPECIFICATION FairSpec
CONSTANTS
    b1 = b1
    b2 = b2
    l1 = l1
    l2 = l2
    i1 = i1
    i2 = i2
    k1 = k1
    k2 = k2
    None = None
    N = 1
    Bases <- MCBases
    BasesWithImages <- MCBasesWithImages
    Listings <- MCListings
    Ids <- MCIds
    Releases <- MCTwoReleases
    KubeUpdate = TRUE
    GCEnabled = TRUE
    MaxGen = 2
    MaxUpsets = 1
CHECK_DEADLOCK FALSE
PROPERTY
    Converges
