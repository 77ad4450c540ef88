SPECIFICATION Spec
CONSTANTS
    b1 = b1
    b2 = b2
    l1 = l1
    l2 = l2
    i1 = i1
    i2 = i2
    k1 = k1
    k2 = k2
    None = None
    N = 2
    Bases <- MCBases
    BasesWithImages <- MCBasesWithImages
    Listings <- MCOneListing
    Ids <- MCTwoIds
    Releases <- MCReleases
    KubeUpdate = FALSE
    GCEnabled = TRUE
    MaxGen = 3
    MaxUpsets = 1
CHECK_DEADLOCK FALSE
INVARIANTS
    TypeOK
    NeverForgotten
    AllOrNothing
    AppliedOrHealing
    CoherentOrHealing
PROPERTY
    PauseHolds
SYMMETRY MCSymmetry
