SPECIFICATION Spec
CONSTANTS
    rawA = rawA
    verA = verA
    tagB = tagB
    tagC = tagC
    clean = clean
    None = None
    Names <- MCNames
    Tags <- MCTags
    NormalizeTag <- MCNormalizeTag
    CleanVersion <- MCCleanVersion
    SemverNames <- MCSemverNames
    MaxChanges = 2
    MaxFaults = 1
CHECK_DEADLOCK FALSE
PROPERTY
    InUseNeverCollected
