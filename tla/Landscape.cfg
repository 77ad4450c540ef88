SPECIFICATION FairSpec
CONSTANTS
    s1 = s1
    s2 = s2
    Tags <- MCTags
    Versions <- MCVersions
    Descriptors <- MCDescriptors
    Releases <- MCReleases
    Shoots <- MCShoots
    InitialRegistries <- MCInitialRegistries
    MaxChanges = 2
    MaxFaults = 1
INVARIANT TypeOK
PROPERTIES
    PublishesEntailed
    NeverWiped
    Converges
