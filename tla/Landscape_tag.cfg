SPECIFICATION Spec
CONSTANTS
    s1 = s1
    s2 = s2
    Tags <- MCTags
    Versions <- MCVersions
    Descriptors <- FewDescriptors
    Releases <- MCReleases
    Shoots <- MCShoots
    InitialRegistries <- FewRegistries
    MaxChanges = 0
    MaxFaults = 1
CHECK_DEADLOCK FALSE
INVARIANT HighestTag
