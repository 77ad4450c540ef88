SPECIFICATION PipelineSpec
CONSTANTS
    plain = plain
    amd = amd
    arm = arm
    build = build
    Tags <- MCTags
    Registries <- MCRegistries
    Spelled <- MCSpelled
    FeatureMap <- MCFeatureMap
    Required <- MCRequired
    InPlaceFeature = 1
    Parallel = 1
    SemVers <- MCSemVers
    Normal <- MCNormal
    EnableCapabilities = TRUE
    Plans <- MCPlans
    Listings <- MCListings
    Precedence <- MCPrecedence
INVARIANTS
    TypeOK
    NoneLeft
    ArrivalIndependent
    RegionsIndependent
    VariantsListed
    FlavorsResolve
    OneShape
    PreferredImage
    RegionsServed
PROPERTIES
    ImplementsSource
    CallsReturn
