SPECIFICATION FairSpec
CONSTANTS
    Controllers = {a, b}
    Versions <- MCVersions
    Dates <- MCDates
    Listings <- MCListings
    Bases <- MCBases
    MaxChanges = 2
    None = None
INVARIANTS
    TypeOK
    SpecDateWins
    UndatedAsSaid
PROPERTIES
    DateKept
    DatesSettle
    Converges
