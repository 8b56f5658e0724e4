SPECIFICATION Spec
CONSTANTS
    r1 = r1
    r2 = r2
    r3 = r3
    r4 = r4
    Ids = {r1, r2, r3, r4}
    PlacesOf <- MCPlacesOf
    NoPlace = NoPlace
    Levels = {0, 1}
    MaxConnections = 1
    EfConstruction = 2
    EfSearch = 2
    RatioParts = 2
    RatioWhole = 3
    MaxNodes = 4
INVARIANTS
    GraphIsNavigable
    SmallGraphsAreExact
PROPERTIES
    IsAnIndex
CHECK_DEADLOCK FALSE
