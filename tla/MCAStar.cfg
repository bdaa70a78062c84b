SPECIFICATION FairSpec
CONSTANTS
    Calls <- MCCalls
    Distance <- MCDistance
INVARIANTS
    LinksDescend
    FrontierIsComplete
    RouteIsReal
    ArrivesCheapest
PROPERTIES
    MeetsContract
