SPECIFICATION RSpec
CONSTANTS
    profile <- CAR_PROFILE
    MAX_NODE_ID = 100
    Sessions <- MCSessions
    Distance <- MCDistance
    WalkLength = 4
INVARIANTS
    ClonesHaveCanonicals
    EdgesCoverDistance
    RestrictionsInOrderHold
    OnlyRestrictionsBite
    CostsAreThoseOfRoads
    OnlyDeletionsLeaveDanglingEdges
    OnlyFailuresLeaveOrphans
PROPERTIES
    NodesStay
