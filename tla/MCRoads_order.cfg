SPECIFICATION RSpec
CONSTANTS
    profile <- CAR_PROFILE
    MAX_NODE_ID = 100
    Sessions <- OutOfOrderSessions
    Distance <- MCDistance
    WalkLength = 4
INVARIANT RestrictionsHold
