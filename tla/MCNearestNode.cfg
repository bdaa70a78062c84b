SPECIFICATION Spec
CONSTANTS
    Ids = {1, 2, 3, 4, 5, 6}
    CloneOf <- MCCloneOf
    Positions <- MCPositions
    Queries <- MCQueries
INVARIANTS
    TreeFindsNearest
CHECK_DEADLOCK FALSE
