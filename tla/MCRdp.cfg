SPECIFICATION Spec
CONSTANTS
    Elems <- MCElems
    PositionOf <- MCPositionOf
    Lines <- MCLines
    EpsilonsSq = {0, 1, 3}
INVARIANTS
    ReadsPrecedeWrites
    DroppedAreNear
    IsRamerDouglasPeucker
PROPERTIES
    Terminates
CHECK_DEADLOCK FALSE
