SPECIFICATION Spec
CONSTANTS
    Calls <- FreeCalls
    Distance <- MCDistance
INVARIANT StepLimitBoundsPath
