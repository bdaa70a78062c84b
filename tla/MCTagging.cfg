SPECIFICATION Spec
CONSTANTS
    Profiles <- MCProfiles
    Schemes <- MCSchemes
    MaxTags = 3
INVARIANTS
    BuilderMayRelyOnWays
PROPERTIES
    SpecificTagsShield
    EarlierRowsShield
