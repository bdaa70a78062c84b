SPECIFICATION Spec
CONSTANTS
    MAGIC = 777
    Graphs <- MCGraphs
    Targets <- MCTargets
    Foreign <- MCForeign
    MaxReads = 2
INVARIANTS
    MergeIsUnion
    CutsLoseOnlyTheEnd
PROPERTIES
    ReadingNeverForgets
CHECK_DEADLOCK FALSE
