SPECIFICATION Spec
CONSTANTS
    MAGIC = 777
    Addresses = {101, 102, 103, 104}
    MaxAllocated = 3
    Nodes <- MCNodes
    Edges <- MCEdges
    Clients <- MCClients
    CustomProfiles <- MCCustomProfiles
    U32 = 6
INVARIANTS
    CallsAreDefined
    NothingLeaks
    IterationIsWhole
    TrueMeansWritten
    ProfilesArriveAsGiven
