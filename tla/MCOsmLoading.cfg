SPECIFICATION Spec
CONSTANTS
    Calls <- MCCalls
    MAX_BLOB_HEADER_SIZE = 3
    MAX_BLOB_SIZE = 7
    U32 = 16
INVARIANTS
    FilesSayTheirFeatures
    GoodFilesLoad
    XmlElementsStayApart
    PbfCutsLoseOnlyBlobs
    HeadersComeFirst
PROPERTIES
    Terminates
CHECK_DEADLOCK FALSE
