SPECIFICATION FairSpec
CONSTANTS
    MaxNumLines = 1
    Scenarios <- MCScenarios
    MaxLen = 5
    MaxIdLength = 3
    MaxArray = 2
INVARIANTS
    TypeOK
    AcceptsOnlyDocuments
    RejectsOnlyOthers
PROPERTIES
    NeverRereads
    Returns
