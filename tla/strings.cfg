SPECIFICATION FairSpec
CONSTANTS
    MaxNumLines = 1
    Scenarios <- MCScenarios
    MaxLen = 5
    MaxString = 4
    MaxIdLength = 3
    Behind <- MCBehind
INVARIANTS
    TypeOK
    MeansWhatIsWritten
    RefusesOnlyOthers
PROPERTIES
    StringEnds
