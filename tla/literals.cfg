SPECIFICATION FairSpec
CONSTANTS
    MaxNumLines = 1
    Scenarios <- MCScenarios
    MaxLen = 5
    MaxString = 28
    MaxUlong = 255
    MaxExact = 32
INVARIANTS
    TypeOK
    MeansWhatIsWritten
    RefusesOnlyOthers
    PrintsWhatWasRead
PROPERTY
    LiteralEnds
