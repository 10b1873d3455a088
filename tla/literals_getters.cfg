SPECIFICATION Spec
CONSTANTS
    MaxNumLines = 1
    Scenarios <- MCScenarios
    MaxLen = 5
    MaxString = 28
    MaxUlong = 255
    MaxExact = 32
INVARIANT
    GettersPointToValue
