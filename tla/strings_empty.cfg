SPECIFICATION Spec
CONSTANTS
    MaxNumLines = 1
    Scenarios <- MCScenarios
    MaxLen = 5
    MaxString = 4
    MaxIdLength = 3
    Behind <- MCBehind
INVARIANT
    EmptyStringIsValue
