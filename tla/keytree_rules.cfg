SPECIFICATION Spec
CONSTANTS
    Ids = {a, b}
    Values = {v}
    MaxSubkeys = 2
    MaxArray = 2
    MaxKeys = 5
PROPERTY
    ObeysTomlRules
    ClosedSealed
