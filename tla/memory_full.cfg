SPECIFICATION Spec
CONSTANTS
    MaxArray = 2
    MaxObjects = 6
INVARIANT
    DeletesWithinArray
