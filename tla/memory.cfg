SPECIFICATION Spec
CONSTANTS
    MaxArray = 2
    MaxObjects = 12
INVARIANTS
    TypeOK
    FreedOnce
    NothingDangles
    FailedArraysFreed
