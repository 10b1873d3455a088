SPECIFICATION Spec
CONSTANTS
    Ids = {a, b, c}
    Values = {v, w}
    MaxSubkeys = 2
    MaxArray = 2
    MaxKeys = 6
SYMMETRY MCSymmetry
INVARIANTS
    TypeOK
    TreeShaped
    ArrayTablesReady
    LeavesFresh
    InlineMerges
    ValueOrSubkeys
    FoundByPath
    DumpReadsBack
PROPERTY
    ValuesKept
