SPECIFICATION Spec
CONSTANTS
    MaxNumLines = 2
    Char <- MCChar
    MaxLen = 8
    Stray <- MCStray
INVARIANTS
    TypeOK
    Coherent
    PrevPrevFresh
    NewlineFlag
PROPERTY
    LookaheadUndone
