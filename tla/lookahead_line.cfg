SPECIFICATION Spec
CONSTANTS
    MaxNumLines = 16
    Char <- MCChar
    MaxLen = 6
    Stray <- MCStray
INVARIANT
    LineNumberTrue
