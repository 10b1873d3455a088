SPECIFICATION LoadSpec
CONSTANTS
    MaxNumLines = 1
    Scenarios <- MCScenarios
    MaxLen = 8
    MaxIdLength = 3
    MaxArray = 2
    MaxSubkeys = 2
    MaxKeys = 9
    k = k
    n = n
    kk = kk
    kn = kn
    nk = nk
    nn = nn
    Ids = {k, n, kk, kn, nk, nn}
    Name <- MCName
INVARIANTS
    DumpsWhatIsWritten
    RefusesOnlyWithCause
