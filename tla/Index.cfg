SPECIFICATION Spec
CONSTANTS
    RowsPerChunk = 2
    MaxRows = 3
    Unset = Unset
    M = 2
    EfConstruction = 2
    EfSearch = 1
    WordBits = 2
    BufferBytes = 400
    Invalid = 99
    Ids = {a, b}
    Vals <- MCVals
    Configs <- MCConfigs
    MaxLevel = 1
    Queries <- MCQueries
    Ks = {1, 2}
    Efs = {0, 3}
    MaxFailures = 1
    MaxRestarts = 1
    DamageRows = 2
INVARIANTS RowsAreKept GraphIsValid SearchesAreExact SavesRoundTrip DamagedFilesAreSafe
SYMMETRY MCSymmetry
CHECK_DEADLOCK FALSE
