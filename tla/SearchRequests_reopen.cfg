SPECIFICATION Spec
CONSTANTS
    U8 = 256
    U32 = 2000
    U64 = 3000
    FloatMax = 100
    kMaxJsonDepth = 4
    kMaxDim = 128
    kMinM = 2
    kMaxM = 512
    kMaxEf = 1000
    kMaxLevelCap = 32
    Limits <- MCLimits
    Threads = {t1, t2}
    None = None
    Contexts = {c1, c2}
    EpochMax = 2
    DefaultEf = 1
    MaxRows = 2
    Dim = 1
    Json <- MCJson
    Bodies <- MCBodies
    SearchBodies <- MCSearchBodies
SYMMETRY MCSymmetry
INVARIANT CreatedCollectionsReopen
