SPECIFICATION Spec
CONSTANTS
    Names = {a}
    Threads = {t1, t2}
    MaxIncs = 2
    MaxVer = 1
    MaxGen = 2
    None = None
SYMMETRY Symmetry
INVARIANTS
    OpenSucceeds
    RestartKeepsPromises
    LiveDirectoriesAreSafe
    DroppedNamesAreFreed
