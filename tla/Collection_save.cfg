SPECIFICATION FairSpec
CONSTANTS
    Threads = {t1, t2}
    Ids = {a, b}
    Vals = {u}
    None = None
    MaxRows = 2
    MaxBatch = 2
    Modes = {TRUE}
    Operations = {"add_batch", "compact", "search", "save", "load"}
INVARIANTS
    SavedRowsAreLinked
PROPERTIES
    ImplementsVectorMap
    EveryCallReturns
