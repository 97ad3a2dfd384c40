SPECIFICATION Spec
CONSTANTS
    Threads = {t1, t2}
    Ids = {a, b}
    Vals = {u, v}
    None = None
    MaxRows = 3
    MaxBatch = 2
    Modes = {TRUE, FALSE}
    Operations = {"add", "add_batch", "remove", "compact", "get", "search"}
SYMMETRY Symmetry
INVARIANTS
    IdMapConsistent
    CountsAgree
    LiveRowsAreLinked
    CallOutcome
PROPERTIES
    ImplementsVectorMap
