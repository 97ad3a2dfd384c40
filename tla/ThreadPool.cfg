SPECIFICATION FairSpec
CONSTANTS
    Workers = {w1, w2}
    Callers = {c}
    Submitters = {m}
    Stoppers = {s1, s2}
    Chunks = 3
    None = None
INVARIANTS
    NoHelperOutlivesCall
    HelpersCounted
    ChunksCovered
    DrainedWhenStopped
PROPERTIES
    PoolProgress
