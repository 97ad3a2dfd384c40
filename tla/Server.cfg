SPECIFICATION FairSpec
CONSTANTS
    Workers = {w1, w2}
    BatchSlots = 1
    MaxRequests = 2
    MaxIncs = 2
    Routes = {"readyz", "create", "drop", "snapshot", "insert", "search_batch", "get"}
INVARIANTS
    ResourcesAccounted
    NoRequestOutlivesStop
    AcknowledgedInsertsAreSaved
    ResponsesRecorded
PROPERTIES
    ShutdownCompletes
