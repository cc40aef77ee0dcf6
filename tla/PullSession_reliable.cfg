\* A reliable peer and backend: two objects of one or two chunks each,
\* either of them possibly already located.
CONSTANTS
    o1 = o1
    o2 = o2
    NoObj = NoObj
    Objects <- MCObjects
    MinChunks = 1
    MaxChunks = 2
    ChunkQueueCap = 2
    MaxBatchPasses = 20
    MaxRetries = 5
    MaxCorrupt = 0
    MaxResends = 0
    BackendFaults = FALSE
    StreamFaults = FALSE
    SharedShard = TRUE
SPECIFICATION Spec
INVARIANT AlreadySyncedOnlyPreLocated
PROPERTY SessionTerminates
PROPERTY ImplementsPullStore
