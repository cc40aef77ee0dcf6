\* Reliable peer and backend; an ObjectInfo may announce zero chunks, which
\* the wire protocol allows (chunk frames 0 .. chunks-1).  Does the
\* session still end?
CONSTANTS
    o1 = o1
    o2 = o2
    NoObj = NoObj
    Objects <- MCOneObject
    MinChunks = 0
    MaxChunks = 1
    ChunkQueueCap = 2
    MaxBatchPasses = 20
    MaxRetries = 5
    MaxCorrupt = 0
    MaxResends = 0
    BackendFaults = FALSE
    StreamFaults = FALSE
    SharedShard = TRUE
SPECIFICATION Spec
PROPERTY SessionTerminates
CHECK_DEADLOCK FALSE
