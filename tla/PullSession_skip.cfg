\* One object over a peer that corrupts a chunk and resends it on request:
\* is an object committed to the cache holding exactly its chunks?  A
\* resend that arrives after the validator returned can fill the queue
\* while the demux holds the map Ref, and the driver's remove then waits
\* for ever (the shard-lock deadlock), so deadlock is not checked here.
CONSTANTS
    o1 = o1
    o2 = o2
    NoObj = NoObj
    Objects <- MCOneObject
    MinChunks = 1
    MaxChunks = 3
    ChunkQueueCap = 2
    MaxBatchPasses = 3
    MaxRetries = 2
    MaxCorrupt = 1
    MaxResends = 1
    BackendFaults = FALSE
    StreamFaults = FALSE
    SharedShard = TRUE
SPECIFICATION Spec
INVARIANT CommittedIntact
CHECK_DEADLOCK FALSE
