\* One object of up to three chunks over an unreliable network, peer and
\* backend: chunks arrive corrupted, the peer honours resend requests (so
\* chunks reach the validator duplicated and out of order), the stream may
\* break and backend or metadata-server calls may fail.  A session may then
\* hang (the validator waits for a chunk that never comes), so deadlock is
\* not checked here.
CONSTANTS
    o1 = o1
    o2 = o2
    NoObj = NoObj
    Objects <- MCOneObject
    MinChunks = 1
    MaxChunks = 3
    ChunkQueueCap = 2
    MaxBatchPasses = 3
    MaxRetries = 2
    MaxCorrupt = 3
    MaxResends = 3
    BackendFaults = TRUE
    StreamFaults = TRUE
    SharedShard = TRUE
SPECIFICATION Spec
INVARIANT TypeOK
CHECK_DEADLOCK FALSE
