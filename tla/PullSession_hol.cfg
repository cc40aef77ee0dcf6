\* Reliable peer and backend, objects with more chunks than a chunk queue
\* holds (capacity 100 in the code, 1 here against objects of two chunks):
\* the peer sends one object while the driver waits for the other.
CONSTANTS
    o1 = o1
    o2 = o2
    NoObj = NoObj
    Objects <- MCObjects
    MinChunks = 1
    MaxChunks = 2
    ChunkQueueCap = 1
    MaxBatchPasses = 3
    MaxRetries = 5
    MaxCorrupt = 0
    MaxResends = 0
    BackendFaults = FALSE
    StreamFaults = FALSE
    SharedShard = TRUE
SPECIFICATION Spec
PROPERTY SessionTerminates
CHECK_DEADLOCK FALSE
