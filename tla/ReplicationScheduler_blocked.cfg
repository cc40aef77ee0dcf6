\* Sessions may hang (PullSession shows how), each endpoint in a shard of
\* its own: does the receive task still handle every request?  A hung
\* session stops the process task for good, so deadlock is not checked.
CONSTANTS
    e1 = e1
    e2 = e2
    a = a
    b = b
    Endpoints <- MCEndpoints
    Objects <- MCObjects
    MaxIntents = 2
    SessionFaults = FALSE
    SessionHangs = TRUE
    SharedShard = FALSE
    EvictUnlocated = FALSE
SPECIFICATION Spec
PROPERTY RequestsHandled
CHECK_DEADLOCK FALSE
