\* A session may fail (any `?` in process, or the finalizer finding an
\* object short of chunks): is every endpoint still served?  Once the
\* process task has ended nothing runs but the receive task, so deadlock
\* is not checked.
CONSTANTS
    e1 = e1
    e2 = e2
    a = a
    b = b
    Endpoints <- MCEndpoints
    Objects <- MCObjects
    MaxIntents = 3
    SessionFaults = TRUE
    SessionHangs = FALSE
    SharedShard = TRUE
    EvictUnlocated = FALSE
SPECIFICATION Spec
PROPERTY EndpointServed
CHECK_DEADLOCK FALSE
