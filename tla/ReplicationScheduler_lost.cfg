\* Sessions never fail and return only objects they located: can the two
\* tasks between them drop a replication request?
CONSTANTS
    e1 = e1
    e2 = e2
    a = a
    b = b
    Endpoints <- MCEndpoints
    Objects <- MCObjects
    MaxIntents = 3
    SessionFaults = FALSE
    SessionHangs = FALSE
    SharedShard = TRUE
    EvictUnlocated = FALSE
SPECIFICATION Spec
SYMMETRY MCSymmetry
INVARIANT IntentNotLost
