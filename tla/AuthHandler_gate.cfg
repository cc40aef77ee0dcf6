\* Every S3 request over every cache content a path of up to three
\* prefixes can meet, and every bearer token a peer, the metadata server
\* or a forger can present.  The handler serves calls one at a time.
CONSTANTS
    Self = Self
    Other = Other
    Third = Third
    KnownSerials = {"self", "other", "server"}
SPECIFICATION Spec
INVARIANT TypeOK
INVARIANT AuthorizedByPermission
INVARIANT TokenAcceptedOnlyIfAddressed
INVARIANT PanicOnlyOnVerifiedToken
