\* The same calls: is an object that is not Public ever served without
\* credentials and a permission?
CONSTANTS
    Self = Self
    Other = Other
    Third = Third
    KnownSerials = {"self", "other", "server"}
SPECIFICATION Spec
INVARIANT PrivateNeedsCredentials
