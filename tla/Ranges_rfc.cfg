\* The same requests: does every satisfiable Range header give the bytes
\* RFC 7233 selects?
CONSTANTS
    Width = 4
    MaxLen = 6
SPECIFICATION Spec
INVARIANT RangeMatchesRfc
