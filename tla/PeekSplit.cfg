SPECIFICATION Spec
CONSTANTS
    Kinds = {"timeout"}
    Len = 3
    MaxSent = 4
    Limit = 3
    MaxTime = 7
PROPERTIES
    TlsBytesAreSniffed
\* the sniff ends
CHECK_DEADLOCK FALSE
