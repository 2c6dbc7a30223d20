SPECIFICATION Spec
CONSTANTS
    Kinds = {"TcpStream", "BufStream", "timeout"}
    Len = 3
    MaxSent = 4
    Limit = 3
    MaxTime = 7
INVARIANTS
    TypeOK
    SniffConsumesNothing
PROPERTIES
    TcpBytesAreSniffed
    SniffEnds
\* the sniff ends
CHECK_DEADLOCK FALSE
