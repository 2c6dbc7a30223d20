SPECIFICATION Spec
CONSTANTS
    Settings <- MCSettings
    MaxSent = 2
    Cap = 1
INVARIANTS
    TypeOK
    RelaysWholeInOrder
    OverLongIsNeverRelayed
PROPERTIES
    FiltersKeepContract
    PeerCloseEndsRelay
    SentIsRelayed
\* the relay ends with its connections
CHECK_DEADLOCK FALSE
