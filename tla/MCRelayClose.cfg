SPECIFICATION Spec
CONSTANTS
    Settings <- MCWebSocket
    MaxSent = 2
    Cap = 1
PROPERTIES
    PeerCloseEndsRelay
\* the relay ends with its connections
CHECK_DEADLOCK FALSE
