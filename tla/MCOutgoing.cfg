SPECIFICATION Spec
CONSTANTS
    Nets <- MCNets
INVARIANTS
    TypeOK
    FallbackReachesGoodServer
    ResponseIsOneServers
    RelaysClientStanzas
PROPERTIES
    WalkEnds
\* a connection that failed, or whose task panicked, takes no further step
CHECK_DEADLOCK FALSE
