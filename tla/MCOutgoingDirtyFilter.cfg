SPECIFICATION Spec
CONSTANTS
    Nets <- MCBreaking
INVARIANTS
    FallbackReachesGoodServer
\* a connection that failed, or whose task panicked, takes no further step
CHECK_DEADLOCK FALSE
