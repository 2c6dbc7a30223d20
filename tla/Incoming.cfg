SPECIFICATION Spec
CONSTANTS
    Domains = {"d1", "d2"}
    MaxNames = 2
    Targets = {"c2s", "s2s"}
    Proxy = TRUE
    MaxRelayed = 2
INVARIANTS
    TypeOK
    S2sIsAuthenticated
    PlaintextStaysOut
    ScratchIsUnused
\* a connection that was closed takes no further step
CHECK_DEADLOCK FALSE
