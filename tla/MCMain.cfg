SPECIFICATION Spec
CONSTANTS
    Conns = {"c1", "c2"}
    Silent = {"c2"}
    MaxRenewals = 1
    Setups <- MCSetups
INVARIANTS
    TypeOK
    StartedAsAsked
    QuietIsCurrent
PROPERTIES
    RenewalIsServed
    ConnectionsAreAccepted
\* a process that exited takes no further step
CHECK_DEADLOCK FALSE
