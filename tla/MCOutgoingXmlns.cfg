SPECIFICATION Spec
CONSTANTS
    Nets <- MCCalm
INVARIANTS
    XmlnsGoesBeforeEndOfTag
\* a connection that failed, or whose task panicked, takes no further step
CHECK_DEADLOCK FALSE
