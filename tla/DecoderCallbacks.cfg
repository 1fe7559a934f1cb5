SPECIFICATION Spec
CONSTANTS
    MaxWorks = 2
    MaxAsks = 1
    INPUTS = 1
INVARIANT DecodeDoneFindsWork
\* A client whose works are all queued and returned may rest.
CHECK_DEADLOCK FALSE
