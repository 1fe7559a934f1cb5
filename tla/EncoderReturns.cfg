SPECIFICATION Spec
CONSTANTS
    MaxWorks = 2
    INPUTS = 1
    OUTPUTS = 1
INVARIANT QueuedWorkReturned
\* A client whose works are all queued and returned may rest.
CHECK_DEADLOCK FALSE
