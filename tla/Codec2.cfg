SPECIFICATION MCSpec
CONSTANTS
    MaxEncodes = 3
    MaxDecodes = 2
    MaxAsks = 1
INVARIANTS
    WorksAccounted
    WorksSettle
    BuffersServed
    
    
\* A client whose works are all queued and returned may rest, and so may the others
\* when their inputs are used up.
CHECK_DEADLOCK FALSE
