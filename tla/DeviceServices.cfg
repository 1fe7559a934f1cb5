SPECIFICATION MCSpec
CONSTANTS
    TIMED = 2
    PERMANENT = 4
    LOCK_TICKS = 1
    MaxFaults = 2
    MaxCrashes = 2
    MaxResets = 1
INVARIANTS
    LockoutSurvives
    AudioRouted
    
    QuietAfterStop
    GrantsHeld
    
    
    
PROPERTY RemovalExact
\* A closed session makes no further call, and the others may rest when their
\* inputs are used up.
CHECK_DEADLOCK FALSE
