\* A stopped runtime, a chat that is over and a closed session may rest.
CHECK_DEADLOCK FALSE
SPECIFICATION MCSpec
CONSTANTS
    N = 1
    Recovery = TRUE
    ATTEMPTS = 2
    RETRY_MS = 1
    ESCALATION_MS = 3
    LOCAL_CLOSE_MS = 1
    CLOSE_FLUSH_MS = 1
    SETUP_TIMEOUT_MS = 2
    PENDING = 2
PROPERTIES
    EveryRequestAnswered
    BringUpEnds
    FlowResumes
    
