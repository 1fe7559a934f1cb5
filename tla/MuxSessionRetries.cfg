SPECIFICATION Spec
CONSTANTS
    N = 1
    Recovery = TRUE
    ATTEMPTS = 2
    RETRY_MS = 1
    ESCALATION_MS = 3
    LOCAL_CLOSE_MS = 1
    CLOSE_FLUSH_MS = 1
    SETUP_TIMEOUT_MS = 2
    PENDING = 2
INVARIANT RetriedBeforeRebuild
\* One property is asked here; mux_session checks deadlock.
CHECK_DEADLOCK FALSE
