\* A failed engine accepts no call: Failed is a final state of the code.
CHECK_DEADLOCK FALSE
SPECIFICATION FairSpec
CONSTANTS
    QUEUE_COMMANDS = 1
    SILENCE_MS = 1
    RESYNC_TIMEOUT_MS = 1
    RESYNC_ATTEMPTS = 2
    TRANSACTION_BYTES = 3
    MAX_LINES = 1
    WRITE_BYTES = 2
    Timeouts = {1, 2}
    MaxId = 2
INVARIANTS
    CompletedOnce
    WriteCoherent
PROPERTIES
    EveryCommandEnds
    ServesRequests
